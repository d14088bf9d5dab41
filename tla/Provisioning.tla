--------------------------- MODULE Provisioning ---------------------------
(***************************************************************************)
(* How companies, business units, staff and chat memberships come to be.   *)
(* The backend keeps companies, business_units, persons, bu_staff_profiles *)
(* in its own database and provisions chat_workspaces and                  *)
(* chat_workspace_members in the chat database through gRPC.  Onboarding   *)
(* and "create business unit" hold a transaction open across the gRPC      *)
(* calls; staff operations commit statement by statement; the reset        *)
(* endpoint deletes and re-inserts without a transaction; startup creates  *)
(* the workspace of the seeded unit.  Each call may fail, may take effect  *)
(* and lose its answer, and the process may crash between any two.         *)
(*                                                                         *)
(* Ids are random UUIDs: the company, unit, person and profile a request   *)
(* creates are named after the request.  The seeded rows have id Seed.     *)
(***************************************************************************)
EXTENDS Naturals, FiniteSets

CONSTANTS
    Requests,     \* HTTP requests; each runs at most once
    Seed,         \* the fixed ids of InitialDataSeed
    Emails,       \* e-mail addresses
    SeedEmail,    \* the one of the seeded owner
    NoCall,       \* "not called yet"
    MaxCrashes,   \* bound on backend crashes
    Offered       \* bound on the endpoints the requests use

ASSUME SeedAssumption  == Seed \notin Requests
ASSUME EmailAssumption == SeedEmail \in Emails
ASSUME OfferedAssumption == Offered \subseteq {"onboard", "create_bu", "create_staff",
                             "enroll", "update_role", "update_access", "reset"}
ASSUME CrashAssumption == MaxCrashes \in Nat

VARIABLES
    companies,    \* companies: ids
    bus,          \* business_units: rows [id, company]
    persons,      \* persons: rows [id, company]
    profiles,     \* bu_staff_profiles: rows [id, person, bu, email, role]
    wss,          \* chat_workspaces: the bu_id of each row (bu_id is unique)
    mrole,        \* chat_workspace_members.role, "none" where there is no row
    access,       \* chat_workspace_members.has_access: pairs <<bu, person>>
    boot,         \* how far the backend's startup has come
    pc,           \* the next call of each request
    arg,          \* what each request asks for
    crashes,      \* how often the backend has crashed
    faulted,      \* history: requests one of whose calls failed or that a crash ended
    tokens,       \* history: companies whose owner has been able to log in
    granted       \* history: pairs <<bu, person>> an owner gave access to

maindb  == <<companies, bus, persons, profiles>>
chatdb  == <<wss, mrole, access>>
history == <<faulted, tokens, granted>>
vars    == <<maindb, chatdb, boot, pc, arg, crashes, history>>

Ids   == Requests \cup {Seed}
Pairs == Ids \X Ids

(* StaffRole; Admin and Staff, which may be assigned, behave alike here. *)
Roles == {"Owner", "Staff"}
Ops   == {"onboard", "create_bu", "create_staff", "enroll", "update_role",
          "update_access", "reset"}

Active == {"tx", "ws", "admin", "commit", "bu", "who", "dup", "person",
           "profile", "lookup", "member", "access", "role_read", "role_write",
           "del", "ins_company", "ins_bu", "ins_person", "ins_profile", "del_msgs"}
Ended  == {"done", "error"}

Call == [op : Ops, c : Ids, b : Ids, p : Ids, e : Emails, role : Roles, on : BOOLEAN]

Unit    == [id : Ids, company : Ids]
Profile == [id : Ids, person : Ids, bu : Ids, email : Emails, role : Roles]

SeedUnit    == [id |-> Seed, company |-> Seed]
SeedProfile == [id |-> Seed, person |-> Seed, bu |-> Seed, email |-> SeedEmail, role |-> "Owner"]

HasRow(table, i)    == \E row \in table : row.id = i
HasUnit(i, c)       == [id |-> i, company |-> c] \in bus
HasPerson(i, c)     == [id |-> i, company |-> c] \in persons
ProfilesOf(p, b)    == {row \in profiles : row.person = p /\ row.bu = b}

(* The state after EF Core's migrations, before the first startup. *)
Init ==
    /\ companies = {Seed} /\ bus = {SeedUnit} /\ persons = {SeedUnit}
    /\ profiles = {SeedProfile}
    /\ wss = {} /\ mrole = [x \in Pairs |-> "none"] /\ access = {}
    /\ boot = "down"
    /\ pc = [r \in Requests |-> "idle"]
    /\ arg = [r \in Requests |-> NoCall]
    /\ crashes = 0
    /\ faulted = {} /\ tokens = {Seed} /\ granted = {}

-----------------------------------------------------------------------------
(* The chat service's statements. *)

(* AddMember: NewMember gives access to an Admin; Upsert writes role and    *)
(* access of a new row but only the role of an existing one.                *)
Upsert_GivesAccess(b, p, role) ==
    /\ mrole' = [mrole EXCEPT ![<<b, p>>] = role]
    /\ access' = access \cup {<<b, p>>}
Upsert(b, p, role) ==
    /\ mrole' = [mrole EXCEPT ![<<b, p>>] = role]
    /\ access' = IF mrole[<<b, p>>] = "none" /\ role = "Admin"
                 THEN access \cup {<<b, p>>} ELSE access

(* UpdateAccess inserts a missing row as a Member. *)
UpdateAccess(b, p, on) ==
    /\ mrole' = [mrole EXCEPT ![<<b, p>>] = IF @ = "none" THEN "Member" ELSE @]
    /\ access' = IF on THEN access \cup {<<b, p>>} ELSE access \ {<<b, p>>}

-----------------------------------------------------------------------------
(* Startup: create the seeded unit's workspace unless it is there. *)

BootGet ==
    /\ boot = "down"
    /\ boot' = IF Seed \in wss THEN "up" ELSE "create"
    /\ UNCHANGED <<maindb, chatdb, pc, arg, crashes, history>>

BootCreate ==
    /\ boot = "create"
    /\ Seed \notin wss
    /\ wss' = wss \cup {Seed}
    /\ boot' = "admin"
    /\ UNCHANGED <<maindb, mrole, access, pc, arg, crashes, history>>

BootAdmin ==
    /\ boot = "admin"
    /\ Upsert(Seed, Seed, "Admin")
    /\ boot' = "up"
    /\ UNCHANGED <<maindb, wss, pc, arg, crashes, history>>

(* The process dies, or startup fails: open transactions roll back and no   *)
(* request in flight goes on.                                               *)
Crash ==
    /\ boot # "down"
    /\ crashes < MaxCrashes
    /\ crashes' = crashes + 1
    /\ boot' = "down"
    /\ pc' = [r \in Requests |-> IF pc[r] \in Active THEN "error" ELSE pc[r]]
    /\ faulted' = faulted \cup {r \in Requests : pc[r] \in Active}
    /\ UNCHANGED <<maindb, chatdb, arg, tokens, granted>>

-----------------------------------------------------------------------------
(* Requests. *)

Goto(r, next) == pc' = [pc EXCEPT ![r] = next]

(* A call that took effect answers, or its answer is lost and the handler   *)
(* ends in an error.                                                        *)
Answered(r, next) ==
    \/ Goto(r, next) /\ UNCHANGED faulted
    \/ Goto(r, "error") /\ faulted' = faulted \cup {r}

(* The caller is the owner of a company: its person has the company's id.   *)
(* The token may outlive the company, so any company that ever had an owner *)
(* will do.                                                                 *)
Begin(r, call, first) ==
    /\ boot = "up"
    /\ pc[r] = "idle"
    /\ call.op \in Offered
    /\ arg' = [arg EXCEPT ![r] = call]
    /\ Goto(r, first)
    /\ UNCHANGED <<maindb, chatdb, boot, crashes, history>>

ByOwner(c, op, b, p, e, role, on) ==
    [op |-> op, c |-> c, b |-> b, p |-> p, e |-> e, role |-> role, on |-> on]

(* Ids are random: a caller can only name one that a request drew before. *)
Known == {Seed} \cup {q \in Requests : pc[q] # "idle"}

BeginOnboard(r) == \E e \in Emails :
    Begin(r, ByOwner(r, "onboard", r, r, e, "Owner", FALSE), "tx")
BeginCreateBu(r) == \E c \in tokens :
    Begin(r, ByOwner(c, "create_bu", r, c, SeedEmail, "Owner", FALSE), "tx")
BeginCreateStaff(r) == \E c \in tokens, b \in Known, e \in Emails, role \in Roles :
    Begin(r, ByOwner(c, "create_staff", b, r, e, role, FALSE), "bu")
BeginEnroll(r) == \E c \in tokens, b, p \in Known, e \in Emails, role \in Roles :
    Begin(r, ByOwner(c, "enroll", b, p, e, role, FALSE), "bu")
BeginUpdateRole(r) == \E c \in tokens, b, p \in Known, role \in Roles :
    Begin(r, ByOwner(c, "update_role", b, p, SeedEmail, role, FALSE), "role_read")
BeginUpdateAccess(r) == \E c \in tokens, b, p \in Known, on \in BOOLEAN :
    Begin(r, ByOwner(c, "update_access", b, p, SeedEmail, "Staff", on), "bu")
BeginReset(r) == \E c \in tokens :
    Begin(r, ByOwner(c, "reset", Seed, Seed, SeedEmail, "Owner", FALSE), "del")

(* A call fails before it takes effect, or the request is cancelled. *)
Fail(r) ==
    /\ pc[r] \in Active
    /\ Goto(r, "error")
    /\ faulted' = faulted \cup {r}
    /\ UNCHANGED <<maindb, chatdb, boot, arg, crashes, tokens, granted>>

(* A lookup that finds nothing, a rejected role or a violated constraint.   *)
Reject(r) == Goto(r, "error") /\ UNCHANGED faulted

(* OnboardAsync and BusinessUnitService.CreateAsync.  The inserts stay      *)
(* invisible until the commit; the one of "create unit" needs its company.  *)
TxInsert_CommitsFirst(r) ==
    /\ pc[r] = "tx"
    /\ bus' = bus \cup {[id |-> r, company |-> arg[r].c]}
    /\ Goto(r, "ws")
    /\ UNCHANGED <<companies, persons, profiles, chatdb, boot, arg, crashes, history>>
TxInsert(r) ==
    /\ pc[r] = "tx"
    /\ IF arg[r].op = "onboard" \/ arg[r].c \in companies
       THEN Goto(r, "ws") /\ UNCHANGED faulted
       ELSE Reject(r)
    /\ UNCHANGED <<maindb, chatdb, boot, arg, crashes, tokens, granted>>

CreateWorkspace_NoAdmin(r) ==
    /\ pc[r] = "ws"
    /\ wss' = wss \cup {r}
    /\ Answered(r, "commit")
    /\ UNCHANGED <<maindb, mrole, access, boot, arg, crashes, tokens, granted>>
CreateWorkspace(r) ==
    /\ pc[r] = "ws"
    /\ wss' = wss \cup {r}
    /\ Answered(r, "admin")
    /\ UNCHANGED <<maindb, mrole, access, boot, arg, crashes, tokens, granted>>

AddAdmin(r) ==
    /\ pc[r] = "admin"
    /\ Upsert(r, arg[r].p, "Admin")
    /\ Answered(r, "commit")
    /\ UNCHANGED <<maindb, wss, boot, arg, crashes, tokens, granted>>

Commit(r) ==
    /\ pc[r] = "commit"
    /\ bus' = bus \cup {[id |-> r, company |-> arg[r].c]}
    /\ IF arg[r].op = "onboard"
       THEN /\ companies' = companies \cup {r}
            /\ persons' = persons \cup {[id |-> r, company |-> r]}
            /\ profiles' = profiles \cup {[id |-> r, person |-> r, bu |-> r,
                                           email |-> arg[r].e, role |-> "Owner"]}
            /\ tokens' = tokens \cup {r}
       ELSE UNCHANGED <<companies, persons, profiles, tokens>>
    /\ Answered(r, "done")
    /\ UNCHANGED <<chatdb, boot, arg, crashes, granted>>

(* StaffService and ChatAccessService.UpdateAccessAsync: every statement    *)
(* commits on its own.  buRepo.GetByIdAsync, then the role check of         *)
(* "create staff".                                                          *)
FindUnit(r) ==
    /\ pc[r] = "bu"
    /\ IF HasUnit(arg[r].b, arg[r].c)
       THEN IF arg[r].op # "create_staff"  THEN Goto(r, "who") /\ UNCHANGED faulted
            ELSE IF arg[r].role # "Owner"  THEN Goto(r, "person") /\ UNCHANGED faulted
            ELSE Reject(r)
       ELSE Reject(r)
    /\ UNCHANGED <<maindb, chatdb, boot, arg, crashes, tokens, granted>>

(* personRepo.GetByIdAsync *)
FindPerson_AnyCompany(r) ==
    /\ pc[r] = "who"
    /\ HasRow(persons, arg[r].p)
    /\ Goto(r, IF arg[r].op = "enroll" THEN "dup" ELSE "lookup")
    /\ UNCHANGED <<maindb, chatdb, boot, arg, crashes, history>>
FindPerson(r) ==
    /\ pc[r] = "who"
    /\ IF HasPerson(arg[r].p, arg[r].c)
       THEN Goto(r, IF arg[r].op = "enroll" THEN "dup" ELSE "lookup") /\ UNCHANGED faulted
       ELSE Reject(r)
    /\ UNCHANGED <<maindb, chatdb, boot, arg, crashes, tokens, granted>>

(* EnrollExistingAsync: no profile yet, then the role check. *)
FindDuplicate(r) ==
    /\ pc[r] = "dup"
    /\ IF ProfilesOf(arg[r].p, arg[r].b) = {} /\ arg[r].role # "Owner"
       THEN Goto(r, "profile") /\ UNCHANGED faulted
       ELSE Reject(r)
    /\ UNCHANGED <<maindb, chatdb, boot, arg, crashes, tokens, granted>>

(* personRepo.AddAsync; the company may have been deleted meanwhile. *)
InsertPerson(r) ==
    /\ pc[r] = "person"
    /\ IF arg[r].c \in companies
       THEN /\ persons' = persons \cup {[id |-> r, company |-> arg[r].c]}
            /\ Answered(r, "profile")
       ELSE Reject(r) /\ UNCHANGED persons
    /\ UNCHANGED <<companies, bus, profiles, chatdb, boot, arg, crashes, tokens, granted>>

(* profileRepo.AddAsync under the foreign keys and the unique (bu, email). *)
InsertProfile(r) ==
    /\ pc[r] = "profile"
    /\ IF /\ HasRow(bus, arg[r].b) /\ HasRow(persons, arg[r].p)
          /\ \A row \in profiles : ~(row.bu = arg[r].b /\ row.email = arg[r].e)
       THEN /\ profiles' = profiles \cup {[id |-> r, person |-> arg[r].p, bu |-> arg[r].b,
                                           email |-> arg[r].e, role |-> arg[r].role]}
            /\ Answered(r, "lookup")
       ELSE Reject(r) /\ UNCHANGED profiles
    /\ UNCHANGED <<companies, bus, persons, chatdb, boot, arg, crashes, tokens, granted>>

(* GetWorkspaceByBuIdAsync: without a workspace the staff operations skip   *)
(* the membership and UpdateAccessAsync throws.                             *)
LookupWorkspace_NeverFound(r) ==
    /\ pc[r] = "lookup"
    /\ Goto(r, IF arg[r].op = "update_access" THEN "error" ELSE "done")
    /\ UNCHANGED <<maindb, chatdb, boot, arg, crashes, history>>
LookupWorkspace(r) ==
    /\ pc[r] = "lookup"
    /\ IF arg[r].b \in wss
       THEN Goto(r, IF arg[r].op = "update_access" THEN "access" ELSE "member")
       ELSE Goto(r, IF arg[r].op = "update_access" THEN "error" ELSE "done")
    /\ UNCHANGED <<maindb, chatdb, boot, arg, crashes, history>>

AddStaffMember_ProfileRole(r) ==
    /\ pc[r] = "member"
    /\ Upsert(arg[r].b, arg[r].p, arg[r].role)
    /\ Answered(r, "done")
    /\ UNCHANGED <<maindb, wss, boot, arg, crashes, tokens, granted>>
AddStaffMember(r) ==
    /\ pc[r] = "member"
    /\ Upsert(arg[r].b, arg[r].p, "Member")
    /\ Answered(r, "done")
    /\ UNCHANGED <<maindb, wss, boot, arg, crashes, tokens, granted>>

SetAccess(r) ==
    /\ pc[r] = "access"
    /\ UpdateAccess(arg[r].b, arg[r].p, arg[r].on)
    /\ granted' = IF arg[r].on THEN granted \cup {<<arg[r].b, arg[r].p>>} ELSE granted
    /\ Answered(r, "done")
    /\ UNCHANGED <<maindb, wss, boot, arg, crashes, tokens>>

(* UpdateRoleAsync reads a profile with its person, checks, and updates the *)
(* row by id; the row it read is remembered in the request's p.  EF sends   *)
(* nothing when the row has the role already.                               *)
ReadProfile(r) ==
    /\ pc[r] = "role_read"
    /\ \/ /\ ProfilesOf(arg[r].p, arg[r].b) = {}
          /\ Reject(r)
          /\ UNCHANGED arg
       \/ \E row \in ProfilesOf(arg[r].p, arg[r].b) :
            IF HasPerson(row.person, arg[r].c) /\ arg[r].role # "Owner"
            THEN /\ arg' = [arg EXCEPT ![r].p = row.id]
                 /\ \/ Goto(r, "role_write")
                    \/ row.role = arg[r].role /\ Goto(r, "done")
                 /\ UNCHANGED faulted
            ELSE Reject(r) /\ UNCHANGED arg
    /\ UNCHANGED <<maindb, chatdb, boot, crashes, tokens, granted>>

WriteRole(r) ==
    /\ pc[r] = "role_write"
    /\ IF HasRow(profiles, arg[r].p)
       THEN /\ profiles' = {IF row.id = arg[r].p THEN [row EXCEPT !.role = arg[r].role]
                            ELSE row : row \in profiles}
            /\ Answered(r, "done")
       ELSE Reject(r) /\ UNCHANGED profiles
    /\ UNCHANGED <<companies, bus, persons, chatdb, boot, arg, crashes, tokens, granted>>

(* ResetToSeedAsync: six statements, no transaction.  The DELETE cascades,  *)
(* and waits for a "create unit" transaction that references a company.     *)
DeleteAll(r) ==
    /\ pc[r] = "del"
    /\ \A q \in Requests : ~(pc[q] \in {"ws", "admin", "commit"} /\ arg[q].op = "create_bu")
    /\ companies' = {} /\ bus' = {} /\ persons' = {} /\ profiles' = {}
    /\ Answered(r, "ins_company")
    /\ UNCHANGED <<chatdb, boot, arg, crashes, tokens, granted>>

InsertSeedCompany(r) ==
    /\ pc[r] = "ins_company"
    /\ IF Seed \notin companies
       THEN companies' = companies \cup {Seed} /\ Answered(r, "ins_bu")
       ELSE Reject(r) /\ UNCHANGED companies
    /\ UNCHANGED <<bus, persons, profiles, chatdb, boot, arg, crashes, tokens, granted>>

InsertSeedUnit_ForgetsPerson(r) ==
    /\ pc[r] = "ins_bu"
    /\ bus' = bus \cup {SeedUnit}
    /\ Answered(r, "ins_profile")
    /\ UNCHANGED <<companies, persons, profiles, chatdb, boot, arg, crashes, tokens, granted>>
InsertSeedUnit(r) ==
    /\ pc[r] = "ins_bu"
    /\ IF Seed \in companies /\ ~HasRow(bus, Seed)
       THEN bus' = bus \cup {SeedUnit} /\ Answered(r, "ins_person")
       ELSE Reject(r) /\ UNCHANGED bus
    /\ UNCHANGED <<companies, persons, profiles, chatdb, boot, arg, crashes, tokens, granted>>

InsertSeedPerson(r) ==
    /\ pc[r] = "ins_person"
    /\ IF Seed \in companies /\ ~HasRow(persons, Seed)
       THEN persons' = persons \cup {SeedUnit} /\ Answered(r, "ins_profile")
       ELSE Reject(r) /\ UNCHANGED persons
    /\ UNCHANGED <<companies, bus, profiles, chatdb, boot, arg, crashes, tokens, granted>>

InsertSeedProfile(r) ==
    /\ pc[r] = "ins_profile"
    /\ IF /\ HasRow(bus, Seed) /\ HasRow(persons, Seed) /\ ~HasRow(profiles, Seed)
          /\ \A row \in profiles : ~(row.bu = Seed /\ row.email = SeedEmail)
       THEN profiles' = profiles \cup {SeedProfile} /\ Answered(r, "del_msgs")
       ELSE Reject(r) /\ UNCHANGED profiles
    /\ UNCHANGED <<companies, bus, persons, chatdb, boot, arg, crashes, tokens, granted>>

(* DELETE FROM chat_messages, the sixth statement.  The messages are in     *)
(* ChatDelivery, whose DeleteMessages is this statement's effect; here it   *)
(* is one more call that may fail or lose its answer.                       *)
DeleteMessages(r) ==
    /\ pc[r] = "del_msgs"
    /\ Answered(r, "done")
    /\ UNCHANGED <<maindb, chatdb, boot, arg, crashes, tokens, granted>>

-----------------------------------------------------------------------------
Start(r) == \/ BeginOnboard(r)    \/ BeginCreateBu(r)     \/ BeginCreateStaff(r)
            \/ BeginEnroll(r)     \/ BeginUpdateRole(r)   \/ BeginUpdateAccess(r)
            \/ BeginReset(r)

Step(r) ==
    \/ TxInsert(r)      \/ CreateWorkspace(r) \/ AddAdmin(r)       \/ Commit(r)
    \/ FindUnit(r)      \/ FindPerson(r)      \/ FindDuplicate(r)  \/ InsertPerson(r)
    \/ InsertProfile(r) \/ LookupWorkspace(r) \/ AddStaffMember(r) \/ SetAccess(r)
    \/ ReadProfile(r)   \/ WriteRole(r)
    \/ DeleteAll(r)     \/ InsertSeedCompany(r) \/ InsertSeedUnit(r)
    \/ InsertSeedPerson(r) \/ InsertSeedProfile(r) \/ DeleteMessages(r)

Next == \/ BootGet \/ BootCreate \/ BootAdmin \/ Crash
        \/ \E r \in Requests : Start(r) \/ Step(r) \/ Fail(r)

Spec == Init /\ [][Next]_vars

-----------------------------------------------------------------------------
(* Types of both databases and of the requests' state. *)
TypeOK ==
    /\ companies \subseteq Ids
    /\ bus \subseteq Unit
    /\ persons \subseteq Unit
    /\ profiles \subseteq Profile
    /\ wss \subseteq Ids
    /\ mrole \in [Pairs -> {"none", "Admin", "Member"}]
    /\ access \subseteq Pairs
    /\ boot \in {"down", "create", "admin", "up"}
    /\ pc \in [Requests -> {"idle"} \cup Active \cup Ended]
    /\ arg \in [Requests -> Call \cup {NoCall}]
    /\ crashes \in 0 .. MaxCrashes
    /\ faulted \subseteq Requests
    /\ tokens \subseteq Ids
    /\ granted \subseteq Pairs

(* OnboardingService and BusinessUnitService: "the system never ends up     *)
(* with a company/owner record but no chat workspace".  Every committed     *)
(* unit has a workspace in the other database; the seeded one from the end  *)
(* of the first startup on, through every crash, lost answer and reset.     *)
UnitHasWorkspace ==
    \A row \in bus : row.id \in wss \/ (row.id = Seed /\ boot # "up")

(* Whoever created a unit is an Admin of its workspace: that membership is  *)
(* written before the unit becomes visible, no request names the unit       *)
(* earlier, and neither an access change nor a reset touches it.  Only an   *)
(* enrolment of the creator in that very unit, whose upsert overwrites the  *)
(* role, leaves a Member, although the README says without exception that   *)
(* "Company Owner is assigned as Chat Admin for each workspace".            *)
EnrolledIn(p, b) == \E q \in Requests :
    pc[q] \in Ended /\ arg[q].op = "enroll" /\ arg[q].p = p /\ arg[q].b = b

CreatorIsAdmin ==
    \A row \in bus : row.id # Seed =>
        LET p == arg[row.id].p
        IN \/ mrole[<<row.id, p>>] = "Admin"
           \/ mrole[<<row.id, p>>] = "Member" /\ EnrolledIn(p, row.id)

(* Staff operations commit person, profile and membership one by one: a     *)
(* person without a profile or a profile without a membership is the work   *)
(* of a request that is still running or ended in an error.                 *)
StaffGapsExplained ==
    /\ \A row \in persons :
         \/ row.id = Seed
         \/ \E x \in profiles : x.person = row.id
         \/ pc[row.id] \in {"profile", "error"}
    /\ \A x \in profiles :
         \/ x.id = Seed
         \/ mrole[<<x.bu, x.person>>] # "none"
         \/ pc[x.id] \in {"lookup", "member"}
         \/ x.id \in faulted

(* "Staff must be explicitly granted chat access": a member has access only *)
(* as the creator of the unit or after an owner granted it; creating and    *)
(* enrolling staff, whose upsert may hit an existing row, never gives it.   *)
AccessExplained ==
    \A x \in access :
        \/ x \in granted
        \/ x[1] = Seed /\ x[2] = Seed
        \/ x[1] # Seed /\ x[2] = arg[x[1]].p

(* A profile ties a person to a unit of the person's own company, although  *)
(* the lookups and the insert are separate statements and a reset may run   *)
(* in between.                                                              *)
ProfilesWithinCompany ==
    \A x \in profiles : \E c \in companies :
        HasUnit(x.bu, c) /\ HasPerson(x.person, c)

Resets == {r \in Requests : pc[r] # "idle" /\ arg[r].op = "reset"}

SeedPresent == /\ SeedUnit \in bus /\ SeedUnit \in persons
               /\ \E x \in profiles : x.bu = Seed /\ x.email = SeedEmail

(* A reset that runs alone among other requests and meets no fault restores *)
(* the seeded unit, person and profile, unless a staff request still in     *)
(* flight took the seeded owner's e-mail first: its DELETE and its inserts  *)
(* are not one transaction.                                                 *)
LoneResetRestores ==
    \A r \in Resets : Resets = {r} /\ pc[r] \in Ended /\ r \notin faulted => SeedPresent

(* The following claim does not hold; a run shows how.                      *)

(* OnboardingService: a failure "rolls back the DB transaction, keeping     *)
(* both systems consistent".  README: "gRPC chat calls after commit.  If    *)
(* chat service is down, HTTP 500 is returned but company/user records are  *)
(* retained".  Either way there is no workspace without a unit, once the    *)
(* request that created it has ended; and the unit is not retained.         *)
NoOrphanWorkspace ==
    Resets = {} => \A b \in wss \ {Seed} : pc[b] \in Ended => HasRow(bus, b)

=============================================================================
