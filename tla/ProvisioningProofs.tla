------------------------ MODULE ProvisioningProofs ------------------------
(***************************************************************************)
(* Machine-checked proofs about Provisioning, for any number of requests,  *)
(* e-mails and crashes and whatever endpoints are offered.                 *)
(***************************************************************************)
EXTENDS Provisioning, TLAPS

PCs == {"idle"} \cup Active \cup Ended

(* A request that has begun has an argument. *)
Begun == \A r \in Requests : pc[r] # "idle" => arg[r] \in Call

TInv == TypeOK /\ Begun

-----------------------------------------------------------------------------
(* What moving on does to pc and faulted. *)

LEMMA GotoMoves ==
    ASSUME TypeOK, NEW r \in Requests, NEW s \in PCs, Goto(r, s)
    PROVE  /\ pc' \in [Requests -> PCs]
           /\ pc'[r] = s
           /\ \A q \in Requests : q # r => pc'[q] = pc[q]
BY DEF TypeOK, Goto, PCs

LEMMA AnsweredMoves ==
    ASSUME TypeOK, NEW r \in Requests, NEW s \in PCs, Answered(r, s)
    PROVE  /\ pc' \in [Requests -> PCs]
           /\ pc'[r] \in {s, "error"}
           /\ \A q \in Requests : q # r => pc'[q] = pc[q]
           /\ faulted' \subseteq Requests
<1>1. "error" \in PCs
  BY DEF PCs, Ended
<1>2. CASE Goto(r, s) /\ UNCHANGED faulted
  BY <1>2, GotoMoves DEF TypeOK
<1>3. CASE Goto(r, "error") /\ faulted' = faulted \cup {r}
  <2>1. faulted' \subseteq Requests
    BY <1>3 DEF TypeOK
  <2> QED BY <1>1, <1>3, <2>1, GotoMoves
<1> QED BY <1>2, <1>3 DEF Answered

LEMMA RejectMoves ==
    ASSUME TypeOK, NEW r \in Requests, Reject(r)
    PROVE  /\ pc' \in [Requests -> PCs]
           /\ pc'[r] = "error"
           /\ \A q \in Requests : q # r => pc'[q] = pc[q]
           /\ faulted' \subseteq Requests
<1>1. "error" \in PCs
  BY DEF PCs, Ended
<1> QED BY <1>1, GotoMoves DEF Reject, TypeOK

LEMMA UpsertType ==
    ASSUME TypeOK, NEW b \in Ids, NEW p \in Ids, NEW role \in {"Admin", "Member"},
           Upsert(b, p, role)
    PROVE  /\ mrole' \in [Pairs -> {"none", "Admin", "Member"}]
           /\ access' \subseteq Pairs
           /\ mrole'[<<b, p>>] # "none"
           /\ \A x \in Pairs : mrole[x] # "none" => mrole'[x] # "none"
           /\ \A x \in access' : x \in access \/ (x = <<b, p>> /\ role = "Admin")
<1>1. <<b, p>> \in Pairs
  BY DEF Pairs
<1> QED BY <1>1 DEF TypeOK, Upsert

LEMMA UpdateAccessType ==
    ASSUME TypeOK, NEW b \in Ids, NEW p \in Ids, NEW on \in BOOLEAN,
           UpdateAccess(b, p, on)
    PROVE  /\ mrole' \in [Pairs -> {"none", "Admin", "Member"}]
           /\ access' \subseteq Pairs
           /\ \A x \in Pairs : mrole[x] # "none" => mrole'[x] # "none"
           /\ \A x \in access' : x \in access \/ (x = <<b, p>> /\ on)
<1>1. <<b, p>> \in Pairs
  BY DEF Pairs
<1>2. mrole' \in [Pairs -> {"none", "Admin", "Member"}]
  BY <1>1 DEF TypeOK, UpdateAccess
<1>3. \A x \in Pairs : mrole[x] # "none" => mrole'[x] # "none"
  BY <1>1 DEF TypeOK, UpdateAccess
<1>4. access' \subseteq Pairs
  BY <1>1 DEF TypeOK, UpdateAccess
<1>5. \A x \in access' : x \in access \/ (x = <<b, p>> /\ on)
  BY DEF UpdateAccess
<1> QED BY <1>2, <1>3, <1>4, <1>5

-----------------------------------------------------------------------------
(* Every step of a request moves that request only. *)

Moved(r) ==
    /\ pc[r] # "idle"
    /\ pc' \in [Requests -> PCs]
    /\ \A q \in Requests : q # r => pc'[q] = pc[q]
    /\ faulted' \subseteq Requests
    /\ UNCHANGED <<boot, crashes>>

LEMMA StepMoves ==
    ASSUME TInv, NEW r \in Requests, Step(r) \/ Fail(r)
    PROVE  Moved(r)
<1> USE DEF TInv
<1>0. \A s \in Active \cup Ended : s \in PCs
  BY DEF PCs
<1>a. /\ \A s \in {"ws", "admin", "commit", "who", "dup", "person", "profile", "lookup",
                  "member", "access", "role_write", "ins_company", "ins_bu", "ins_person",
                  "ins_profile", "del_msgs"} : s \in Active
      /\ "done" \in Ended /\ "error" \in Ended
  BY DEF Active, Ended
<1>1. CASE Fail(r)
  <2>1. pc[r] # "idle"
    BY <1>1 DEF Fail, Active
  <2>2. faulted' \subseteq Requests
    BY <1>1 DEF Fail, TypeOK
  <2> QED BY <1>0, <1>a, <1>1, <2>1, <2>2, GotoMoves DEF Fail, Moved
<1>2. CASE TxInsert(r)
  BY <1>0, <1>a, <1>2, GotoMoves, RejectMoves DEF TxInsert, Moved, TypeOK
<1>3. CASE CreateWorkspace(r)
  BY <1>0, <1>a, <1>3, AnsweredMoves DEF CreateWorkspace, Moved
<1>4. CASE AddAdmin(r)
  BY <1>0, <1>a, <1>4, AnsweredMoves DEF AddAdmin, Moved
<1>5. CASE Commit(r)
  BY <1>0, <1>a, <1>5, AnsweredMoves DEF Commit, Moved
<1>6. CASE FindUnit(r)
  BY <1>0, <1>a, <1>6, GotoMoves, RejectMoves DEF FindUnit, Moved, TypeOK
<1>7. CASE FindPerson(r)
  BY <1>0, <1>a, <1>7, GotoMoves, RejectMoves DEF FindPerson, Moved, TypeOK
<1>8. CASE FindDuplicate(r)
  BY <1>0, <1>a, <1>8, GotoMoves, RejectMoves DEF FindDuplicate, Moved, TypeOK
<1>9. CASE InsertPerson(r)
  BY <1>0, <1>a, <1>9, AnsweredMoves, RejectMoves DEF InsertPerson, Moved
<1>10. CASE InsertProfile(r)
  BY <1>0, <1>a, <1>10, AnsweredMoves, RejectMoves DEF InsertProfile, Moved
<1>11. CASE LookupWorkspace(r)
  BY <1>0, <1>a, <1>11, GotoMoves DEF LookupWorkspace, Moved, TypeOK, history
<1>12. CASE AddStaffMember(r)
  BY <1>0, <1>a, <1>12, AnsweredMoves DEF AddStaffMember, Moved
<1>13. CASE SetAccess(r)
  BY <1>0, <1>a, <1>13, AnsweredMoves DEF SetAccess, Moved
<1>14. CASE ReadProfile(r)
  <2>1. Reject(r) \/ (Goto(r, "role_write") /\ UNCHANGED faulted)
                  \/ (Goto(r, "done") /\ UNCHANGED faulted)
    BY <1>14 DEF ReadProfile
  <2> QED BY <1>0, <1>a, <1>14, <2>1, GotoMoves, RejectMoves DEF ReadProfile, Moved, TypeOK
<1>15. CASE WriteRole(r)
  BY <1>0, <1>a, <1>15, AnsweredMoves, RejectMoves DEF WriteRole, Moved
<1>16. CASE DeleteAll(r)
  BY <1>0, <1>a, <1>16, AnsweredMoves DEF DeleteAll, Moved
<1>17. CASE InsertSeedCompany(r)
  BY <1>0, <1>a, <1>17, AnsweredMoves, RejectMoves DEF InsertSeedCompany, Moved
<1>18. CASE InsertSeedUnit(r)
  BY <1>0, <1>a, <1>18, AnsweredMoves, RejectMoves DEF InsertSeedUnit, Moved
<1>19. CASE InsertSeedPerson(r)
  BY <1>0, <1>a, <1>19, AnsweredMoves, RejectMoves DEF InsertSeedPerson, Moved
<1>20. CASE InsertSeedProfile(r)
  BY <1>0, <1>a, <1>20, AnsweredMoves, RejectMoves DEF InsertSeedProfile, Moved
<1>21. CASE DeleteMessages(r)
  BY <1>0, <1>a, <1>21, AnsweredMoves DEF DeleteMessages, Moved
<1> QED BY <1>1, <1>2, <1>3, <1>4, <1>5, <1>6, <1>7, <1>8, <1>9, <1>10, <1>11, <1>12,
           <1>13, <1>14, <1>15, <1>16, <1>17, <1>18, <1>19, <1>20, <1>21 DEF Step

(* What the beginning of a request does. *)
Begins(r) ==
    /\ pc[r] = "idle"
    /\ pc' \in [Requests -> PCs]
    /\ pc'[r] \in {"tx", "bu", "role_read", "del"}
    /\ \A q \in Requests : q # r => pc'[q] = pc[q]
    /\ arg' \in [Requests -> Call \cup {NoCall}]
    /\ arg'[r] \in Call
    /\ \A q \in Requests : q # r => arg'[q] = arg[q]
    /\ UNCHANGED <<maindb, chatdb, boot, crashes, history>>

(* What each endpoint asks for, as far as the proofs below need it. *)
Asked(r, call) ==
    /\ call.op = "onboard"      => call.c = r /\ call.b = r /\ call.p = r
    /\ call.op = "create_bu"    => call.b = r /\ call.p = call.c
    /\ call.op = "create_staff" => call.p = r

First(op) == IF op \in {"onboard", "create_bu"} THEN "tx"
             ELSE IF op = "update_role" THEN "role_read"
             ELSE IF op = "reset" THEN "del" ELSE "bu"

LEMMA BeginMoves ==
    ASSUME TInv, NEW r \in Requests, NEW call \in Call, Asked(r, call),
           Begin(r, call, First(call.op))
    PROVE  Begins(r) /\ Asked(r, arg'[r]) /\ pc'[r] = First(arg'[r].op)
<1>1. First(call.op) \in {"tx", "bu", "role_read", "del"}
  BY DEF First
<1>2. First(call.op) \in PCs
  BY <1>1 DEF PCs, Active
<1>3. arg' \in [Requests -> Call \cup {NoCall}] /\ arg'[r] = call
       /\ \A q \in Requests : q # r => arg'[q] = arg[q]
  BY DEF Begin, TInv, TypeOK
<1>4. Goto(r, First(call.op)) /\ pc[r] = "idle"
       /\ UNCHANGED <<maindb, chatdb, boot, crashes, history>>
  BY DEF Begin
<1> QED BY <1>1, <1>2, <1>3, <1>4, GotoMoves DEF Begins, TInv

LEMMA CallType ==
    ASSUME NEW c \in Ids, NEW op \in Ops, NEW b \in Ids, NEW p \in Ids, NEW e \in Emails,
           NEW role \in Roles, NEW on \in BOOLEAN
    PROVE  ByOwner(c, op, b, p, e, role, on) \in Call
BY DEF ByOwner, Call

LEMMA StartMoves ==
    ASSUME TInv, NEW r \in Requests, Start(r)
    PROVE  Begins(r) /\ Asked(r, arg'[r]) /\ pc'[r] = First(arg'[r].op)
<1>1. r \in Ids /\ Seed \in Ids /\ Known \subseteq Ids /\ SeedEmail \in Emails
       /\ tokens \subseteq Ids
  BY EmailAssumption DEF Ids, Known, TInv, TypeOK
<1>2. "Owner" \in Roles /\ "Staff" \in Roles /\ TRUE \in BOOLEAN /\ FALSE \in BOOLEAN
  BY DEF Roles
<1>3. \A op \in {"onboard", "create_bu", "create_staff", "enroll", "update_role",
                 "update_access", "reset"} : op \in Ops
  BY DEF Ops
<1>4. CASE BeginOnboard(r)
  <2>1. PICK e \in Emails : Begin(r, ByOwner(r, "onboard", r, r, e, "Owner", FALSE), "tx")
    BY <1>4 DEF BeginOnboard
  <2> DEFINE call == ByOwner(r, "onboard", r, r, e, "Owner", FALSE)
  <2>2. call \in Call
    BY <1>1, <1>2, <1>3, CallType
  <2>3. Asked(r, call) /\ First(call.op) = "tx"
    BY DEF ByOwner, Asked, First
  <2> HIDE DEF call
  <2>4. Begin(r, call, First(call.op))
    BY <2>1, <2>3 DEF call
  <2> QED BY <2>2, <2>3, <2>4, BeginMoves
<1>5. CASE BeginCreateBu(r)
  <2>1. PICK c \in tokens : Begin(r, ByOwner(c, "create_bu", r, c, SeedEmail, "Owner", FALSE), "tx")
    BY <1>5 DEF BeginCreateBu
  <2> DEFINE call == ByOwner(c, "create_bu", r, c, SeedEmail, "Owner", FALSE)
  <2>2. call \in Call
    BY <1>1, <1>2, <1>3, CallType
  <2>3. Asked(r, call) /\ First(call.op) = "tx"
    BY DEF ByOwner, Asked, First
  <2> HIDE DEF call
  <2>4. Begin(r, call, First(call.op))
    BY <2>1, <2>3 DEF call
  <2> QED BY <2>2, <2>3, <2>4, BeginMoves
<1>6. CASE BeginCreateStaff(r)
  <2>1. PICK c \in tokens, b \in Known, e \in Emails, role \in Roles :
          Begin(r, ByOwner(c, "create_staff", b, r, e, role, FALSE), "bu")
    BY <1>6 DEF BeginCreateStaff
  <2> DEFINE call == ByOwner(c, "create_staff", b, r, e, role, FALSE)
  <2>2. call \in Call
    BY <1>1, <1>2, <1>3, CallType
  <2>3. Asked(r, call) /\ First(call.op) = "bu"
    BY DEF ByOwner, Asked, First
  <2> HIDE DEF call
  <2>4. Begin(r, call, First(call.op))
    BY <2>1, <2>3 DEF call
  <2> QED BY <2>2, <2>3, <2>4, BeginMoves
<1>7. CASE BeginEnroll(r)
  <2>1. PICK c \in tokens, b \in Known, p \in Known, e \in Emails, role \in Roles :
          Begin(r, ByOwner(c, "enroll", b, p, e, role, FALSE), "bu")
    BY <1>7 DEF BeginEnroll
  <2> DEFINE call == ByOwner(c, "enroll", b, p, e, role, FALSE)
  <2>2. call \in Call
    BY <1>1, <1>2, <1>3, CallType
  <2>3. Asked(r, call) /\ First(call.op) = "bu"
    BY DEF ByOwner, Asked, First
  <2> HIDE DEF call
  <2>4. Begin(r, call, First(call.op))
    BY <2>1, <2>3 DEF call
  <2> QED BY <2>2, <2>3, <2>4, BeginMoves
<1>8. CASE BeginUpdateRole(r)
  <2>1. PICK c \in tokens, b \in Known, p \in Known, role \in Roles :
          Begin(r, ByOwner(c, "update_role", b, p, SeedEmail, role, FALSE), "role_read")
    BY <1>8 DEF BeginUpdateRole
  <2> DEFINE call == ByOwner(c, "update_role", b, p, SeedEmail, role, FALSE)
  <2>2. call \in Call
    BY <1>1, <1>2, <1>3, CallType
  <2>3. Asked(r, call) /\ First(call.op) = "role_read"
    BY DEF ByOwner, Asked, First
  <2> HIDE DEF call
  <2>4. Begin(r, call, First(call.op))
    BY <2>1, <2>3 DEF call
  <2> QED BY <2>2, <2>3, <2>4, BeginMoves
<1>9. CASE BeginUpdateAccess(r)
  <2>1. PICK c \in tokens, b \in Known, p \in Known, on \in BOOLEAN :
          Begin(r, ByOwner(c, "update_access", b, p, SeedEmail, "Staff", on), "bu")
    BY <1>9 DEF BeginUpdateAccess
  <2> DEFINE call == ByOwner(c, "update_access", b, p, SeedEmail, "Staff", on)
  <2>2. call \in Call
    BY <1>1, <1>2, <1>3, CallType
  <2>3. Asked(r, call) /\ First(call.op) = "bu"
    BY DEF ByOwner, Asked, First
  <2> HIDE DEF call
  <2>4. Begin(r, call, First(call.op))
    BY <2>1, <2>3 DEF call
  <2> QED BY <2>2, <2>3, <2>4, BeginMoves
<1>10. CASE BeginReset(r)
  <2>1. PICK c \in tokens : Begin(r, ByOwner(c, "reset", Seed, Seed, SeedEmail, "Owner", FALSE), "del")
    BY <1>10 DEF BeginReset
  <2> DEFINE call == ByOwner(c, "reset", Seed, Seed, SeedEmail, "Owner", FALSE)
  <2>2. call \in Call
    BY <1>1, <1>2, <1>3, CallType
  <2>3. Asked(r, call) /\ First(call.op) = "del"
    BY DEF ByOwner, Asked, First
  <2> HIDE DEF call
  <2>4. Begin(r, call, First(call.op))
    BY <2>1, <2>3 DEF call
  <2> QED BY <2>2, <2>3, <2>4, BeginMoves
<1> QED BY <1>4, <1>5, <1>6, <1>7, <1>8, <1>9, <1>10 DEF Start

-----------------------------------------------------------------------------
(* Type correctness. *)

(* The typing of the tables and the history that actions write to. *)
Tables ==
    /\ companies \subseteq Ids
    /\ bus \subseteq Unit
    /\ persons \subseteq Unit
    /\ profiles \subseteq Profile
    /\ wss \subseteq Ids
    /\ mrole \in [Pairs -> {"none", "Admin", "Member"}]
    /\ access \subseteq Pairs
    /\ tokens \subseteq Ids
    /\ granted \subseteq Pairs

LEMMA MovedTypes ==
    ASSUME TInv, NEW r \in Requests, Moved(r), UNCHANGED arg, Tables'
    PROVE  TInv'
<1>1. TypeOK'
  BY DEF TInv, TypeOK, Moved, Tables, PCs
<1>2. Begun'
  BY DEF TInv, Begun, Moved
<1> QED BY <1>1, <1>2 DEF TInv

LEMMA IdTypes == Seed \in Ids /\ (\A r \in Requests : r \in Ids)
BY DEF Ids

LEMMA SeedTypes == SeedUnit \in Unit /\ SeedProfile \in Profile
BY IdTypes, EmailAssumption DEF SeedUnit, SeedProfile, Unit, Profile, Roles

LEMMA StepTypes ==
    ASSUME TInv, NEW r \in Requests, Step(r) \/ Fail(r)
    PROVE  TInv'
<1>0. Moved(r)
  BY StepMoves
<1>t. Tables
  BY DEF TInv, TypeOK, Tables
<1>a. /\ arg[r] \in Call
      /\ arg[r].c \in Ids /\ arg[r].b \in Ids /\ arg[r].p \in Ids
      /\ arg[r].e \in Emails /\ arg[r].role \in Roles /\ arg[r].on \in BOOLEAN
  <2>1. arg[r] \in Call
    BY <1>0 DEF TInv, Begun, Moved
  <2> QED BY <2>1 DEF Call
<1>1. CASE Fail(r)
  BY <1>0, <1>t, <1>1, MovedTypes DEF Fail, Tables, maindb, chatdb
<1>2. CASE TxInsert(r)
  BY <1>0, <1>t, <1>2, MovedTypes DEF TxInsert, Tables, maindb, chatdb
<1>3. CASE CreateWorkspace(r)
  <2>1. wss' \subseteq Ids
    BY <1>t, <1>3, IdTypes DEF CreateWorkspace, Tables
  <2> QED BY <1>0, <1>t, <1>3, <2>1, MovedTypes DEF CreateWorkspace, Tables, maindb
<1>4. CASE AddAdmin(r)
  <2>1. Upsert(r, arg[r].p, "Admin")
    BY <1>4 DEF AddAdmin
  <2>2. mrole' \in [Pairs -> {"none", "Admin", "Member"}] /\ access' \subseteq Pairs
    BY <1>a, <2>1, IdTypes, UpsertType DEF TInv
  <2> QED BY <1>0, <1>t, <1>4, <2>2, MovedTypes DEF AddAdmin, Tables, maindb
<1>5. CASE Commit(r)
  <2>1. [id |-> r, company |-> arg[r].c] \in Unit /\ [id |-> r, company |-> r] \in Unit
    BY <1>a, IdTypes DEF Unit
  <2>2. [id |-> r, person |-> r, bu |-> r, email |-> arg[r].e, role |-> "Owner"] \in Profile
    BY <1>a, IdTypes DEF Profile, Roles
  <2>3. bus' \subseteq Unit
    BY <1>t, <1>5, <2>1 DEF Commit, Tables
  <2>4. companies' \subseteq Ids /\ tokens' \subseteq Ids
    BY <1>t, <1>5, IdTypes DEF Commit, Tables
  <2>5. persons' \subseteq Unit
    BY <1>t, <1>5, <2>1 DEF Commit, Tables
  <2>6. profiles' \subseteq Profile
    BY <1>t, <1>5, <2>2 DEF Commit, Tables
  <2> QED BY <1>0, <1>t, <1>5, <2>3, <2>4, <2>5, <2>6, MovedTypes DEF Commit, Tables, chatdb
<1>6. CASE FindUnit(r)
  BY <1>0, <1>t, <1>6, MovedTypes DEF FindUnit, Tables, maindb, chatdb
<1>7. CASE FindPerson(r)
  BY <1>0, <1>t, <1>7, MovedTypes DEF FindPerson, Tables, maindb, chatdb
<1>8. CASE FindDuplicate(r)
  BY <1>0, <1>t, <1>8, MovedTypes DEF FindDuplicate, Tables, maindb, chatdb
<1>9. CASE InsertPerson(r)
  <2>1. [id |-> r, company |-> arg[r].c] \in Unit
    BY <1>a, IdTypes DEF Unit
  <2>2. persons' \subseteq Unit
    BY <1>t, <1>9, <2>1 DEF InsertPerson, Tables
  <2> QED BY <1>0, <1>t, <1>9, <2>2, MovedTypes DEF InsertPerson, Tables, chatdb
<1>10. CASE InsertProfile(r)
  <2>1. [id |-> r, person |-> arg[r].p, bu |-> arg[r].b, email |-> arg[r].e,
         role |-> arg[r].role] \in Profile
    BY <1>a, IdTypes DEF Profile
  <2>2. profiles' \subseteq Profile
    BY <1>t, <1>10, <2>1 DEF InsertProfile, Tables
  <2> QED BY <1>0, <1>t, <1>10, <2>2, MovedTypes DEF InsertProfile, Tables, chatdb
<1>11. CASE LookupWorkspace(r)
  BY <1>0, <1>t, <1>11, MovedTypes DEF LookupWorkspace, Tables, maindb, chatdb, history
<1>12. CASE AddStaffMember(r)
  <2>1. Upsert(arg[r].b, arg[r].p, "Member")
    BY <1>12 DEF AddStaffMember
  <2>2. mrole' \in [Pairs -> {"none", "Admin", "Member"}] /\ access' \subseteq Pairs
    BY <1>a, <2>1, UpsertType DEF TInv
  <2> QED BY <1>0, <1>t, <1>12, <2>2, MovedTypes DEF AddStaffMember, Tables, maindb
<1>13. CASE SetAccess(r)
  <2>1. UpdateAccess(arg[r].b, arg[r].p, arg[r].on)
    BY <1>13 DEF SetAccess
  <2>2. mrole' \in [Pairs -> {"none", "Admin", "Member"}] /\ access' \subseteq Pairs
    BY <1>a, <2>1, UpdateAccessType DEF TInv
  <2>3. <<arg[r].b, arg[r].p>> \in Pairs
    BY <1>a DEF Pairs
  <2>4. granted' \subseteq Pairs
    BY <1>t, <1>13, <2>3 DEF SetAccess, Tables
  <2> QED BY <1>0, <1>t, <1>13, <2>2, <2>4, MovedTypes DEF SetAccess, Tables, maindb
<1>14. CASE ReadProfile(r)
  <2>1. arg' \in [Requests -> Call \cup {NoCall}] /\ arg'[r] \in Call
         /\ \A q \in Requests : q # r => arg'[q] = arg[q]
    <3>1. CASE UNCHANGED arg
      BY <1>a, <3>1 DEF TInv, TypeOK
    <3>2. CASE \E row \in ProfilesOf(arg[r].p, arg[r].b) : arg' = [arg EXCEPT ![r].p = row.id]
      <4>1. PICK row \in ProfilesOf(arg[r].p, arg[r].b) : arg' = [arg EXCEPT ![r].p = row.id]
        BY <3>2
      <4>2. row.id \in Ids
        BY <1>t DEF ProfilesOf, Tables, Profile
      <4>3. [arg[r] EXCEPT !.p = row.id] \in Call
        BY <1>a, <4>2 DEF Call
      <4> QED BY <4>1, <4>3 DEF TInv, TypeOK
    <3> QED BY <1>14, <3>1, <3>2 DEF ReadProfile
  <2>2. TypeOK'
    BY <1>0, <1>t, <1>14, <2>1 DEF ReadProfile, TInv, TypeOK, Moved, Tables, PCs, maindb, chatdb
  <2>3. Begun'
    BY <1>0, <2>1 DEF TInv, Begun, Moved
  <2> QED BY <2>2, <2>3 DEF TInv
<1>15. CASE WriteRole(r)
  <2>1. \A row \in Profile : [row EXCEPT !.role = arg[r].role] \in Profile
    BY <1>a DEF Profile
  <2>2. profiles' \subseteq Profile
    BY <1>t, <1>15, <2>1 DEF WriteRole, Tables
  <2> QED BY <1>0, <1>t, <1>15, <2>2, MovedTypes DEF WriteRole, Tables, chatdb
<1>16. CASE DeleteAll(r)
  BY <1>0, <1>t, <1>16, MovedTypes DEF DeleteAll, Tables, chatdb
<1>17. CASE InsertSeedCompany(r)
  <2>1. companies' \subseteq Ids
    BY <1>t, <1>17, IdTypes DEF InsertSeedCompany, Tables
  <2> QED BY <1>0, <1>t, <1>17, <2>1, MovedTypes DEF InsertSeedCompany, Tables, chatdb
<1>18. CASE InsertSeedUnit(r)
  <2>1. bus' \subseteq Unit
    BY <1>t, <1>18, SeedTypes DEF InsertSeedUnit, Tables
  <2> QED BY <1>0, <1>t, <1>18, <2>1, MovedTypes DEF InsertSeedUnit, Tables, chatdb
<1>19. CASE InsertSeedPerson(r)
  <2>1. persons' \subseteq Unit
    BY <1>t, <1>19, SeedTypes DEF InsertSeedPerson, Tables
  <2> QED BY <1>0, <1>t, <1>19, <2>1, MovedTypes DEF InsertSeedPerson, Tables, chatdb
<1>20. CASE InsertSeedProfile(r)
  <2>1. profiles' \subseteq Profile
    BY <1>t, <1>20, SeedTypes DEF InsertSeedProfile, Tables
  <2> QED BY <1>0, <1>t, <1>20, <2>1, MovedTypes DEF InsertSeedProfile, Tables, chatdb
<1>21. CASE DeleteMessages(r)
  BY <1>0, <1>t, <1>21, MovedTypes DEF DeleteMessages, Tables, maindb, chatdb
<1> QED BY <1>1, <1>2, <1>3, <1>4, <1>5, <1>6, <1>7, <1>8, <1>9, <1>10, <1>11, <1>12,
           <1>13, <1>14, <1>15, <1>16, <1>17, <1>18, <1>19, <1>20, <1>21 DEF Step

LEMMA InitTypes == Init => TInv
<1> SUFFICES ASSUME Init PROVE TInv
  OBVIOUS
<1>1. /\ companies \subseteq Ids /\ bus \subseteq Unit /\ persons \subseteq Unit
      /\ profiles \subseteq Profile /\ tokens \subseteq Ids
  BY IdTypes, SeedTypes DEF Init
<1>2. crashes \in 0 .. MaxCrashes
  BY CrashAssumption DEF Init
<1>3. /\ wss \subseteq Ids /\ mrole \in [Pairs -> {"none", "Admin", "Member"}]
      /\ access \subseteq Pairs /\ boot \in {"down", "create", "admin", "up"}
      /\ faulted \subseteq Requests /\ granted \subseteq Pairs
  BY DEF Init
<1>4. pc \in [Requests -> {"idle"} \cup Active \cup Ended]
  BY DEF Init
<1>5. arg \in [Requests -> Call \cup {NoCall}]
  BY DEF Init
<1>6. Begun
  BY DEF Init, Begun
<1> QED BY <1>1, <1>2, <1>3, <1>4, <1>5, <1>6 DEF TInv, TypeOK

LEMMA CrashMoves ==
    ASSUME TInv, Crash
    PROVE  /\ pc' \in [Requests -> PCs]
           /\ \A q \in Requests : pc'[q] = pc[q] \/ (pc[q] \in Active /\ pc'[q] = "error")
           /\ TInv'
<1>1. pc' \in [Requests -> PCs]
       /\ \A q \in Requests : pc'[q] = pc[q] \/ (pc[q] \in Active /\ pc'[q] = "error")
  BY DEF Crash, TInv, TypeOK, PCs, Ended
<1>2. faulted' \subseteq Requests
  BY DEF Crash, TInv, TypeOK
<1>3. crashes' \in 0 .. MaxCrashes
  BY CrashAssumption DEF Crash, TInv, TypeOK
<1>4. Begun'
  BY <1>1 DEF Crash, TInv, Begun, Active
<1> QED BY <1>1, <1>2, <1>3, <1>4 DEF Crash, TInv, TypeOK, PCs, maindb, chatdb

LEMMA NextTypes == TInv /\ [Next]_vars => TInv'
<1> SUFFICES ASSUME TInv, [Next]_vars PROVE TInv'
  OBVIOUS
<1>1. CASE UNCHANGED vars
  BY <1>1 DEF TInv, TypeOK, Begun, vars, maindb, chatdb, history
<1>2. CASE BootGet
  BY <1>2 DEF BootGet, TInv, TypeOK, Begun, maindb, chatdb, history
<1>3. CASE BootCreate
  <2>1. wss' \subseteq Ids
    BY <1>3, IdTypes DEF BootCreate, TInv, TypeOK
  <2> QED BY <1>3, <2>1 DEF BootCreate, TInv, TypeOK, Begun, maindb, history
<1>4. CASE BootAdmin
  <2>1. mrole' \in [Pairs -> {"none", "Admin", "Member"}] /\ access' \subseteq Pairs
    BY <1>4, IdTypes, UpsertType DEF BootAdmin, TInv
  <2> QED BY <1>4, <2>1 DEF BootAdmin, TInv, TypeOK, Begun, maindb, history
<1>5. CASE Crash
  BY <1>5, CrashMoves
<1>6. ASSUME NEW r \in Requests, Start(r) PROVE TInv'
  <2>1. Begins(r)
    BY <1>6, StartMoves
  <2>2. Begun'
    BY <2>1 DEF TInv, Begun, Begins
  <2> QED BY <2>1, <2>2 DEF TInv, TypeOK, Begins, PCs, maindb, chatdb, history
<1>7. ASSUME NEW r \in Requests, Step(r) \/ Fail(r) PROVE TInv'
  BY <1>7, StepTypes
<1> QED BY <1>1, <1>2, <1>3, <1>4, <1>5, <1>6, <1>7 DEF Next

(* Both databases, the requests and the startup sequence keep their types   *)
(* through every interleaving, failed call and crash.                       *)
THEOREM TypeCorrect == Spec => []TypeOK
<1>1. TInv => TypeOK
  BY DEF TInv
<1> QED BY InitTypes, NextTypes, <1>1, PTL DEF Spec

-----------------------------------------------------------------------------
(* Which request may be at which step. *)

Phase(op, s) ==
    /\ s \in {"tx", "ws", "admin", "commit"} => op \in {"onboard", "create_bu"}
    /\ s = "bu"        => op \in {"create_staff", "enroll", "update_access"}
    /\ s = "who"       => op \in {"enroll", "update_access"}
    /\ s = "dup"       => op = "enroll"
    /\ s = "person"    => op = "create_staff"
    /\ s = "profile"   => op \in {"create_staff", "enroll"}
    /\ s = "role_read" => op = "update_role"
    /\ s = "role_write" => op = "update_role"

Phases == \A r \in Requests : pc[r] # "idle" => Asked(r, arg[r]) /\ Phase(arg[r].op, pc[r])

RInv == TInv /\ Phases

(* A step leaves what was asked for alone, except that UpdateRoleAsync       *)
(* remembers the row it read.                                                *)
LEMMA StepKeepsCall ==
    ASSUME TInv, NEW r \in Requests, Step(r) \/ Fail(r)
    PROVE  /\ \A q \in Requests : arg'[q].op = arg[q].op /\ arg'[q].c = arg[q].c /\ arg'[q].b = arg[q].b
           /\ \A q \in Requests : (q = r /\ pc[r] = "role_read") \/ arg'[q] = arg[q]
<1>1. CASE UNCHANGED arg
  BY <1>1
<1>2. CASE ReadProfile(r)
  <2>0. pc[r] = "role_read" /\ arg[r] \in Call
    BY <1>2 DEF ReadProfile, TInv, Begun
  <2>2. CASE \E row \in ProfilesOf(arg[r].p, arg[r].b) : arg' = [arg EXCEPT ![r].p = row.id]
    BY <2>0, <2>2 DEF TInv, TypeOK, Call
  <2> QED BY <1>1, <1>2, <2>2 DEF ReadProfile
<1> QED BY <1>1, <1>2 DEF Step, Fail, TxInsert, CreateWorkspace, AddAdmin, Commit, FindUnit,
      FindPerson, FindDuplicate, InsertPerson, InsertProfile, LookupWorkspace, AddStaffMember,
      SetAccess, WriteRole, DeleteAll, InsertSeedCompany, InsertSeedUnit, InsertSeedPerson,
      InsertSeedProfile, DeleteMessages

(* Where each step leads. *)
LEMMA StepLeads ==
    ASSUME TInv, NEW r \in Requests, Step(r) \/ Fail(r)
    PROVE  \/ pc'[r] \in {"error", "done", "lookup", "member", "access", "ins_company", "ins_bu",
                          "ins_person", "ins_profile", "del_msgs"}
           \/ pc[r] = "tx"     /\ pc'[r] = "ws"     /\ TxInsert(r)
           \/ pc[r] = "ws"     /\ pc'[r] = "admin"  /\ CreateWorkspace(r)
           \/ pc[r] = "admin"  /\ pc'[r] = "commit" /\ AddAdmin(r)
           \/ pc[r] = "bu"     /\ pc'[r] = "who"    /\ FindUnit(r) /\ arg[r].op # "create_staff"
           \/ pc[r] = "bu"     /\ pc'[r] = "person" /\ FindUnit(r) /\ arg[r].op = "create_staff"
           \/ pc[r] = "who"    /\ pc'[r] = "dup"    /\ FindPerson(r) /\ arg[r].op = "enroll"
           \/ pc[r] = "dup"    /\ pc'[r] = "profile" /\ FindDuplicate(r)
           \/ pc[r] = "person" /\ pc'[r] = "profile" /\ InsertPerson(r)
           \/ pc[r] = "role_read" /\ pc'[r] = "role_write" /\ ReadProfile(r)
<1>0. \A s \in PCs : Goto(r, s) => pc'[r] = s
  BY GotoMoves DEF TInv
<1>1. \A s \in PCs : Answered(r, s) => pc'[r] \in {s, "error"}
  BY AnsweredMoves DEF TInv
<1>2. Reject(r) => pc'[r] = "error"
  BY RejectMoves DEF TInv
<1>3. \A s \in {"ws", "admin", "commit", "who", "dup", "person", "profile", "lookup",
                "member", "access", "role_write", "ins_company", "ins_bu", "ins_person",
                "ins_profile", "del_msgs", "done", "error"} : s \in PCs
  BY DEF PCs, Active, Ended
<1>4. CASE Fail(r)
  BY <1>0, <1>3, <1>4 DEF Fail
<1>5. CASE TxInsert(r)
  BY <1>0, <1>2, <1>3, <1>5 DEF TxInsert
<1>6. CASE CreateWorkspace(r)
  BY <1>1, <1>3, <1>6 DEF CreateWorkspace
<1>7. CASE AddAdmin(r)
  BY <1>1, <1>3, <1>7 DEF AddAdmin
<1>8. CASE Commit(r)
  BY <1>1, <1>3, <1>8 DEF Commit
<1>9. CASE FindUnit(r)
  BY <1>0, <1>2, <1>3, <1>9 DEF FindUnit
<1>10. CASE FindPerson(r)
  BY <1>0, <1>2, <1>3, <1>10 DEF FindPerson
<1>11. CASE FindDuplicate(r)
  BY <1>0, <1>2, <1>3, <1>11 DEF FindDuplicate
<1>12. CASE InsertPerson(r)
  BY <1>1, <1>2, <1>3, <1>12 DEF InsertPerson
<1>13. CASE InsertProfile(r)
  BY <1>1, <1>2, <1>3, <1>13 DEF InsertProfile
<1>14. CASE LookupWorkspace(r)
  BY <1>0, <1>3, <1>14 DEF LookupWorkspace
<1>15. CASE AddStaffMember(r)
  BY <1>1, <1>3, <1>15 DEF AddStaffMember
<1>16. CASE SetAccess(r)
  BY <1>1, <1>3, <1>16 DEF SetAccess
<1>17. CASE ReadProfile(r)
  <2>1. Reject(r) \/ Goto(r, "role_write") \/ Goto(r, "done")
    BY <1>17 DEF ReadProfile
  <2> QED BY <1>0, <1>2, <1>3, <1>17, <2>1 DEF ReadProfile
<1>18. CASE WriteRole(r)
  <2>1. Reject(r) \/ Answered(r, "done")
    BY <1>18 DEF WriteRole
  <2> QED BY <1>1, <1>2, <1>3, <2>1
<1>19. CASE DeleteAll(r)
  BY <1>1, <1>3, <1>19 DEF DeleteAll
<1>20. CASE InsertSeedCompany(r)
  BY <1>1, <1>2, <1>3, <1>20 DEF InsertSeedCompany
<1>21. CASE InsertSeedUnit(r)
  BY <1>1, <1>2, <1>3, <1>21 DEF InsertSeedUnit
<1>22. CASE InsertSeedPerson(r)
  BY <1>1, <1>2, <1>3, <1>22 DEF InsertSeedPerson
<1>23. CASE InsertSeedProfile(r)
  BY <1>1, <1>2, <1>3, <1>23 DEF InsertSeedProfile
<1>24. CASE DeleteMessages(r)
  BY <1>1, <1>3, <1>24 DEF DeleteMessages
<1> QED BY <1>4, <1>5, <1>6, <1>7, <1>8, <1>9, <1>10, <1>11, <1>12, <1>13, <1>14, <1>15,
           <1>16, <1>17, <1>18, <1>19, <1>20, <1>21, <1>22, <1>23, <1>24 DEF Step

LEMMA NextPhases == RInv /\ [Next]_vars => RInv'
<1> SUFFICES ASSUME RInv, [Next]_vars PROVE Phases'
  BY NextTypes DEF RInv
<1>0. TInv /\ Phases
  BY DEF RInv
<1>1. CASE UNCHANGED vars
  BY <1>0, <1>1 DEF Phases, vars
<1>2. CASE BootGet \/ BootCreate \/ BootAdmin
  BY <1>0, <1>2 DEF Phases, BootGet, BootCreate, BootAdmin
<1>3. CASE Crash
  <2>1. \A q \in Requests : pc'[q] = pc[q] \/ (pc[q] \in Active /\ pc'[q] = "error")
    BY <1>0, <1>3, CrashMoves
  <2>2. arg' = arg /\ "idle" \notin Active
    BY <1>3 DEF Crash, Active
  <2> QED BY <1>0, <2>1, <2>2 DEF Phases, Phase
<1>4. ASSUME NEW r \in Requests, Start(r) PROVE Phases'
  <2>1. Begins(r) /\ Asked(r, arg'[r]) /\ pc'[r] = First(arg'[r].op) /\ arg'[r].op \in Ops
    BY <1>0, <1>4, StartMoves DEF Begins, Call
  <2>2. Phase(arg'[r].op, pc'[r])
    BY <2>1 DEF First, Phase, Ops
  <2> QED BY <1>0, <2>1, <2>2 DEF Phases, Begins
<1>5. ASSUME NEW r \in Requests, Step(r) \/ Fail(r) PROVE Phases'
  <2>1. Moved(r)
    BY <1>0, <1>5, StepMoves
  <2>2. \A q \in Requests : pc[q] # "idle" => Asked(q, arg'[q])
    <3> SUFFICES ASSUME NEW q \in Requests, pc[q] # "idle" PROVE Asked(q, arg'[q])
      OBVIOUS
    <3>1. Asked(q, arg[q]) /\ Phase(arg[q].op, pc[q])
      BY <1>0 DEF Phases
    <3>2. CASE arg'[q] = arg[q]
      BY <3>1, <3>2
    <3>3. CASE pc[q] = "role_read"
      <4>1. arg[q].op = "update_role"
        BY <3>1, <3>3 DEF Phase
      <4>2. arg'[q].op = "update_role"
        BY <1>0, <1>5, <4>1, StepKeepsCall
      <4> QED BY <4>2 DEF Asked
    <3> QED BY <1>0, <1>5, <3>2, <3>3, StepKeepsCall
  <2>3. Phase(arg[r].op, pc'[r])
    <3>1. Phase(arg[r].op, pc[r])
      BY <1>0, <2>1 DEF Phases, Moved
    <3>2. \/ pc'[r] \in {"error", "done", "lookup", "member", "access", "ins_company", "ins_bu",
                         "ins_person", "ins_profile", "del_msgs"}
          \/ pc[r] = "tx"     /\ pc'[r] = "ws"
          \/ pc[r] = "ws"     /\ pc'[r] = "admin"
          \/ pc[r] = "admin"  /\ pc'[r] = "commit"
          \/ pc[r] = "bu"     /\ pc'[r] = "who"    /\ arg[r].op # "create_staff"
          \/ pc[r] = "bu"     /\ pc'[r] = "person" /\ arg[r].op = "create_staff"
          \/ pc[r] = "who"    /\ pc'[r] = "dup"    /\ arg[r].op = "enroll"
          \/ pc[r] = "dup"    /\ pc'[r] = "profile"
          \/ pc[r] = "person" /\ pc'[r] = "profile"
          \/ pc[r] = "role_read" /\ pc'[r] = "role_write"
      BY <1>0, <1>5, StepLeads
    <3> QED BY <3>1, <3>2 DEF Phase
  <2>4. \A q \in Requests : arg'[q].op = arg[q].op
    BY <1>0, <1>5, StepKeepsCall
  <2> QED BY <1>0, <2>1, <2>2, <2>3, <2>4 DEF Phases, Moved
<1> QED BY <1>1, <1>2, <1>3, <1>4, <1>5 DEF Next

LEMMA StepActive ==
    ASSUME NEW r \in Requests, Step(r) \/ Fail(r)
    PROVE  pc[r] \in Active /\ pc[r] \notin Ended
<1>1. pc[r] \in Active
  BY DEF Step, Fail, TxInsert, CreateWorkspace, AddAdmin, Commit, FindUnit,
      FindPerson, FindDuplicate, InsertPerson, InsertProfile, LookupWorkspace, AddStaffMember,
      SetAccess, ReadProfile, WriteRole, DeleteAll, InsertSeedCompany, InsertSeedUnit,
      InsertSeedPerson, InsertSeedProfile, DeleteMessages, Active
<1> QED BY <1>1 DEF Active, Ended

-----------------------------------------------------------------------------
(* The two databases.                                                       *)

(* What a request has done in the chat database by the time it commits in   *)
(* the main one, and what stays true of the unit afterwards.                *)
Provisioned ==
    /\ \A r \in Requests : pc[r] \in {"admin", "commit"} => r \in wss
    /\ \A r \in Requests : pc[r] = "commit" => mrole[<<r, arg[r].p>>] # "none"
    /\ boot \in {"admin", "up"} => Seed \in wss
    /\ \A row \in bus : row.id # Seed =>
         /\ row.id \in wss
         /\ pc[row.id] \in Ended
         /\ mrole[<<row.id, arg[row.id].p>>] # "none"

(* Where access comes from; a request that gave it to its caller has moved  *)
(* past the call.                                                           *)
Explained ==
    \A x \in access :
        \/ x \in granted
        \/ x = <<Seed, Seed>>
        \/ /\ x[1] \in Requests
           /\ pc[x[1]] \in {"commit"} \cup Ended
           /\ x[2] = arg[x[1]].p

ChatGrows == /\ wss \subseteq wss'
             /\ \A x \in Pairs : mrole[x] # "none" => mrole'[x] # "none"
             /\ granted \subseteq granted'

(* The effect of one step on units and on the chat database. *)
LEMMA StepEffects ==
    ASSUME TInv, NEW r \in Requests, Step(r) \/ Fail(r)
    PROVE  /\ ChatGrows
           /\ \A row \in bus' : \/ row \in bus \/ row = SeedUnit
                                \/ /\ pc[r] = "commit" /\ pc'[r] \in Ended
                                   /\ row = [id |-> r, company |-> arg[r].c]
           /\ \A x \in access' : \/ x \in access \/ x \in granted'
                                 \/ /\ pc[r] = "admin" /\ pc'[r] \in {"commit", "error"}
                                    /\ x = <<r, arg[r].p>>
           /\ pc'[r] = "admin" => r \in wss'
           /\ pc'[r] = "commit" => pc[r] = "admin" /\ mrole'[<<r, arg[r].p>>] # "none"
<1>0. pc'[r] \in {"admin", "commit"} =>
        (pc'[r] = "admin" /\ CreateWorkspace(r)) \/ (pc'[r] = "commit" /\ AddAdmin(r))
  BY StepLeads
<1>a. arg[r].c \in Ids /\ arg[r].b \in Ids /\ arg[r].p \in Ids /\ arg[r].on \in BOOLEAN
  <2>1. arg[r] \in Call
    BY StepMoves DEF TInv, Begun, Moved
  <2> QED BY <2>1 DEF Call
<1>1. CASE CreateWorkspace(r)
  BY <1>0, <1>1 DEF CreateWorkspace, ChatGrows, maindb, AddAdmin
<1>2. CASE AddAdmin(r)
  <2>1. Upsert(r, arg[r].p, "Admin") /\ Answered(r, "commit")
    BY <1>2 DEF AddAdmin
  <2>2. pc'[r] \in {"commit", "error"}
    BY <2>1, AnsweredMoves DEF TInv, PCs, Active
  <2>3. /\ mrole'[<<r, arg[r].p>>] # "none"
        /\ \A x \in Pairs : mrole[x] # "none" => mrole'[x] # "none"
        /\ \A x \in access' : x \in access \/ x = <<r, arg[r].p>>
    BY <1>a, <2>1, UpsertType, IdTypes DEF TInv
  <2> QED BY <1>2, <2>2, <2>3 DEF AddAdmin, ChatGrows, maindb
<1>3. CASE Commit(r)
  <2>1. pc'[r] \in {"done", "error"}
    BY <1>3, AnsweredMoves DEF Commit, TInv, PCs, Ended
  <2> QED BY <1>3, <2>1 DEF Commit, ChatGrows, chatdb, Ended
<1>4. CASE AddStaffMember(r)
  <2>1. Upsert(arg[r].b, arg[r].p, "Member")
    BY <1>4 DEF AddStaffMember
  <2>2. /\ \A x \in Pairs : mrole[x] # "none" => mrole'[x] # "none"
        /\ \A x \in access' : x \in access
    BY <1>a, <2>1, UpsertType DEF TInv
  <2>3. ChatGrows
    BY <1>4, <2>2 DEF AddStaffMember, ChatGrows
  <2> QED BY <1>0, <1>4, <2>2, <2>3 DEF AddStaffMember, maindb, CreateWorkspace, AddAdmin
<1>5. CASE SetAccess(r)
  <2>1. UpdateAccess(arg[r].b, arg[r].p, arg[r].on)
    BY <1>5 DEF SetAccess
  <2>2. /\ \A x \in Pairs : mrole[x] # "none" => mrole'[x] # "none"
        /\ \A x \in access' : x \in access \/ (x = <<arg[r].b, arg[r].p>> /\ arg[r].on)
    BY <1>a, <2>1, UpdateAccessType DEF TInv
  <2>3. ChatGrows
    BY <1>5, <2>2 DEF SetAccess, ChatGrows
  <2>4. \A x \in access' : x \in access \/ x \in granted'
    BY <1>5, <2>2 DEF SetAccess
  <2> QED BY <1>0, <1>5, <2>3, <2>4 DEF SetAccess, maindb, CreateWorkspace, AddAdmin
<1>6. CASE ~(CreateWorkspace(r) \/ AddAdmin(r) \/ Commit(r) \/ AddStaffMember(r) \/ SetAccess(r))
  <2>1. UNCHANGED chatdb /\ UNCHANGED granted
    BY <1>6 DEF Step, Fail, TxInsert, FindUnit, FindPerson, FindDuplicate, InsertPerson,
      InsertProfile, LookupWorkspace, ReadProfile, WriteRole, DeleteAll, InsertSeedCompany,
      InsertSeedUnit, InsertSeedPerson, InsertSeedProfile, DeleteMessages, history
  <2>2. \A row \in bus' : row \in bus \/ row = SeedUnit
    BY <1>6 DEF Step, Fail, TxInsert, FindUnit, FindPerson, FindDuplicate, InsertPerson,
      InsertProfile, LookupWorkspace, ReadProfile, WriteRole, DeleteAll, InsertSeedCompany,
      InsertSeedUnit, InsertSeedPerson, InsertSeedProfile, DeleteMessages, maindb
  <2> QED BY <1>0, <1>6, <2>1, <2>2 DEF ChatGrows, chatdb
<1> QED BY <1>1, <1>2, <1>3, <1>4, <1>5, <1>6

PInv == RInv /\ Provisioned /\ Explained

LEMMA InitProvisioned == Init => PInv
<1> SUFFICES ASSUME Init PROVE PInv
  OBVIOUS
<1>1. TInv
  BY InitTypes
<1>2. Phases
  BY DEF Init, Phases
<1>3. Provisioned
  BY DEF Init, Provisioned, SeedUnit
<1>4. Explained
  BY DEF Init, Explained
<1> QED BY <1>1, <1>2, <1>3, <1>4 DEF PInv, RInv

(* A unit other than the seeded one has the id of a request. *)
LEMMA UnitIds ==
    ASSUME TInv, NEW row \in bus, row.id # Seed
    PROVE  row.id \in Requests
BY DEF TInv, TypeOK, Unit, Ids

(* A committing request ends, one way or the other. *)
LEMMA CommitEnds ==
    ASSUME TInv, NEW r \in Requests, Step(r) \/ Fail(r), pc[r] = "commit"
    PROVE  pc'[r] \in {"done", "error"}
<1>1. Commit(r) \/ Fail(r)
  BY DEF Step, TxInsert, CreateWorkspace, AddAdmin, FindUnit, FindPerson, FindDuplicate,
      InsertPerson, InsertProfile, LookupWorkspace, AddStaffMember, SetAccess, ReadProfile,
      WriteRole, DeleteAll, InsertSeedCompany, InsertSeedUnit, InsertSeedPerson,
      InsertSeedProfile, DeleteMessages
<1>2. "done" \in PCs /\ "error" \in PCs
  BY DEF PCs, Ended
<1>3. CASE Commit(r)
  BY <1>2, <1>3, AnsweredMoves DEF Commit, TInv
<1>4. CASE Fail(r)
  BY <1>2, <1>4, GotoMoves DEF Fail, TInv
<1> QED BY <1>1, <1>3, <1>4

LEMMA StepProvisioned ==
    ASSUME PInv, NEW r \in Requests, Step(r) \/ Fail(r)
    PROVE  Provisioned' /\ Explained'
<1>0. TInv /\ Phases /\ Provisioned /\ Explained
  BY DEF PInv, RInv
<1>1. Moved(r) /\ pc[r] \in Active /\ pc[r] \notin Ended
  BY <1>0, StepMoves, StepActive
<1>2. /\ ChatGrows
      /\ \A row \in bus' : \/ row \in bus \/ row = SeedUnit
                           \/ /\ pc[r] = "commit" /\ pc'[r] \in Ended
                              /\ row = [id |-> r, company |-> arg[r].c]
      /\ \A x \in access' : \/ x \in access \/ x \in granted'
                            \/ /\ pc[r] = "admin" /\ pc'[r] \in {"commit", "error"}
                               /\ x = <<r, arg[r].p>>
      /\ pc'[r] = "admin" => r \in wss'
      /\ pc'[r] = "commit" => pc[r] = "admin" /\ mrole'[<<r, arg[r].p>>] # "none"
  BY <1>0, StepEffects
<1>3. \A q \in Requests : (q = r /\ pc[r] = "role_read") \/ arg'[q] = arg[q]
  BY <1>0, StepKeepsCall
<1>4. \A q \in Requests : q # r => pc'[q] = pc[q]
  BY <1>1 DEF Moved
<1>p. \A q \in Requests : pc[q] # "idle" => <<q, arg[q].p>> \in Pairs
  <2>1. \A q \in Requests : pc[q] # "idle" => arg[q].p \in Ids
    BY <1>0 DEF TInv, Begun, Call
  <2> QED BY <2>1, IdTypes DEF Pairs
<1>5. \A q \in Requests : pc'[q] \in {"admin", "commit"} => q \in wss'
  <2>1. \A q \in Requests : q # r /\ pc'[q] \in {"admin", "commit"} => q \in wss'
    BY <1>0, <1>2, <1>4 DEF Provisioned, ChatGrows
  <2>2. pc'[r] = "commit" => r \in wss'
    BY <1>0, <1>2 DEF Provisioned, ChatGrows
  <2> QED BY <1>2, <2>1, <2>2
<1>6. \A q \in Requests : pc'[q] = "commit" => mrole'[<<q, arg'[q].p>>] # "none"
  <2>1. \A q \in Requests : q # r /\ pc'[q] = "commit" => mrole'[<<q, arg'[q].p>>] # "none"
    BY <1>0, <1>2, <1>3, <1>4, <1>p DEF Provisioned, ChatGrows
  <2>2. pc'[r] = "commit" => arg'[r] = arg[r]
    BY <1>2, <1>3
  <2> QED BY <1>2, <2>1, <2>2
<1>7. boot' \in {"admin", "up"} => Seed \in wss'
  BY <1>0, <1>1, <1>2 DEF Provisioned, Moved, ChatGrows
<1>8. ASSUME NEW row \in bus', row.id # Seed
      PROVE  row.id \in wss' /\ pc'[row.id] \in Ended
             /\ mrole'[<<row.id, arg'[row.id].p>>] # "none"
  <2>1. CASE row \in bus
    <3>1. row.id \in Requests
      BY <1>0, <1>8, <2>1, UnitIds
    <3>2. row.id \in wss /\ pc[row.id] \in Ended /\ mrole[<<row.id, arg[row.id].p>>] # "none"
      BY <1>0, <1>8, <2>1 DEF Provisioned
    <3>3. row.id # r /\ pc[row.id] # "idle"
      BY <1>1, <3>2 DEF Ended
    <3>4. <<row.id, arg[row.id].p>> \in Pairs
      BY <1>p, <3>1, <3>3
    <3> QED BY <1>2, <1>3, <1>4, <3>1, <3>2, <3>3, <3>4 DEF ChatGrows
  <2>2. CASE row = SeedUnit
    BY <1>8, <2>2 DEF SeedUnit
  <2>3. CASE pc[r] = "commit" /\ pc'[r] \in Ended /\ row = [id |-> r, company |-> arg[r].c]
    <3>1. row.id = r /\ arg'[r] = arg[r]
      BY <1>3, <2>3
    <3>2. r \in wss /\ mrole[<<r, arg[r].p>>] # "none"
      BY <1>0, <2>3 DEF Provisioned
    <3>3. <<r, arg[r].p>> \in Pairs
      BY <1>p, <2>3
    <3> QED BY <1>2, <2>3, <3>1, <3>2, <3>3 DEF ChatGrows
  <2> QED BY <1>2, <2>1, <2>2, <2>3
<1>9. Provisioned'
  BY <1>5, <1>6, <1>7, <1>8 DEF Provisioned
<1>10. ASSUME NEW x \in access'
       PROVE  \/ x \in granted'
              \/ x = <<Seed, Seed>>
              \/ x[1] \in Requests /\ pc'[x[1]] \in {"commit"} \cup Ended /\ x[2] = arg'[x[1]].p
  <2>1. CASE x \in access
    <3>1. CASE x \in granted \/ x = <<Seed, Seed>>
      BY <1>2, <3>1 DEF ChatGrows
    <3>2. CASE x[1] \in Requests /\ pc[x[1]] \in {"commit"} \cup Ended /\ x[2] = arg[x[1]].p
      <4>1. arg'[x[1]] = arg[x[1]]
        BY <1>3, <3>2 DEF Ended
      <4>2. CASE x[1] # r
        BY <1>4, <3>2, <4>1, <4>2
      <4>3. CASE x[1] = r
        <5>1. pc[r] = "commit"
          BY <1>1, <3>2, <4>3
        <5>2. pc'[r] \in {"done", "error"}
          BY <1>0, <5>1, CommitEnds
        <5> QED BY <3>2, <4>1, <4>3, <5>2 DEF Ended
      <4> QED BY <4>2, <4>3
    <3> QED BY <1>0, <2>1, <3>1, <3>2 DEF Explained
  <2>2. CASE x \in granted'
    BY <2>2
  <2>3. CASE pc[r] = "admin" /\ pc'[r] \in {"commit", "error"} /\ x = <<r, arg[r].p>>
    <3>1. arg'[r] = arg[r]
      BY <1>3, <2>3
    <3> QED BY <2>3, <3>1 DEF Ended
  <2> QED BY <1>2, <2>1, <2>2, <2>3
<1>11. Explained'
  BY <1>10 DEF Explained
<1> QED BY <1>9, <1>11

LEMMA NextProvisioned == PInv /\ [Next]_vars => PInv'
<1> SUFFICES ASSUME PInv, [Next]_vars PROVE Provisioned' /\ Explained'
  BY NextPhases DEF PInv
<1>0. TInv /\ Phases /\ Provisioned /\ Explained
  BY DEF PInv, RInv
<1>p. \A q \in Requests : pc[q] # "idle" => <<q, arg[q].p>> \in Pairs
  <2>1. \A q \in Requests : pc[q] # "idle" => arg[q].p \in Ids
    BY <1>0 DEF TInv, Begun, Call
  <2> QED BY <2>1, IdTypes DEF Pairs
<1>u. \A row \in bus : row.id # Seed => row.id \in Requests
  BY <1>0, UnitIds
<1>e. "idle" \notin Ended /\ "idle" \notin Active /\ (\A s \in Ended : s \notin Active)
       /\ "error" \in Ended
  BY DEF Ended, Active
<1>1. CASE UNCHANGED vars
  BY <1>0, <1>1 DEF Provisioned, Explained, vars, maindb, chatdb, history
<1>2. CASE BootGet
  BY <1>0, <1>2 DEF BootGet, Provisioned, Explained, maindb, chatdb, history
<1>3. CASE BootCreate
  BY <1>0, <1>3 DEF BootCreate, Provisioned, Explained, maindb, history
<1>4. CASE BootAdmin
  <2>1. /\ \A x \in Pairs : mrole[x] # "none" => mrole'[x] # "none"
        /\ \A x \in access' : x \in access \/ x = <<Seed, Seed>>
    BY <1>0, <1>4, IdTypes, UpsertType DEF BootAdmin, TInv
  <2>2. UNCHANGED <<bus, wss, pc, arg, granted>> /\ boot = "admin"
    BY <1>4 DEF BootAdmin, maindb, history
  <2>3. Explained'
    BY <1>0, <2>1, <2>2 DEF Explained
  <2>4. \A r \in Requests : pc'[r] = "commit" => mrole'[<<r, arg'[r].p>>] # "none"
    BY <1>0, <1>p, <2>1, <2>2 DEF Provisioned
  <2>5. \A row \in bus' : row.id # Seed => mrole'[<<row.id, arg'[row.id].p>>] # "none"
    BY <1>0, <1>p, <1>u, <1>e, <2>1, <2>2 DEF Provisioned
  <2> QED BY <1>0, <2>2, <2>3, <2>4, <2>5 DEF Provisioned
<1>5. CASE Crash
  <2>1. \A q \in Requests : pc'[q] = pc[q] \/ (pc[q] \in Active /\ pc'[q] = "error")
    BY <1>0, <1>5, CrashMoves
  <2>2. UNCHANGED <<bus, wss, mrole, access, arg, granted>> /\ boot' = "down"
    BY <1>5 DEF Crash, maindb, chatdb
  <2>3. Explained'
    BY <1>0, <1>e, <2>1, <2>2 DEF Explained
  <2>4. Provisioned'
    BY <1>0, <1>u, <1>e, <2>1, <2>2 DEF Provisioned
  <2> QED BY <2>3, <2>4
<1>6. ASSUME NEW r \in Requests, Start(r) PROVE Provisioned' /\ Explained'
  <2>1. Begins(r)
    BY <1>0, <1>6, StartMoves
  <2>2. UNCHANGED <<bus, wss, mrole, access, boot, granted>> /\ pc[r] = "idle"
    BY <2>1 DEF Begins, maindb, chatdb, history
  <2>3. \A q \in Requests : q # r => pc'[q] = pc[q] /\ arg'[q] = arg[q]
    BY <2>1 DEF Begins
  <2>4. pc'[r] \notin {"admin", "commit"}
    BY <2>1 DEF Begins
  <2>5. Explained'
    BY <1>0, <1>e, <2>2, <2>3 DEF Explained
  <2>6. Provisioned'
    BY <1>0, <1>u, <1>e, <2>2, <2>3, <2>4 DEF Provisioned
  <2> QED BY <2>5, <2>6
<1>7. ASSUME NEW r \in Requests, Step(r) \/ Fail(r) PROVE Provisioned' /\ Explained'
  BY <1>7, StepProvisioned
<1> QED BY <1>1, <1>2, <1>3, <1>4, <1>5, <1>6, <1>7 DEF Next

(* "The system never ends up with a company/owner record but no chat        *)
(* workspace" (OnboardingService): the workspace exists before the commit   *)
(* makes the unit visible, and nothing removes it.                          *)
THEOREM UnitsHaveWorkspaces == Spec => []UnitHasWorkspace
<1>1. PInv => UnitHasWorkspace
  BY DEF PInv, Provisioned, UnitHasWorkspace
<1> QED BY InitProvisioned, NextProvisioned, <1>1, PTL DEF Spec

(* A member has access as the creator of the unit or by a grant: the upsert *)
(* of staff operations, which may meet any existing row, gives none.        *)
THEOREM AccessIsExplained == Spec => []AccessExplained
<1>1. PInv => AccessExplained
  BY SeedAssumption DEF PInv, Explained, AccessExplained
<1> QED BY InitProvisioned, NextProvisioned, <1>1, PTL DEF Spec

-----------------------------------------------------------------------------
(* The creator's role.                                                      *)

(* Owners are the persons of onboarded companies, and "create unit" is      *)
(* asked by one of them: never by a person that "create staff" makes.  A    *)
(* unit is the work of one of these two.                                    *)
Owners ==
    /\ \A t \in tokens : \/ t = Seed
                         \/ t \in Requests /\ pc[t] \in Ended /\ arg[t].op = "onboard"
    /\ \A r \in Requests : pc[r] # "idle" /\ arg[r].op = "create_bu" => arg[r].p \in tokens
    /\ \A row \in bus : row.id # Seed => arg[row.id].op \in {"onboard", "create_bu"}

(* A staff operation past its look-up works in a unit that is committed,    *)
(* and only creating or enrolling staff gets to the upsert.                 *)
InUnit == {"who", "dup", "person", "profile", "lookup", "member", "access"}

Seated ==
    \A r \in Requests :
        /\ pc[r] \in InUnit => arg[r].b = Seed \/ pc[arg[r].b] \in Ended
        /\ pc[r] \in InUnit => arg[r].op \in {"create_staff", "enroll", "update_access"}
        /\ pc[r] = "member" => arg[r].op # "update_access"

Crowned ==
    /\ \A r \in Requests : pc[r] = "commit" => mrole[<<r, arg[r].p>>] = "Admin"
    /\ CreatorIsAdmin

CInv == PInv /\ Owners /\ Seated /\ Crowned

LEMMA InitCrowned == Init => CInv
<1> SUFFICES ASSUME Init PROVE CInv
  OBVIOUS
<1>1. PInv
  BY InitProvisioned
<1>2. Owners /\ Seated /\ Crowned
  BY DEF Init, Owners, Seated, Crowned, CreatorIsAdmin, SeedUnit, InUnit
<1> QED BY <1>1, <1>2 DEF CInv

(* Only an owner asks for a new unit. *)
LEMMA StartOwners ==
    ASSUME TInv, NEW r \in Requests, Start(r), arg'[r].op = "create_bu"
    PROVE  arg'[r].p \in tokens
<1>0. arg \in [Requests -> Call \cup {NoCall}]
  BY DEF TInv, TypeOK
<1>1. CASE BeginCreateBu(r)
  <2>1. PICK c \in tokens : arg' = [arg EXCEPT ![r] =
            ByOwner(c, "create_bu", r, c, SeedEmail, "Owner", FALSE)]
    BY <1>1 DEF BeginCreateBu, Begin
  <2> QED BY <1>0, <2>1 DEF ByOwner
<1>2. CASE BeginOnboard(r)
  BY <1>0, <1>2 DEF BeginOnboard, Begin, ByOwner
<1>3. CASE BeginCreateStaff(r)
  BY <1>0, <1>3 DEF BeginCreateStaff, Begin, ByOwner
<1>4. CASE BeginEnroll(r)
  BY <1>0, <1>4 DEF BeginEnroll, Begin, ByOwner
<1>5. CASE BeginUpdateRole(r)
  BY <1>0, <1>5 DEF BeginUpdateRole, Begin, ByOwner
<1>6. CASE BeginUpdateAccess(r)
  BY <1>0, <1>6 DEF BeginUpdateAccess, Begin, ByOwner
<1>7. CASE BeginReset(r)
  BY <1>0, <1>7 DEF BeginReset, Begin, ByOwner
<1> QED BY <1>1, <1>2, <1>3, <1>4, <1>5, <1>6, <1>7 DEF Start

(* What a step does to the roles, the tokens and the steps within a unit.   *)
LEMMA StepRoles ==
    ASSUME TInv, NEW r \in Requests, Step(r) \/ Fail(r)
    PROVE  /\ \A x \in Pairs : mrole[x] = "Admin" =>
                \/ mrole'[x] = "Admin"
                \/ /\ AddStaffMember(r) /\ pc[r] = "member" /\ pc'[r] \in Ended
                   /\ x = <<arg[r].b, arg[r].p>>
           /\ \A x \in Pairs : mrole[x] = "Member" =>
                mrole'[x] = "Member" \/ (AddAdmin(r) /\ mrole'[x] = "Admin")
           /\ pc'[r] = "commit" => mrole'[<<r, arg[r].p>>] = "Admin"
           /\ tokens' = tokens \/ (pc[r] = "commit" /\ arg[r].op = "onboard"
                                   /\ pc'[r] \in Ended /\ tokens' = tokens \cup {r})
           /\ pc'[r] \in InUnit =>
                \/ pc[r] \in InUnit
                \/ /\ pc[r] = "bu" /\ HasUnit(arg[r].b, arg[r].c)
           /\ pc'[r] = "member" => pc[r] = "lookup" /\ arg[r].op # "update_access"
<1>a. arg[r].c \in Ids /\ arg[r].b \in Ids /\ arg[r].p \in Ids
  <2>1. arg[r] \in Call
    BY StepMoves DEF TInv, Begun, Moved
  <2> QED BY <2>1 DEF Call
<1>b. mrole \in [Pairs -> {"none", "Admin", "Member"}]
  BY DEF TInv, TypeOK
<1>c. /\ <<arg[r].b, arg[r].p>> \in Pairs /\ <<r, arg[r].p>> \in Pairs
      /\ TypeOK
  BY <1>a, IdTypes DEF Pairs, TInv
<1>d. \A s \in Active \cup Ended : s \in PCs
  BY DEF PCs
<1>e. {"done", "error"} = Ended /\ \A s \in Ended : s \notin InUnit /\ s # "commit" /\ s # "member"
  BY DEF Ended, InUnit
<1>1. CASE CreateWorkspace(r)
  <2>1. pc'[r] \in {"admin", "error"}
    BY <1>1, <1>c, <1>d, AnsweredMoves DEF CreateWorkspace, Active
  <2> QED BY <1>1, <2>1 DEF CreateWorkspace, InUnit
<1>2. CASE AddAdmin(r)
  <2>1. pc'[r] \in {"commit", "error"}
    BY <1>2, <1>c, <1>d, AnsweredMoves DEF AddAdmin, Active
  <2>2. mrole' = [mrole EXCEPT ![<<r, arg[r].p>>] = "Admin"] /\ tokens' = tokens
    BY <1>2 DEF AddAdmin, Upsert
  <2> QED BY <1>2, <1>b, <1>c, <2>1, <2>2 DEF InUnit
<1>3. CASE Commit(r)
  <2>1. pc'[r] \in {"done", "error"} /\ mrole' = mrole /\ pc[r] = "commit"
    BY <1>3, <1>c, <1>d, <1>e, AnsweredMoves DEF Commit, chatdb
  <2>2. tokens' = tokens \/ (arg[r].op = "onboard" /\ tokens' = tokens \cup {r})
    BY <1>3 DEF Commit
  <2> QED BY <2>1, <2>2, <1>e
<1>4. CASE AddStaffMember(r)
  <2>1. pc'[r] \in {"done", "error"} /\ pc[r] = "member"
    BY <1>4, <1>c, <1>d, <1>e, AnsweredMoves DEF AddStaffMember
  <2>2. mrole' = [mrole EXCEPT ![<<arg[r].b, arg[r].p>>] = "Member"] /\ tokens' = tokens
    BY <1>4 DEF AddStaffMember, Upsert
  <2> QED BY <1>4, <1>b, <1>c, <1>e, <2>1, <2>2
<1>5. CASE SetAccess(r)
  <2>1. pc'[r] \in {"done", "error"}
    BY <1>5, <1>c, <1>d, <1>e, AnsweredMoves DEF SetAccess
  <2>2. /\ mrole' = [mrole EXCEPT ![<<arg[r].b, arg[r].p>>] = IF @ = "none" THEN "Member" ELSE @]
        /\ tokens' = tokens
    BY <1>5 DEF SetAccess, UpdateAccess
  <2>3. \A x \in Pairs : mrole[x] # "none" => mrole'[x] = mrole[x]
    BY <1>b, <1>c, <2>2
  <2> QED BY <1>e, <2>1, <2>2, <2>3
<1>6. CASE FindUnit(r)
  <2>1. mrole' = mrole /\ tokens' = tokens /\ pc[r] = "bu"
    BY <1>6 DEF FindUnit, chatdb
  <2>2. pc'[r] = "error" \/ (pc'[r] \in {"who", "person"} /\ HasUnit(arg[r].b, arg[r].c))
    BY <1>6, <1>c, <1>d, GotoMoves, RejectMoves DEF FindUnit, Active
  <2> QED BY <2>1, <2>2, <1>e
<1>7. CASE LookupWorkspace(r)
  <2>1. mrole' = mrole /\ tokens' = tokens /\ pc[r] = "lookup"
    BY <1>7 DEF LookupWorkspace, chatdb, history
  <2>2. \/ pc'[r] \in {"access", "done", "error"}
        \/ pc'[r] = "member" /\ arg[r].op # "update_access"
    BY <1>7, <1>c, <1>d, <1>e, GotoMoves DEF LookupWorkspace, Active
  <2> QED BY <2>1, <2>2, <1>e DEF InUnit
<1>8. CASE FindPerson(r) \/ FindDuplicate(r) \/ InsertPerson(r) \/ InsertProfile(r)
  <2>1. mrole' = mrole /\ tokens' = tokens /\ pc[r] \in InUnit
    BY <1>8 DEF FindPerson, FindDuplicate, InsertPerson, InsertProfile, chatdb, InUnit
  <2>2. pc'[r] \notin {"commit", "member"}
    BY <1>8, <1>c, <1>d, GotoMoves, RejectMoves, AnsweredMoves DEF FindPerson, FindDuplicate,
       InsertPerson, InsertProfile, Active
  <2> QED BY <2>1, <2>2
<1>9. CASE TxInsert(r) \/ Fail(r)
  <2>1. mrole' = mrole /\ tokens' = tokens
    BY <1>9 DEF TxInsert, Fail, chatdb
  <2>2. pc'[r] \in {"ws", "error"}
    BY <1>9, <1>c, <1>d, <1>e, GotoMoves, RejectMoves DEF TxInsert, Fail, Active
  <2> QED BY <2>1, <2>2, <1>e DEF InUnit
<1>10. CASE ReadProfile(r)
  <2>1. mrole' = mrole /\ tokens' = tokens
    BY <1>10 DEF ReadProfile, chatdb
  <2>2. Reject(r) \/ Goto(r, "role_write") \/ Goto(r, "done")
    BY <1>10 DEF ReadProfile
  <2>3. pc'[r] \in {"role_write", "done", "error"}
    BY <2>2, <1>c, <1>d, <1>e, GotoMoves, RejectMoves DEF Active
  <2> QED BY <2>1, <2>3, <1>e DEF InUnit
<1>11. CASE WriteRole(r)
  <2>1. mrole' = mrole /\ tokens' = tokens
    BY <1>11 DEF WriteRole, chatdb
  <2>2. pc'[r] \in {"done", "error"}
    BY <1>11, <1>c, <1>d, <1>e, AnsweredMoves, RejectMoves DEF WriteRole
  <2> QED BY <2>1, <2>2, <1>e
<1>12. CASE DeleteAll(r) \/ InsertSeedCompany(r) \/ InsertSeedUnit(r) \/ InsertSeedPerson(r)
            \/ InsertSeedProfile(r) \/ DeleteMessages(r)
  <2>1. mrole' = mrole /\ tokens' = tokens
    BY <1>12 DEF DeleteAll, InsertSeedCompany, InsertSeedUnit, InsertSeedPerson,
       InsertSeedProfile, DeleteMessages, chatdb
  <2>2. pc'[r] \in {"ins_company", "ins_bu", "ins_person", "ins_profile", "del_msgs",
                    "done", "error"}
    BY <1>12, <1>c, <1>d, <1>e, AnsweredMoves, RejectMoves DEF DeleteAll, InsertSeedCompany,
       InsertSeedUnit, InsertSeedPerson, InsertSeedProfile, DeleteMessages, Active
  <2> QED BY <2>1, <2>2, <1>e DEF InUnit
<1> QED BY <1>1, <1>2, <1>3, <1>4, <1>5, <1>6, <1>7, <1>8, <1>9, <1>10, <1>11, <1>12 DEF Step

(* A step of a request keeps the creators' roles: only the upsert of an     *)
(* enrolment can meet a creator's row in a committed unit, and none meets   *)
(* one in a unit that is not committed yet.                                 *)
LEMMA StepCrowned ==
    ASSUME CInv, NEW r \in Requests, Step(r) \/ Fail(r)
    PROVE  Owners' /\ Seated' /\ Crowned'
<1>0. TInv /\ Phases /\ Provisioned /\ Owners /\ Seated /\ Crowned /\ CreatorIsAdmin
  BY DEF CInv, PInv, RInv, Crowned
<1>1. Moved(r) /\ pc[r] \in Active /\ pc[r] \notin Ended
  BY <1>0, StepMoves, StepActive
<1>2. \A q \in Requests : (q = r /\ pc[r] = "role_read") \/ arg'[q] = arg[q]
  BY <1>0, StepKeepsCall
<1>3. /\ \A q \in Requests : q # r => pc'[q] = pc[q]
      /\ \A q \in Requests : arg'[q].op = arg[q].op /\ arg'[q].b = arg[q].b
  BY <1>0, <1>1, StepKeepsCall DEF Moved
<1>4. \A q \in Requests : pc[q] \in Ended => pc'[q] \in Ended /\ arg'[q] = arg[q]
  BY <1>1, <1>2, <1>3
<1>e. Seed \notin Requests /\ "idle" \notin Ended /\ "role_read" \notin Ended
      /\ "commit" \notin Ended /\ "role_read" \notin InUnit
  BY SeedAssumption DEF Ended, InUnit
<1>5. Owners'
  <2>1. \A t \in tokens' : t = Seed \/ (t \in Requests /\ pc'[t] \in Ended /\ arg'[t].op = "onboard")
    <3>1. ASSUME NEW t \in tokens
          PROVE  t = Seed \/ (t \in Requests /\ pc'[t] \in Ended /\ arg'[t].op = "onboard")
      BY <1>0, <1>3, <1>4 DEF Owners
    <3>2. \/ tokens' = tokens
          \/ arg[r].op = "onboard" /\ pc'[r] \in Ended /\ tokens' = tokens \cup {r}
      BY <1>0, StepRoles
    <3>3. arg'[r].op = arg[r].op
      BY <1>3
    <3> QED BY <3>1, <3>2, <3>3
  <2>2. ASSUME NEW q \in Requests, pc'[q] # "idle", arg'[q].op = "create_bu"
        PROVE  arg'[q].p \in tokens'
    <3>1. pc[q] # "idle" /\ arg[q].op = "create_bu"
      BY <1>1, <1>3, <2>2 DEF Moved
    <3>2. ~(q = r /\ pc[r] = "role_read")
      BY <1>0, <3>1 DEF Phases, Phase
    <3> QED BY <1>0, <1>2, <3>1, <3>2, StepRoles DEF Owners
  <2>3. ASSUME NEW row \in bus', row.id # Seed
        PROVE  arg'[row.id].op \in {"onboard", "create_bu"}
    <3>1. CASE row \in bus
      <4>1. row.id \in Requests
        BY <1>0, <2>3, <3>1, UnitIds
      <4> QED BY <1>0, <1>3, <2>3, <3>1, <4>1 DEF Owners
    <3>2. CASE row = SeedUnit
      BY <2>3, <3>2 DEF SeedUnit
    <3>3. CASE pc[r] = "commit" /\ row = [id |-> r, company |-> arg[r].c]
      <4>1. arg[r].op \in {"onboard", "create_bu"}
        BY <1>0, <1>1, <3>3 DEF Phases, Phase, Moved
      <4> QED BY <1>3, <3>3, <4>1
    <3> QED BY <1>0, <3>1, <3>2, <3>3, StepEffects
  <2> QED BY <2>1, <2>2, <2>3 DEF Owners
<1>6. Seated'
  <2>1. ASSUME NEW q \in Requests, pc'[q] \in InUnit, q # r
        PROVE  /\ arg'[q].b = Seed \/ pc'[arg'[q].b] \in Ended
               /\ arg'[q].op \in {"create_staff", "enroll", "update_access"}
               /\ pc'[q] = "member" => arg'[q].op # "update_access"
    <3>1. /\ arg[q].b = Seed \/ pc[arg[q].b] \in Ended
          /\ arg[q].op \in {"create_staff", "enroll", "update_access"}
          /\ pc[q] = "member" => arg[q].op # "update_access"
      BY <1>0, <1>3, <2>1 DEF Seated
    <3>2. arg[q].b = Seed \/ arg[q].b \in Requests
      <4>1. arg[q] \in Call
        BY <1>0, <1>1, <1>3, <2>1 DEF TInv, Begun, InUnit
      <4> QED BY <4>1 DEF Call, Ids
    <3> QED BY <1>3, <1>4, <2>1, <3>1, <3>2
  <2>2. ASSUME pc'[r] \in InUnit
        PROVE  /\ arg'[r].b = Seed \/ pc'[arg'[r].b] \in Ended
               /\ arg'[r].op \in {"create_staff", "enroll", "update_access"}
               /\ pc'[r] = "member" => arg'[r].op # "update_access"
    <3>1. CASE pc[r] \in InUnit
      <4>1. arg[r].b = Seed \/ arg[r].b \in Requests
        <5>1. arg[r] \in Call
          BY <1>0, <1>1 DEF TInv, Begun, Moved
        <5> QED BY <5>1 DEF Call, Ids
      <4>2. /\ arg[r].b = Seed \/ pc[arg[r].b] \in Ended
            /\ arg[r].op \in {"create_staff", "enroll", "update_access"}
        BY <1>0, <3>1 DEF Seated
      <4>3. pc'[r] = "member" => arg[r].op # "update_access"
        BY <1>0, StepRoles
      <4> QED BY <1>3, <1>4, <4>1, <4>2, <4>3
    <3>2. CASE pc[r] = "bu" /\ HasUnit(arg[r].b, arg[r].c)
      <4> DEFINE row == [id |-> arg[r].b, company |-> arg[r].c]
      <4>1. row \in bus /\ row.id = arg[r].b
        BY <3>2 DEF HasUnit
      <4>2. arg[r].b = Seed \/ (arg[r].b \in Requests /\ pc[arg[r].b] \in Ended)
        BY <1>0, <4>1, UnitIds DEF Provisioned
      <4>3. arg[r].op \in {"create_staff", "enroll", "update_access"}
        BY <1>0, <1>1, <3>2 DEF Phases, Phase, Moved
      <4>4. pc'[r] # "member"
        BY <1>0, <3>2, StepRoles
      <4> QED BY <1>3, <1>4, <4>2, <4>3, <4>4
    <3> QED BY <1>0, <2>2, <3>1, <3>2, StepRoles
  <2>3. "member" \in InUnit
    BY DEF InUnit
  <2> QED BY <2>1, <2>2, <2>3 DEF Seated
<1>7. ASSUME NEW q \in Requests, pc'[q] = "commit"
      PROVE  mrole'[<<q, arg'[q].p>>] = "Admin"
  <2>1. CASE q = r
    <3>1. pc[r] = "admin"
      BY <1>0, <1>7, <2>1, StepEffects
    <3>2. arg'[r] = arg[r]
      BY <1>2, <3>1
    <3> QED BY <1>0, <1>7, <2>1, <3>2, StepRoles
  <2>2. CASE q # r
    <3>1. pc[q] = "commit" /\ arg'[q] = arg[q] /\ mrole[<<q, arg[q].p>>] = "Admin"
      BY <1>0, <1>2, <1>3, <1>7, <2>2 DEF Crowned
    <3>2. <<q, arg[q].p>> \in Pairs
      <4>1. arg[q] \in Call
        BY <1>0, <3>1 DEF TInv, Begun
      <4> QED BY <4>1, IdTypes DEF Call, Pairs
    <3>3. ~(pc[r] = "member" /\ <<q, arg[q].p>> = <<arg[r].b, arg[r].p>>)
      <4>1. pc[r] = "member" => arg[r].b = Seed \/ pc[arg[r].b] \in Ended
        BY <1>0 DEF Seated, InUnit
      <4> QED BY <1>e, <3>1, <4>1
    <3> QED BY <1>0, <3>1, <3>2, <3>3, StepRoles
  <2> QED BY <2>1, <2>2
<1>8. ASSUME NEW row \in bus', row.id # Seed
      PROVE  \/ mrole'[<<row.id, arg'[row.id].p>>] = "Admin"
             \/ /\ mrole'[<<row.id, arg'[row.id].p>>] = "Member"
                /\ EnrolledIn(arg[row.id].p, row.id)'
  <2>1. CASE row \in bus
    <3> DEFINE i == row.id
    <3>0. PICK p : p = arg[i].p
      OBVIOUS
    <3>1. i \in Requests /\ pc[i] \in Ended /\ arg'[i] = arg[i]
      BY <1>0, <1>4, <1>8, <2>1, UnitIds DEF Provisioned
    <3>2. arg[i] \in Call
      BY <1>0, <1>e, <3>1 DEF TInv, Begun
    <3>3. <<i, p>> \in Pairs
      BY <3>0, <3>1, <3>2, IdTypes DEF Call, Pairs
    <3>4. EnrolledIn(p, i) => EnrolledIn(p, i)'
      BY <1>4, <3>1 DEF EnrolledIn
    <3>5. \/ mrole[<<i, p>>] = "Admin"
          \/ mrole[<<i, p>>] = "Member" /\ EnrolledIn(p, i)
      BY <1>0, <1>8, <2>1, <3>0 DEF CreatorIsAdmin
    <3>6. CASE mrole[<<i, p>>] = "Member" /\ EnrolledIn(p, i)
      <4>1. mrole'[<<i, p>>] \in {"Member", "Admin"}
        BY <1>0, <3>3, <3>6, StepRoles
      <4> QED BY <3>0, <3>1, <3>4, <3>6, <4>1
    <3>7. CASE mrole'[<<i, p>>] = "Admin"
      BY <3>0, <3>1, <3>7
    <3>8. CASE /\ AddStaffMember(r) /\ pc[r] = "member" /\ pc'[r] \in Ended
               /\ <<i, p>> = <<arg[r].b, arg[r].p>>
      <4>1. mrole' = [mrole EXCEPT ![<<i, p>>] = "Member"]
        BY <3>8 DEF AddStaffMember, Upsert
      <4>2. mrole'[<<i, p>>] = "Member"
        BY <1>0, <3>3, <4>1 DEF TInv, TypeOK
      <4>3. arg[r].op \in {"create_staff", "enroll"}
        BY <1>0, <3>8 DEF Seated, InUnit
      <4>4. arg[r].op # "create_staff"
        <5>1. SUFFICES ASSUME arg[r].op = "create_staff" PROVE FALSE
          OBVIOUS
        <5>2. p = r
          BY <1>0, <1>1, <3>8, <5>1 DEF Phases, Asked, Moved
        <5>3. pc[i] # "idle" /\ Asked(i, arg[i])
          BY <1>0, <1>e, <3>1 DEF Phases
        <5>4. arg[i].op \in {"onboard", "create_bu"}
          BY <1>0, <1>8, <2>1 DEF Owners
        <5>5. CASE arg[i].op = "onboard"
          BY <1>1, <3>0, <3>1, <5>2, <5>3, <5>5 DEF Asked
        <5>6. CASE arg[i].op = "create_bu"
          BY <1>0, <1>1, <1>e, <3>0, <3>1, <5>2, <5>3, <5>6 DEF Owners
        <5> QED BY <5>4, <5>5, <5>6
      <4>5. arg'[r] = arg[r]
        BY <1>2, <3>8
      <4>6. EnrolledIn(p, i)'
        BY <3>1, <3>8, <4>3, <4>4, <4>5 DEF EnrolledIn
      <4> QED BY <3>0, <3>1, <4>2, <4>6
    <3> QED BY <1>0, <3>3, <3>5, <3>6, <3>7, <3>8, StepRoles
  <2>2. CASE row = SeedUnit
    BY <1>8, <2>2 DEF SeedUnit
  <2>3. CASE pc[r] = "commit" /\ pc'[r] \in Ended /\ row = [id |-> r, company |-> arg[r].c]
    <3>1. row.id = r /\ arg'[r] = arg[r] /\ mrole[<<r, arg[r].p>>] = "Admin"
      BY <1>0, <1>2, <2>3 DEF Crowned
    <3>2. <<r, arg[r].p>> \in Pairs
      <4>1. arg[r] \in Call
        BY <1>0, <1>1 DEF TInv, Begun, Moved
      <4> QED BY <4>1, IdTypes DEF Call, Pairs
    <3> QED BY <1>0, <2>3, <3>1, <3>2, StepRoles
  <2> QED BY <1>0, <2>1, <2>2, <2>3, StepEffects
<1>9. Crowned'
  BY <1>7, <1>8 DEF Crowned, CreatorIsAdmin
<1> QED BY <1>5, <1>6, <1>9

LEMMA NextCrowned == CInv /\ [Next]_vars => CInv'
<1> SUFFICES ASSUME CInv, [Next]_vars PROVE Owners' /\ Seated' /\ Crowned'
  BY NextProvisioned DEF CInv
<1>0. TInv /\ Phases /\ Provisioned /\ Owners /\ Seated /\ Crowned /\ CreatorIsAdmin
  BY DEF CInv, PInv, RInv, Crowned
<1>u. \A row \in bus : row.id # Seed => row.id \in Requests /\ pc[row.id] \in Ended
  BY <1>0, UnitIds DEF Provisioned
<1>b. \A q \in Requests : pc[q] # "idle" => arg[q].b = Seed \/ arg[q].b \in Requests
  BY <1>0 DEF TInv, Begun, Call, Ids
<1>e. "idle" \notin Ended /\ "idle" \notin InUnit /\ "error" \in Ended /\ "error" \notin InUnit
       /\ (\A s \in Ended : s \notin Active) /\ "member" \in InUnit
  BY DEF Ended, Active, InUnit
<1>1. CASE UNCHANGED vars
  BY <1>0, <1>1 DEF Owners, Seated, Crowned, CreatorIsAdmin, EnrolledIn, vars, maindb, chatdb,
     history
<1>2. CASE BootGet \/ BootCreate
  BY <1>0, <1>2 DEF BootGet, BootCreate, Owners, Seated, Crowned, CreatorIsAdmin, EnrolledIn,
     maindb, chatdb, history
<1>3. CASE BootAdmin
  <2>1. mrole' = [mrole EXCEPT ![<<Seed, Seed>>] = "Admin"]
        /\ UNCHANGED <<bus, pc, arg, tokens>>
    BY <1>3 DEF BootAdmin, Upsert, maindb, history
  <2>2. \A q \in Requests : \A p : mrole'[<<q, p>>] = mrole[<<q, p>>]
    BY <1>0, <2>1, SeedAssumption DEF TInv, TypeOK
  <2>3. Crowned'
    BY <1>0, <1>u, <2>1, <2>2 DEF Crowned, CreatorIsAdmin, EnrolledIn
  <2> QED BY <1>0, <2>1, <2>3 DEF Owners, Seated
<1>4. CASE Crash
  <2>1. \A q \in Requests : pc'[q] = pc[q] \/ (pc[q] \in Active /\ pc'[q] = "error")
    BY <1>0, <1>4, CrashMoves
  <2>2. UNCHANGED <<bus, mrole, arg, tokens>>
    BY <1>4 DEF Crash, maindb, chatdb
  <2>3. \A q \in Requests : /\ pc[q] \in Ended => pc'[q] = pc[q]
                            /\ pc'[q] \in InUnit \cup {"commit"} => pc'[q] = pc[q]
                            /\ pc'[q] # "idle" => pc[q] # "idle"
    BY <1>e, <2>1 DEF Active
  <2>4. Owners'
    BY <1>0, <2>2, <2>3 DEF Owners
  <2>5. Seated'
    BY <1>0, <1>b, <1>e, <2>2, <2>3 DEF Seated
  <2>6. \A p, b : EnrolledIn(p, b) => EnrolledIn(p, b)'
    BY <2>2, <2>3 DEF EnrolledIn
  <2>7. Crowned'
    BY <1>0, <2>2, <2>3, <2>6 DEF Crowned, CreatorIsAdmin
  <2> QED BY <2>4, <2>5, <2>7
<1>5. ASSUME NEW r \in Requests, Start(r) PROVE Owners' /\ Seated' /\ Crowned'
  <2>1. Begins(r) /\ pc'[r] = First(arg'[r].op)
    BY <1>0, <1>5, StartMoves
  <2>2. UNCHANGED <<bus, mrole, tokens>> /\ pc[r] = "idle"
    BY <2>1 DEF Begins, maindb, chatdb, history
  <2>3. \A q \in Requests : q # r => pc'[q] = pc[q] /\ arg'[q] = arg[q]
    BY <2>1 DEF Begins
  <2>4. pc'[r] \notin InUnit /\ pc'[r] # "commit"
    BY <2>1 DEF Begins, InUnit
  <2>5. Owners'
    <3>1. arg'[r].op = "create_bu" => arg'[r].p \in tokens
      BY <1>0, <1>5, StartOwners
    <3> QED BY <1>0, <1>u, <1>e, <2>2, <2>3, <3>1 DEF Owners
  <2>6. Seated'
    BY <1>0, <1>b, <1>e, <2>2, <2>3, <2>4 DEF Seated
  <2>7. \A p, b : EnrolledIn(p, b) => EnrolledIn(p, b)'
    BY <1>e, <2>2, <2>3 DEF EnrolledIn
  <2>8. Crowned'
    BY <1>0, <1>u, <1>e, <2>2, <2>3, <2>4, <2>7 DEF Crowned, CreatorIsAdmin
  <2> QED BY <2>5, <2>6, <2>8
<1>6. ASSUME NEW r \in Requests, Step(r) \/ Fail(r) PROVE Owners' /\ Seated' /\ Crowned'
  BY <1>6, StepCrowned
<1> QED BY <1>1, <1>2, <1>3, <1>4, <1>5, <1>6 DEF Next

(* Whoever created a unit is an Admin of its workspace until an enrolment   *)
(* in that unit overwrites the role: through crashes, lost answers, access  *)
(* changes and resets.                                                      *)
THEOREM CreatorsAreAdmins == Spec => []CreatorIsAdmin
<1>1. CInv => CreatorIsAdmin
  BY DEF CInv, Crowned
<1> QED BY InitCrowned, NextCrowned, <1>1, PTL DEF Spec

-----------------------------------------------------------------------------
(* Profiles stay within a company.                                          *)

(* The company of a unit or person is fixed by the request that drew the id. *)
Belongs(i, c) == \/ i = Seed /\ c = Seed
                 \/ i \in Requests /\ pc[i] # "idle" /\ arg[i].c = c

(* Rows refer to companies that are there, which the foreign keys and the   *)
(* row locks of open transactions ensure, and what a staff operation has    *)
(* looked up stays true of the ids even when a reset deletes the rows.      *)
RowsKeyed ==
    /\ \A row \in bus     : Belongs(row.id, row.company) /\ row.company \in companies
    /\ \A row \in persons : Belongs(row.id, row.company) /\ row.company \in companies

Locked ==
    \A r \in Requests : pc[r] \in {"ws", "admin", "commit"} /\ arg[r].op = "create_bu"
        => arg[r].c \in companies

LookedUp ==
    /\ \A r \in Requests : pc[r] \in {"who", "person", "dup", "profile"} =>
         Belongs(arg[r].b, arg[r].c)
    /\ \A r \in Requests : pc[r] \in {"dup", "profile"} => Belongs(arg[r].p, arg[r].c)

KInv == RInv /\ RowsKeyed /\ Locked /\ LookedUp /\ ProfilesWithinCompany

LEMMA BelongsUnique ==
    ASSUME NEW i, NEW c, NEW d, Belongs(i, c), Belongs(i, d)
    PROVE  c = d
BY SeedAssumption DEF Belongs

(* No step sends a request back to the start. *)
LEMMA StepBegun ==
    ASSUME TInv, NEW r \in Requests, Step(r) \/ Fail(r)
    PROVE  /\ \A q \in Requests : pc[q] # "idle" => pc'[q] # "idle"
           /\ \A i, c : Belongs(i, c) => Belongs(i, c)'
<1>1. pc'[r] # "idle"
  BY StepLeads
<1>2. \A q \in Requests : q # r => pc'[q] = pc[q]
  BY StepMoves DEF Moved
<1>3. \A q \in Requests : pc[q] # "idle" => pc'[q] # "idle"
  BY <1>1, <1>2
<1>4. \A q \in Requests : arg'[q].c = arg[q].c
  BY StepKeepsCall
<1> QED BY <1>3, <1>4 DEF Belongs

(* The effect of one step on the main database: a reset's DELETE empties    *)
(* it; every other step only adds rows, or changes a profile's role.        *)
MainGrows(r) ==
    /\ companies \subseteq companies' /\ bus \subseteq bus' /\ persons \subseteq persons'
    /\ \A row \in bus' : \/ row \in bus
                         \/ row = SeedUnit /\ Seed \in companies
                         \/ row = [id |-> r, company |-> arg[r].c] /\ Commit(r)
    /\ \A row \in persons' : \/ row \in persons
                             \/ row = SeedUnit /\ Seed \in companies
                             \/ /\ row = [id |-> r, company |-> arg[r].c]
                                /\ arg[r].c \in companies
                             \/ /\ row = [id |-> r, company |-> r]
                                /\ Commit(r) /\ arg[r].op = "onboard"
    /\ \A x \in profiles' : \/ \E y \in profiles : x.bu = y.bu /\ x.person = y.person
                            \/ /\ x.bu = Seed /\ x.person = Seed
                               /\ HasRow(bus, Seed) /\ HasRow(persons, Seed)
                            \/ /\ x.bu = arg[r].b /\ x.person = arg[r].p /\ pc[r] = "profile"
                               /\ HasRow(bus, arg[r].b) /\ HasRow(persons, arg[r].p)
                            \/ /\ x.bu = r /\ x.person = r
                               /\ Commit(r) /\ arg[r].op = "onboard"

LEMMA StepMain ==
    ASSUME TInv, NEW r \in Requests, Step(r) \/ Fail(r)
    PROVE  DeleteAll(r) \/ MainGrows(r)
<1>0. \A x \in profiles : \E y \in profiles : x.bu = y.bu /\ x.person = y.person
  OBVIOUS
<1>1. CASE Commit(r)
  BY <1>0, <1>1 DEF Commit, MainGrows
<1>2. CASE InsertPerson(r)
  BY <1>0, <1>2 DEF InsertPerson, MainGrows
<1>3. CASE InsertProfile(r)
  BY <1>0, <1>3 DEF InsertProfile, MainGrows
<1>4. CASE WriteRole(r)
  <2>1. \A row \in profiles : [row EXCEPT !.role = arg[r].role].bu = row.bu
                              /\ [row EXCEPT !.role = arg[r].role].person = row.person
    BY DEF TInv, TypeOK, Profile
  <2>2. \A x \in profiles' : \E y \in profiles : x.bu = y.bu /\ x.person = y.person
    <3>1. CASE UNCHANGED profiles
      BY <1>0, <3>1
    <3>2. CASE profiles' = {IF row.id = arg[r].p THEN [row EXCEPT !.role = arg[r].role]
                            ELSE row : row \in profiles}
      <4> SUFFICES ASSUME NEW x \in profiles'
                   PROVE  \E y \in profiles : x.bu = y.bu /\ x.person = y.person
        OBVIOUS
      <4>1. PICK row \in profiles :
              x = (IF row.id = arg[r].p THEN [row EXCEPT !.role = arg[r].role] ELSE row)
        BY <3>2
      <4>2. x.bu = row.bu /\ x.person = row.person
        BY <2>1, <4>1
      <4> QED BY <4>2
    <3> QED BY <1>4, <3>1, <3>2 DEF WriteRole
  <2> QED BY <1>4, <2>2 DEF WriteRole, MainGrows
<1>5. CASE InsertSeedCompany(r)
  BY <1>0, <1>5 DEF InsertSeedCompany, MainGrows
<1>6. CASE InsertSeedUnit(r)
  BY <1>0, <1>6 DEF InsertSeedUnit, MainGrows
<1>7. CASE InsertSeedPerson(r)
  BY <1>0, <1>7 DEF InsertSeedPerson, MainGrows
<1>8. CASE InsertSeedProfile(r)
  BY <1>0, <1>8 DEF InsertSeedProfile, MainGrows, SeedProfile
<1>9. CASE UNCHANGED maindb
  BY <1>0, <1>9 DEF MainGrows, maindb
<1> QED BY <1>1, <1>2, <1>3, <1>4, <1>5, <1>6, <1>7, <1>8, <1>9 DEF Step, Fail, TxInsert,
      CreateWorkspace, AddAdmin, FindUnit, FindPerson, FindDuplicate, LookupWorkspace,
      AddStaffMember, SetAccess, ReadProfile, DeleteMessages

LEMMA InitKeyed == Init => KInv
<1> SUFFICES ASSUME Init PROVE KInv
  OBVIOUS
<1>1. TInv /\ Phases
  BY InitProvisioned DEF PInv, RInv
<1>2. RowsKeyed
  BY DEF Init, RowsKeyed, Belongs, SeedUnit
<1>3. Locked /\ LookedUp
  BY DEF Init, Locked, LookedUp
<1>4. ProfilesWithinCompany
  BY DEF Init, ProfilesWithinCompany, SeedProfile, SeedUnit, HasUnit, HasPerson
<1> QED BY <1>1, <1>2, <1>3, <1>4 DEF KInv, RInv

(* Steps that do not touch the main database, as far as the rows go. *)
LEMMA StillKeyed ==
    ASSUME RowsKeyed, ProfilesWithinCompany, UNCHANGED maindb,
           \A i, c : Belongs(i, c) => Belongs(i, c)'
    PROVE  RowsKeyed' /\ ProfilesWithinCompany'
<1>1. UNCHANGED <<companies, bus, persons, profiles>>
  BY DEF maindb
<1>2. RowsKeyed'
  BY <1>1 DEF RowsKeyed
<1>3. ProfilesWithinCompany'
  BY <1>1 DEF ProfilesWithinCompany, HasUnit, HasPerson
<1> QED BY <1>2, <1>3

(* A referenced row determines the company. *)
LEMMA RowOfCompany ==
    ASSUME RowsKeyed, NEW i, NEW c, Belongs(i, c)
    PROVE  /\ TInv /\ HasRow(bus, i) => HasUnit(i, c) /\ c \in companies
           /\ TInv /\ HasRow(persons, i) => HasPerson(i, c) /\ c \in companies
<1>1. ASSUME TInv, HasRow(bus, i) PROVE HasUnit(i, c) /\ c \in companies
  <2>1. PICK row \in bus : row.id = i
    BY <1>1 DEF HasRow
  <2>2. Belongs(i, row.company) /\ row.company \in companies
    BY <2>1 DEF RowsKeyed
  <2>3. row.company = c
    BY <2>2, BelongsUnique
  <2>4. row = [id |-> i, company |-> c]
    BY <1>1, <2>1, <2>3 DEF TInv, TypeOK, Unit
  <2> QED BY <2>1, <2>2, <2>3, <2>4 DEF HasUnit
<1>2. ASSUME TInv, HasRow(persons, i) PROVE HasPerson(i, c) /\ c \in companies
  <2>1. PICK row \in persons : row.id = i
    BY <1>2 DEF HasRow
  <2>2. Belongs(i, row.company) /\ row.company \in companies
    BY <2>1 DEF RowsKeyed
  <2>3. row.company = c
    BY <2>2, BelongsUnique
  <2>4. row = [id |-> i, company |-> c]
    BY <1>2, <2>1, <2>3 DEF TInv, TypeOK, Unit
  <2> QED BY <2>1, <2>2, <2>3, <2>4 DEF HasPerson
<1> QED BY <1>1, <1>2

LEMMA StepRowsKeyed ==
    ASSUME KInv, NEW r \in Requests, MainGrows(r), Step(r) \/ Fail(r)
    PROVE  RowsKeyed' /\ ProfilesWithinCompany'
<1>0. TInv /\ Phases /\ RowsKeyed /\ Locked /\ LookedUp /\ ProfilesWithinCompany
  BY DEF KInv, RInv
<1>1. \A i, c : Belongs(i, c) => Belongs(i, c)'
  BY <1>0, StepBegun
<1>2. companies \subseteq companies' /\ bus \subseteq bus' /\ persons \subseteq persons'
  BY DEF MainGrows
<1>3. pc[r] # "idle" /\ Belongs(r, arg[r].c)
  BY <1>0, StepMoves DEF Moved, Belongs
<1>4. Commit(r) => arg[r].c \in companies'
  <2>1. CASE Commit(r) /\ arg[r].op = "onboard"
    <3>1. arg[r].c = r
      BY <1>0, <1>3, <2>1 DEF Phases, Asked
    <3> QED BY <2>1, <3>1 DEF Commit
  <2>2. CASE Commit(r) /\ arg[r].op # "onboard"
    <3>1. pc[r] = "commit" /\ arg[r].op = "create_bu"
      BY <1>0, <1>3, <2>2 DEF Commit, Phases, Phase
    <3> QED BY <1>0, <1>2, <3>1 DEF Locked
  <2> QED BY <2>1, <2>2
<1>5. Commit(r) /\ arg[r].op = "onboard" =>
        /\ arg[r].c = r /\ r \in companies'
        /\ [id |-> r, company |-> r] \in bus' /\ [id |-> r, company |-> r] \in persons'
  <2>1. Commit(r) /\ arg[r].op = "onboard" => arg[r].c = r
    BY <1>0, <1>3 DEF Phases, Asked
  <2> QED BY <2>1 DEF Commit
<1>6. Belongs(Seed, Seed)
  BY DEF Belongs
<1>7. \A row \in bus' : Belongs(row.id, row.company)' /\ row.company \in companies'
  <2> SUFFICES ASSUME NEW row \in bus'
               PROVE  Belongs(row.id, row.company)' /\ row.company \in companies'
    OBVIOUS
  <2>1. CASE row \in bus
    BY <1>0, <1>1, <1>2, <2>1 DEF RowsKeyed
  <2>2. CASE row = SeedUnit /\ Seed \in companies
    BY <1>1, <1>2, <1>6, <2>2 DEF SeedUnit
  <2>3. CASE row = [id |-> r, company |-> arg[r].c] /\ Commit(r)
    BY <1>1, <1>3, <1>4, <2>3
  <2> QED BY <2>1, <2>2, <2>3 DEF MainGrows
<1>8. \A row \in persons' : Belongs(row.id, row.company)' /\ row.company \in companies'
  <2> SUFFICES ASSUME NEW row \in persons'
               PROVE  Belongs(row.id, row.company)' /\ row.company \in companies'
    OBVIOUS
  <2>1. CASE row \in persons
    BY <1>0, <1>1, <1>2, <2>1 DEF RowsKeyed
  <2>2. CASE row = SeedUnit /\ Seed \in companies
    BY <1>1, <1>2, <1>6, <2>2 DEF SeedUnit
  <2>3. CASE row = [id |-> r, company |-> arg[r].c] /\ arg[r].c \in companies
    BY <1>1, <1>2, <1>3, <2>3
  <2>4. CASE row = [id |-> r, company |-> r] /\ Commit(r) /\ arg[r].op = "onboard"
    BY <1>1, <1>3, <1>5, <2>4
  <2> QED BY <2>1, <2>2, <2>3, <2>4 DEF MainGrows
<1>9. RowsKeyed'
  BY <1>7, <1>8 DEF RowsKeyed
<1>10. \A x \in profiles' : \E c \in companies' :
          [id |-> x.bu, company |-> c] \in bus' /\ [id |-> x.person, company |-> c] \in persons'
  <2> SUFFICES ASSUME NEW x \in profiles'
               PROVE  \E c \in companies' : /\ [id |-> x.bu, company |-> c] \in bus'
                                            /\ [id |-> x.person, company |-> c] \in persons'
    OBVIOUS
  <2>1. CASE \E y \in profiles : x.bu = y.bu /\ x.person = y.person
    BY <1>0, <1>2, <2>1 DEF ProfilesWithinCompany, HasUnit, HasPerson
  <2>2. CASE x.bu = Seed /\ x.person = Seed /\ HasRow(bus, Seed) /\ HasRow(persons, Seed)
    <3>1. HasUnit(Seed, Seed) /\ HasPerson(Seed, Seed) /\ Seed \in companies
      BY <1>0, <1>6, <2>2, RowOfCompany
    <3> QED BY <1>2, <2>2, <3>1 DEF HasUnit, HasPerson
  <2>3. CASE /\ x.bu = arg[r].b /\ x.person = arg[r].p /\ pc[r] = "profile"
             /\ HasRow(bus, arg[r].b) /\ HasRow(persons, arg[r].p)
    <3>1. Belongs(arg[r].b, arg[r].c) /\ Belongs(arg[r].p, arg[r].c)
      BY <1>0, <2>3 DEF LookedUp
    <3>2. HasUnit(arg[r].b, arg[r].c) /\ HasPerson(arg[r].p, arg[r].c) /\ arg[r].c \in companies
      BY <1>0, <2>3, <3>1, RowOfCompany
    <3> QED BY <1>2, <2>3, <3>2 DEF HasUnit, HasPerson
  <2>4. CASE x.bu = r /\ x.person = r /\ Commit(r) /\ arg[r].op = "onboard"
    BY <1>5, <2>4
  <2> QED BY <2>1, <2>2, <2>3, <2>4 DEF MainGrows
<1>11. ProfilesWithinCompany'
  BY <1>10 DEF ProfilesWithinCompany, HasUnit, HasPerson
<1> QED BY <1>9, <1>11

LEMMA StepLooksUp ==
    ASSUME KInv, NEW r \in Requests, Step(r) \/ Fail(r)
    PROVE  Locked' /\ LookedUp'
<1>0. TInv /\ Phases /\ RowsKeyed /\ Locked /\ LookedUp
  BY DEF KInv, RInv
<1>1. \A i, c : Belongs(i, c) => Belongs(i, c)'
  BY <1>0, StepBegun
<1>2. \A q \in Requests : q # r => pc'[q] = pc[q] /\ arg'[q] = arg[q]
  BY <1>0, StepMoves, StepKeepsCall DEF Moved
<1>3. /\ arg'[r].op = arg[r].op /\ arg'[r].c = arg[r].c /\ arg'[r].b = arg[r].b
      /\ pc[r] # "role_read" => arg'[r] = arg[r]
  BY <1>0, StepKeepsCall
<1>4. pc[r] # "idle" /\ Asked(r, arg[r]) /\ Phase(arg[r].op, pc[r])
  BY <1>0, StepMoves DEF Moved, Phases
<1>5. \/ pc'[r] \in {"error", "done", "lookup", "member", "access", "ins_company", "ins_bu",
                     "ins_person", "ins_profile", "del_msgs", "role_write"}
      \/ pc'[r] = "ws" /\ TxInsert(r)
      \/ pc[r] = "ws"     /\ pc'[r] = "admin"
      \/ pc[r] = "admin"  /\ pc'[r] = "commit"
      \/ pc[r] = "bu"     /\ pc'[r] \in {"who", "person"} /\ FindUnit(r)
      \/ pc[r] = "who"    /\ pc'[r] = "dup"    /\ FindPerson(r)
      \/ pc[r] = "dup"    /\ pc'[r] = "profile"
      \/ pc[r] = "person" /\ pc'[r] = "profile"
  BY <1>0, StepLeads
<1>6. Locked'
  <2> SUFFICES ASSUME NEW q \in Requests, pc'[q] \in {"ws", "admin", "commit"},
                      arg'[q].op = "create_bu"
               PROVE  arg'[q].c \in companies'
    BY DEF Locked
  <2>1. CASE DeleteAll(r)
    <3>1. pc'[r] \in {"ins_company", "error"}
      <4>1. "ins_company" \in PCs
        BY DEF PCs, Active
      <4> QED BY <1>0, <2>1, <4>1, AnsweredMoves DEF DeleteAll, TInv
    <3>2. q # r
      BY <3>1
    <3> QED BY <1>2, <2>1, <3>2 DEF DeleteAll
  <2>2. CASE ~DeleteAll(r)
    <3>0. companies \subseteq companies'
      BY <1>0, <2>2, StepMain DEF MainGrows
    <3>1. CASE q # r
      BY <1>0, <1>2, <3>0, <3>1 DEF Locked
    <3>2. CASE q = r /\ pc'[r] = "ws" /\ TxInsert(r)
      <4>1. arg[r].op = "create_bu"
        BY <1>3, <3>2
      <4>2. arg[r].c \in companies
        <5>1. Reject(r) => pc'[r] = "error"
          BY <1>0, RejectMoves DEF TInv
        <5> QED BY <3>2, <4>1, <5>1 DEF TxInsert
      <4> QED BY <1>3, <3>0, <3>2, <4>2
    <3>3. CASE q = r /\ pc[r] \in {"ws", "admin"}
      BY <1>0, <1>3, <3>0, <3>3 DEF Locked
    <3> QED BY <1>5, <3>1, <3>2, <3>3
  <2> QED BY <2>1, <2>2
<1>7. \A q \in Requests : pc'[q] \in {"who", "person", "dup", "profile"} =>
        Belongs(arg[q].b, arg[q].c)'
  <2> SUFFICES ASSUME NEW q \in Requests, pc'[q] \in {"who", "person", "dup", "profile"}
               PROVE  Belongs(arg[q].b, arg[q].c)
    BY <1>1, <1>2, <1>3 DEF Belongs
  <2>1. CASE q # r
    BY <1>0, <1>2, <2>1 DEF LookedUp
  <2>2. CASE q = r /\ pc[r] \in {"who", "person", "dup"}
    BY <1>0, <2>2 DEF LookedUp
  <2>3. CASE q = r /\ FindUnit(r) /\ pc'[r] \in {"who", "person"}
    <3>1. Reject(r) => pc'[r] = "error"
      BY <1>0, RejectMoves DEF TInv
    <3>2. HasUnit(arg[r].b, arg[r].c)
      BY <2>3, <3>1 DEF FindUnit
    <3> QED BY <1>0, <2>3, <3>2 DEF HasUnit, RowsKeyed
  <2> QED BY <1>5, <2>1, <2>2, <2>3
<1>8. \A q \in Requests : pc'[q] \in {"dup", "profile"} => Belongs(arg[q].p, arg[q].c)'
  <2> SUFFICES ASSUME NEW q \in Requests, pc'[q] \in {"dup", "profile"}
               PROVE  Belongs(arg[q].p, arg[q].c) /\ arg'[q] = arg[q]
    BY <1>1 DEF Belongs
  <2>1. CASE q # r
    BY <1>0, <1>2, <2>1 DEF LookedUp
  <2>2. CASE q = r /\ pc[r] = "dup"
    BY <1>0, <1>3, <2>2 DEF LookedUp
  <2>3. CASE q = r /\ pc[r] = "who" /\ FindPerson(r)
    <3>1. Reject(r) => pc'[r] = "error"
      BY <1>0, RejectMoves DEF TInv
    <3>2. HasPerson(arg[r].p, arg[r].c)
      BY <2>3, <3>1 DEF FindPerson
    <3> QED BY <1>0, <1>3, <2>3, <3>2 DEF HasPerson, RowsKeyed
  <2>4. CASE q = r /\ pc[r] = "person"
    <3>1. arg[r].p = r
      BY <1>4, <2>4 DEF Asked, Phase
    <3> QED BY <1>3, <1>4, <2>4, <3>1 DEF Belongs
  <2> QED BY <1>5, <2>1, <2>2, <2>3, <2>4
<1>9. LookedUp'
  BY <1>7, <1>8 DEF LookedUp
<1> QED BY <1>6, <1>9

LEMMA NextKeyed == KInv /\ [Next]_vars => KInv'
<1> SUFFICES ASSUME KInv, [Next]_vars
             PROVE  RowsKeyed' /\ Locked' /\ LookedUp' /\ ProfilesWithinCompany'
  BY NextPhases DEF KInv
<1>0. TInv /\ Phases /\ RowsKeyed /\ Locked /\ LookedUp /\ ProfilesWithinCompany
  BY DEF KInv, RInv
<1>1. CASE UNCHANGED vars \/ BootGet \/ BootCreate \/ BootAdmin
  <2>1. UNCHANGED maindb /\ UNCHANGED <<pc, arg>>
    BY <1>1 DEF vars, BootGet, BootCreate, BootAdmin
  <2>2. \A i, c : Belongs(i, c) => Belongs(i, c)'
    BY <2>1 DEF Belongs
  <2>3. Locked' /\ LookedUp'
    BY <1>0, <2>1, <2>2 DEF Locked, LookedUp, maindb
  <2> QED BY <1>0, <2>1, <2>2, <2>3, StillKeyed
<1>2. CASE Crash
  <2>1. /\ \A q \in Requests : pc'[q] = pc[q] \/ (pc[q] \in Active /\ pc'[q] = "error")
        /\ "idle" \notin Active
    BY <1>0, <1>2, CrashMoves DEF Active
  <2>2. UNCHANGED maindb /\ UNCHANGED arg
    BY <1>2 DEF Crash
  <2>3. \A i, c : Belongs(i, c) => Belongs(i, c)'
    BY <2>1, <2>2 DEF Belongs
  <2>4. Locked' /\ LookedUp'
    BY <1>0, <2>1, <2>2, <2>3 DEF Locked, LookedUp, maindb
  <2> QED BY <1>0, <2>2, <2>3, <2>4, StillKeyed
<1>3. ASSUME NEW r \in Requests, Start(r)
      PROVE  RowsKeyed' /\ Locked' /\ LookedUp' /\ ProfilesWithinCompany'
  <2>1. Begins(r)
    BY <1>0, <1>3, StartMoves
  <2>2. UNCHANGED maindb /\ pc[r] = "idle" /\ pc'[r] \in {"tx", "bu", "role_read", "del"}
    BY <2>1 DEF Begins
  <2>3. \A q \in Requests : q # r => pc'[q] = pc[q] /\ arg'[q] = arg[q]
    BY <2>1 DEF Begins
  <2>4. \A i, c : Belongs(i, c) => Belongs(i, c)'
    BY <2>2, <2>3 DEF Belongs
  <2>5. Locked' /\ LookedUp'
    BY <1>0, <2>2, <2>3, <2>4 DEF Locked, LookedUp, maindb
  <2> QED BY <1>0, <2>2, <2>4, <2>5, StillKeyed
<1>4. ASSUME NEW r \in Requests, Step(r) \/ Fail(r)
      PROVE  RowsKeyed' /\ Locked' /\ LookedUp' /\ ProfilesWithinCompany'
  <2>1. Locked' /\ LookedUp'
    BY <1>4, StepLooksUp
  <2>2. CASE DeleteAll(r)
    <3>1. bus' = {} /\ persons' = {} /\ profiles' = {}
      BY <2>2 DEF DeleteAll
    <3> QED BY <2>1, <3>1 DEF RowsKeyed, ProfilesWithinCompany
  <2>3. CASE MainGrows(r)
    BY <1>4, <2>1, <2>3, StepRowsKeyed
  <2> QED BY <1>0, <1>4, <2>2, <2>3, StepMain
<1> QED BY <1>1, <1>2, <1>3, <1>4 DEF Next

(* A profile ties a person to a unit of the same company: the lookups of    *)
(* StaffService are about ids whose company never changes, and the foreign  *)
(* keys catch rows that a reset deleted after the lookup.                   *)
THEOREM ProfilesStayWithinCompany == Spec => []ProfilesWithinCompany
<1>1. KInv => ProfilesWithinCompany
  BY DEF KInv
<1> QED BY InitKeyed, NextKeyed, <1>1, PTL DEF Spec

-----------------------------------------------------------------------------
(* The gaps that staff operations leave.                                    *)

(* A fault, once noted, stays noted.                                        *)
LEMMA StepFaults ==
    ASSUME NEW r \in Requests, Step(r) \/ Fail(r)
    PROVE  faulted \subseteq faulted'
<1>1. \A s : Answered(r, s) => faulted' = faulted \/ faulted' = faulted \cup {r}
  BY DEF Answered
<1>2. Reject(r) => faulted' = faulted
  BY DEF Reject
<1>3. faulted' = faulted \/ faulted' = faulted \cup {r}
  <2>1. CASE Fail(r)
    BY <2>1 DEF Fail
  <2>2. CASE TxInsert(r) \/ FindUnit(r) \/ FindPerson(r) \/ FindDuplicate(r)
    BY <1>2, <2>2 DEF TxInsert, FindUnit, FindPerson, FindDuplicate
  <2>3. CASE CreateWorkspace(r) \/ AddAdmin(r) \/ Commit(r) \/ AddStaffMember(r) \/ SetAccess(r)
    BY <1>1, <2>3 DEF CreateWorkspace, AddAdmin, Commit, AddStaffMember, SetAccess
  <2>4. CASE InsertPerson(r) \/ InsertProfile(r) \/ WriteRole(r)
    BY <1>1, <1>2, <2>4 DEF InsertPerson, InsertProfile, WriteRole
  <2>5. CASE LookupWorkspace(r) \/ ReadProfile(r)
    BY <1>2, <2>5 DEF LookupWorkspace, ReadProfile, history
  <2>6. CASE DeleteAll(r) \/ InsertSeedCompany(r) \/ InsertSeedUnit(r) \/ InsertSeedPerson(r)
               \/ InsertSeedProfile(r) \/ DeleteMessages(r)
    BY <1>1, <1>2, <2>6 DEF DeleteAll, InsertSeedCompany, InsertSeedUnit, InsertSeedPerson,
      InsertSeedProfile, DeleteMessages
  <2> QED BY <2>1, <2>2, <2>3, <2>4, <2>5, <2>6 DEF Step
<1> QED BY <1>3

(* A call that went well leads on; one that did not is a fault.             *)
LEMMA AnsweredOrFaulted ==
    ASSUME TInv, NEW r \in Requests, NEW s \in PCs, Answered(r, s)
    PROVE  pc'[r] = s \/ (pc'[r] = "error" /\ r \in faulted')
<1>1. "error" \in PCs
  BY DEF PCs, Ended
<1>2. CASE Goto(r, s) /\ UNCHANGED faulted
  BY <1>2, GotoMoves DEF TInv
<1>3. CASE Goto(r, "error") /\ faulted' = faulted \cup {r}
  BY <1>1, <1>3, GotoMoves DEF TInv
<1> QED BY <1>2, <1>3 DEF Answered

LEMMA FailFaults ==
    ASSUME TInv, NEW r \in Requests, Fail(r)
    PROVE  pc'[r] = "error" /\ r \in faulted'
<1>1. "error" \in PCs
  BY DEF PCs, Ended
<1> QED BY <1>1, GotoMoves DEF Fail, TInv

(* Which action a request may take from the steps these proofs look at.     *)
LEMMA AtStep ==
    ASSUME NEW r \in Requests, Step(r) \/ Fail(r)
    PROVE  /\ pc[r] = "person"  => Fail(r) \/ InsertPerson(r)
           /\ pc[r] = "profile" => Fail(r) \/ InsertProfile(r)
           /\ pc[r] = "lookup"  => Fail(r) \/ LookupWorkspace(r)
           /\ pc[r] = "member"  => Fail(r) \/ AddStaffMember(r)
           /\ pc[r] = "del"         => Fail(r) \/ DeleteAll(r)
           /\ pc[r] = "ins_company" => Fail(r) \/ InsertSeedCompany(r)
           /\ pc[r] = "ins_bu"      => Fail(r) \/ InsertSeedUnit(r)
           /\ pc[r] = "ins_person"  => Fail(r) \/ InsertSeedPerson(r)
           /\ pc[r] = "ins_profile" => Fail(r) \/ InsertSeedProfile(r)
           /\ pc[r] = "del_msgs"    => Fail(r) \/ DeleteMessages(r)
BY DEF Step, TxInsert, CreateWorkspace, AddAdmin, Commit, FindUnit, FindPerson, FindDuplicate,
   InsertPerson, InsertProfile, LookupWorkspace, AddStaffMember, SetAccess, ReadProfile,
   WriteRole, DeleteAll, InsertSeedCompany, InsertSeedUnit, InsertSeedPerson,
   InsertSeedProfile, DeleteMessages

(* Where a request goes from the steps of a reset, where no other goes.     *)
ResetPcs == {"del", "ins_company", "ins_bu", "ins_person", "ins_profile", "del_msgs"}

(* What a step makes of persons, as far as the proofs below need it.        *)
LEMMA StepPersons ==
    ASSUME TInv, NEW r \in Requests, Step(r) \/ Fail(r), NEW row \in persons'
    PROVE  \/ row \in persons
           \/ row = SeedUnit /\ pc[r] = "ins_person"
           \/ row.id = r /\ pc[r] = "person" /\ pc'[r] \in {"profile", "error"}
           \/ row.id = r /\ Commit(r) /\ arg[r].op = "onboard"
<1>1. CASE Commit(r)
  BY <1>1 DEF Commit
<1>2. CASE InsertPerson(r)
  <2>1. "profile" \in PCs
    BY DEF PCs, Active
  <2>2. pc'[r] \in {"profile", "error"}
    BY <1>2, <2>1, AnsweredMoves, RejectMoves DEF InsertPerson, TInv
  <2> QED BY <1>2, <2>2 DEF InsertPerson
<1>3. CASE InsertSeedPerson(r)
  BY <1>3 DEF InsertSeedPerson
<1>4. CASE DeleteAll(r)
  BY <1>4 DEF DeleteAll
<1>5. CASE UNCHANGED persons
  BY <1>5
<1> QED BY <1>1, <1>2, <1>3, <1>4, <1>5 DEF Step, Fail, TxInsert, CreateWorkspace, AddAdmin,
      FindUnit, FindPerson, FindDuplicate, InsertProfile, LookupWorkspace, AddStaffMember,
      SetAccess, ReadProfile, WriteRole, InsertSeedCompany, InsertSeedUnit, InsertSeedProfile,
      DeleteMessages, maindb

(* Two states of one row of bu_staff_profiles: only the role changes.       *)
Same(x, y) == x.id = y.id /\ x.person = y.person /\ x.bu = y.bu /\ x.email = y.email

(* What a step other than the reset's DELETE makes of the profiles.         *)
LEMMA StepProfiles ==
    ASSUME TInv, NEW r \in Requests, Step(r) \/ Fail(r), ~DeleteAll(r)
    PROVE  /\ \A y \in profiles : \E x \in profiles' : Same(x, y)
           /\ \A x \in profiles' :
                \/ \E y \in profiles : Same(x, y)
                \/ x = SeedProfile /\ pc[r] = "ins_profile"
                \/ /\ x.id = r /\ x.person = arg[r].p /\ x.bu = arg[r].b
                   /\ pc[r] = "profile"
                   /\ pc'[r] = "lookup" \/ (pc'[r] = "error" /\ r \in faulted')
                \/ /\ x.id = r /\ x.person = r /\ x.bu = r
                   /\ Commit(r) /\ arg[r].op = "onboard"
<1>0. \A y \in profiles : Same(y, y)
  BY DEF Same
<1>1. CASE Commit(r)
  BY <1>0, <1>1 DEF Commit
<1>2. CASE InsertProfile(r)
  <2>1. CASE UNCHANGED profiles
    BY <1>0, <2>1
  <2>2. CASE /\ profiles' = profiles \cup {[id |-> r, person |-> arg[r].p, bu |-> arg[r].b,
                                           email |-> arg[r].e, role |-> arg[r].role]}
             /\ Answered(r, "lookup")
    <3>1. "lookup" \in PCs
      BY DEF PCs, Active
    <3>2. pc'[r] = "lookup" \/ (pc'[r] = "error" /\ r \in faulted')
      BY <2>2, <3>1, AnsweredOrFaulted
    <3> QED BY <1>0, <1>2, <2>2, <3>2 DEF InsertProfile
  <2> QED BY <1>2, <2>1, <2>2 DEF InsertProfile
<1>3. CASE WriteRole(r)
  <2>1. \A row \in profiles : Same([row EXCEPT !.role = arg[r].role], row)
    BY DEF TInv, TypeOK, Profile, Same
  <2>2. CASE UNCHANGED profiles
    BY <1>0, <2>2
  <2>3. CASE profiles' = {IF row.id = arg[r].p THEN [row EXCEPT !.role = arg[r].role]
                          ELSE row : row \in profiles}
    <3> DEFINE new(row) == IF row.id = arg[r].p THEN [row EXCEPT !.role = arg[r].role] ELSE row
    <3>1. \A row \in profiles : Same(new(row), row)
      BY <1>0, <2>1
    <3>2. profiles' = {new(row) : row \in profiles}
      BY <2>3
    <3> HIDE DEF new
    <3> QED BY <3>1, <3>2
  <2> QED BY <1>3, <2>2, <2>3 DEF WriteRole
<1>4. CASE InsertSeedProfile(r)
  BY <1>0, <1>4 DEF InsertSeedProfile
<1>5. CASE UNCHANGED profiles
  BY <1>0, <1>5
<1> QED BY <1>1, <1>2, <1>3, <1>4, <1>5 DEF Step, Fail, TxInsert, CreateWorkspace, AddAdmin,
      FindUnit, FindPerson, FindDuplicate, InsertPerson, LookupWorkspace, AddStaffMember,
      SetAccess, ReadProfile, InsertSeedCompany, InsertSeedUnit, InsertSeedPerson,
      DeleteMessages, maindb

(* Requests run only while the backend is up, a row of persons or profiles  *)
(* other than the seeded ones is the work of the request it is named after, *)
(* and that request's own ids are what the row refers to.                   *)
UpWhileActive == \A r \in Requests : pc[r] \in Active => boot = "up"

PersonRows ==
    \A row \in persons : row.id # Seed =>
      /\ row.id \in Requests /\ pc[row.id] # "idle"
      /\ arg[row.id].op \in {"onboard", "create_staff"}

MadeBy(x, i) ==
    \/ arg[i].op = "onboard" /\ x.bu = i /\ x.person = i /\ pc[i] \in Ended
    \/ arg[i].op \in {"create_staff", "enroll"} /\ x.bu = arg[i].b /\ x.person = arg[i].p

ProfileRows ==
    \A x \in profiles : x.id # Seed =>
      x.id \in Requests /\ pc[x.id] # "idle" /\ MadeBy(x, x.id)

RowsNamed == UpWhileActive /\ PersonRows /\ ProfileRows

(* The two halves of StaffGapsExplained, for one row.                       *)
HasProfile(i) == (\E x \in profiles : x.person = i) \/ pc[i] \in {"profile", "error"}

Placed(x) == \/ mrole[<<x.bu, x.person>>] # "none"
             \/ pc[x.id] \in {"lookup", "member"}
             \/ x.id \in faulted

Gaps == /\ \A row \in persons : row.id # Seed => HasProfile(row.id)
        /\ \A x \in profiles : x.id # Seed => Placed(x)

GInv == KInv /\ Provisioned /\ Explained /\ RowsNamed /\ Gaps

LEMMA InitNamed == Init => GInv
<1> SUFFICES ASSUME Init PROVE GInv
  OBVIOUS
<1>1. KInv /\ Provisioned /\ Explained
  BY InitKeyed, InitProvisioned DEF PInv
<1>2. RowsNamed
  BY DEF Init, RowsNamed, UpWhileActive, PersonRows, ProfileRows, SeedUnit, SeedProfile, Active
<1>3. Gaps
  BY DEF Init, Gaps, SeedUnit, SeedProfile
<1> QED BY <1>1, <1>2, <1>3 DEF GInv

(* What the request named by an existing row asked for does not change.     *)
LEMMA StepNamed ==
    ASSUME GInv, NEW r \in Requests, Step(r) \/ Fail(r)
    PROVE  RowsNamed'
<1>0. TInv /\ Phases /\ UpWhileActive /\ PersonRows /\ ProfileRows
  BY DEF GInv, KInv, RInv, RowsNamed
<1>1. Moved(r) /\ pc[r] \in Active /\ pc[r] \notin Ended /\ pc[r] # "idle"
  BY <1>0, StepMoves, StepActive DEF Moved
<1>2. \A q \in Requests : pc[q] # "idle" => pc'[q] # "idle"
  BY <1>0, StepBegun
<1>3. \A q \in Requests : (q = r /\ pc[r] = "role_read") \/ arg'[q] = arg[q]
  BY <1>0, StepKeepsCall
<1>4. \A q \in Requests : arg[q].op # "update_role" /\ pc[q] # "idle" => arg'[q] = arg[q]
  BY <1>0, <1>3 DEF Phases, Phase
<1>5. \A q \in Requests : pc[q] \in Ended => pc'[q] = pc[q]
  BY <1>1 DEF Moved
<1>6. UpWhileActive'
  <2>1. boot' = boot /\ boot = "up"
    BY <1>0, <1>1 DEF Moved, UpWhileActive
  <2> QED BY <2>1 DEF UpWhileActive
<1>c. Commit(r) /\ arg[r].op = "onboard" => pc'[r] \in Ended /\ arg'[r] = arg[r]
  <2>1. ASSUME Commit(r) PROVE pc'[r] \in {"done", "error"} /\ pc[r] = "commit"
    BY <1>0, <2>1, CommitEnds DEF Commit
  <2> QED BY <1>3, <2>1 DEF Ended
<1>7. PersonRows'
  <2> SUFFICES ASSUME NEW row \in persons', row.id # Seed
               PROVE  /\ row.id \in Requests /\ pc'[row.id] # "idle"
                      /\ arg'[row.id].op \in {"onboard", "create_staff"}
    BY DEF PersonRows
  <2>1. CASE row \in persons
    BY <1>0, <1>2, <1>4, <2>1 DEF PersonRows
  <2>2. CASE row = SeedUnit
    BY <2>2 DEF SeedUnit
  <2>3. CASE row.id = r /\ pc[r] = "person"
    <3>1. arg[r].op = "create_staff"
      BY <1>0, <1>1, <2>3 DEF Phases, Phase
    <3> QED BY <1>1, <1>2, <1>4, <2>3, <3>1
  <2>4. CASE row.id = r /\ Commit(r) /\ arg[r].op = "onboard"
    BY <1>1, <1>2, <1>4, <2>4
  <2> QED BY <1>0, <2>1, <2>2, <2>3, <2>4, StepPersons
<1>8. ProfileRows'
  <2>0. CASE DeleteAll(r)
    BY <2>0 DEF DeleteAll, ProfileRows
  <2>1. CASE ~DeleteAll(r)
    <3> SUFFICES ASSUME NEW x \in profiles', x.id # Seed
                 PROVE  x.id \in Requests /\ pc'[x.id] # "idle" /\ MadeBy(x, x.id)'
      BY DEF ProfileRows
    <3>1. CASE \E y \in profiles : Same(x, y)
      <4>1. PICK y \in profiles : Same(x, y)
        BY <3>1
      <4>2. y.id = x.id /\ y.bu = x.bu /\ y.person = x.person
        BY <4>1 DEF Same
      <4>3. x.id \in Requests /\ pc[x.id] # "idle" /\ MadeBy(y, x.id)
        BY <1>0, <4>2 DEF ProfileRows
      <4>4. arg'[x.id] = arg[x.id]
        BY <1>4, <4>3 DEF MadeBy
      <4> QED BY <1>2, <1>5, <4>2, <4>3, <4>4 DEF MadeBy
    <3>2. CASE x = SeedProfile
      BY <3>2 DEF SeedProfile
    <3>3. CASE x.id = r /\ x.person = arg[r].p /\ x.bu = arg[r].b /\ pc[r] = "profile"
      <4>1. arg[r].op \in {"create_staff", "enroll"}
        BY <1>0, <1>1, <3>3 DEF Phases, Phase
      <4> QED BY <1>1, <1>2, <1>4, <3>3, <4>1 DEF MadeBy
    <3>4. CASE x.id = r /\ x.person = r /\ x.bu = r /\ Commit(r) /\ arg[r].op = "onboard"
      BY <1>1, <1>2, <1>c, <3>4 DEF MadeBy
    <3> QED BY <1>0, <2>1, <3>1, <3>2, <3>3, <3>4, StepProfiles
  <2> QED BY <2>0, <2>1
<1> QED BY <1>6, <1>7, <1>8 DEF RowsNamed

(* A person keeps its profile or its request is still to insert it.         *)
LEMMA StepHasProfile ==
    ASSUME GInv, NEW r \in Requests, Step(r) \/ Fail(r)
    PROVE  \A row \in persons' : row.id # Seed => HasProfile(row.id)'
<1> SUFFICES ASSUME NEW row \in persons', row.id # Seed PROVE HasProfile(row.id)'
  OBVIOUS
<1>0. TInv /\ Phases /\ PersonRows /\ Gaps
  BY DEF GInv, KInv, RInv, RowsNamed
<1>1. Moved(r) /\ pc[r] \notin Ended
  BY <1>0, StepMoves, StepActive
<1>2. CASE DeleteAll(r)
  BY <1>2 DEF DeleteAll
<1>3. CASE row \in persons /\ ~DeleteAll(r)
  <2>1. HasProfile(row.id) /\ row.id \in Requests
         /\ pc[row.id] # "idle" /\ arg[row.id].op \in {"onboard", "create_staff"}
    BY <1>0, <1>3 DEF Gaps, PersonRows
  <2>2. CASE \E y \in profiles : y.person = row.id
    BY <1>0, <1>3, <2>2, StepProfiles DEF Same, HasProfile
  <2>3. CASE pc[row.id] \in {"profile", "error"} /\ row.id # r
    BY <1>1, <2>1, <2>3 DEF Moved, HasProfile
  <2>4. CASE pc[r] \in {"profile", "error"} /\ row.id = r
    <3>1. pc[r] = "profile"
      BY <1>1, <2>4 DEF Ended
    <3>2. arg[r].op = "create_staff" /\ arg[r].p = r
      BY <1>0, <2>1, <2>4, <3>1 DEF Phases, Phase, Asked
    <3>3. CASE Fail(r)
      BY <1>0, <2>4, <3>3, FailFaults DEF HasProfile
    <3>4. CASE InsertProfile(r)
      <4>1. CASE Reject(r)
        BY <1>0, <2>4, <4>1, RejectMoves DEF TInv, HasProfile
      <4>2. CASE profiles' = profiles \cup {[id |-> r, person |-> arg[r].p, bu |-> arg[r].b,
                                           email |-> arg[r].e, role |-> arg[r].role]}
        <5> DEFINE x == [id |-> r, person |-> arg[r].p, bu |-> arg[r].b,
                         email |-> arg[r].e, role |-> arg[r].role]
        <5>1. x \in profiles' /\ x.person = row.id
          BY <2>4, <3>2, <4>2
        <5> QED BY <5>1 DEF HasProfile
      <4> QED BY <3>4, <4>1, <4>2 DEF InsertProfile
    <3> QED BY <3>1, <3>3, <3>4, AtStep
  <2> QED BY <2>1, <2>2, <2>3, <2>4 DEF HasProfile
<1>4. CASE row = SeedUnit
  BY <1>4 DEF SeedUnit
<1>5. CASE row.id = r /\ pc'[r] \in {"profile", "error"}
  BY <1>5 DEF HasProfile
<1>6. CASE row.id = r /\ Commit(r) /\ arg[r].op = "onboard"
  <2> DEFINE x == [id |-> r, person |-> r, bu |-> r, email |-> arg[r].e, role |-> "Owner"]
  <2>1. x \in profiles' /\ x.person = row.id
    BY <1>6 DEF Commit
  <2> QED BY <2>1 DEF HasProfile
<1> QED BY <1>0, <1>2, <1>3, <1>4, <1>5, <1>6, StepPersons

(* A profile that is being inserted finds its unit's workspace, so the      *)
(* membership follows unless the call fails.                                *)
LEMMA StepPlaced ==
    ASSUME GInv, NEW r \in Requests, Step(r) \/ Fail(r)
    PROVE  \A x \in profiles' : x.id # Seed => Placed(x)'
<1> SUFFICES ASSUME NEW x \in profiles', x.id # Seed PROVE Placed(x)'
  OBVIOUS
<1>0. /\ TInv /\ Phases /\ UpWhileActive /\ ProfileRows /\ Gaps
      /\ Provisioned /\ ProfilesWithinCompany
  BY DEF GInv, KInv, RInv, RowsNamed
<1>1. Moved(r) /\ pc[r] \in Active /\ pc[r] \notin Ended /\ pc[r] # "idle"
  BY <1>0, StepMoves, StepActive DEF Moved
<1>2. ChatGrows /\ faulted \subseteq faulted'
  BY <1>0, StepEffects, StepFaults
<1>s. "member" \in PCs /\ "done" \in PCs
  BY DEF PCs, Active, Ended
<1>3. CASE DeleteAll(r)
  BY <1>3 DEF DeleteAll
<1>4. CASE ~DeleteAll(r) /\ \E y \in profiles : Same(x, y)
  <2>1. PICK y \in profiles : Same(x, y)
    BY <1>4
  <2>2. y.id = x.id /\ y.bu = x.bu /\ y.person = x.person
    BY <2>1 DEF Same
  <2>3. /\ x.id \in Requests /\ pc[x.id] # "idle" /\ MadeBy(x, x.id)
        /\ mrole[<<x.bu, x.person>>] # "none" \/ pc[x.id] \in {"lookup", "member"}
           \/ x.id \in faulted
    <3>1. x.id \in Requests /\ pc[x.id] # "idle" /\ MadeBy(y, x.id) /\ Placed(y)
      BY <1>0, <1>4, <2>2 DEF ProfileRows, Gaps
    <3> QED BY <2>2, <3>1 DEF MadeBy, Placed
  <2>4. <<x.bu, x.person>> \in Pairs
    <3>1. y.bu \in Ids /\ y.person \in Ids
      BY <1>0 DEF TInv, TypeOK, Profile
    <3> QED BY <2>2, <3>1 DEF Pairs
  <2>5. CASE mrole[<<x.bu, x.person>>] # "none"
    BY <1>2, <2>4, <2>5 DEF ChatGrows, Placed
  <2>6. CASE x.id \in faulted
    BY <1>2, <2>6 DEF Placed
  <2>7. CASE pc[x.id] \in {"lookup", "member"} /\ x.id # r
    BY <1>1, <2>3, <2>7 DEF Moved, Placed
  <2>8. CASE Fail(r) /\ x.id = r
    BY <1>0, <2>8, FailFaults DEF Placed
  <2>9. CASE LookupWorkspace(r) /\ x.id = r
    <3>1. pc[r] = "lookup"
      BY <2>9 DEF LookupWorkspace
    <3>2. arg[r].op \in {"create_staff", "enroll"} /\ x.bu = arg[r].b
      BY <2>3, <2>9, <3>1 DEF MadeBy, Ended
    <3>3. x.bu \in wss
      <4>1. PICK c \in companies : [id |-> x.bu, company |-> c] \in bus
        BY <1>0, <2>2 DEF ProfilesWithinCompany, HasUnit
      <4>2. CASE x.bu = Seed
        BY <1>0, <1>1, <4>2 DEF UpWhileActive, Provisioned
      <4>3. CASE x.bu # Seed
        BY <1>0, <4>1, <4>3 DEF Provisioned
      <4> QED BY <4>2, <4>3
    <3>4. Goto(r, "member")
      BY <2>9, <3>2, <3>3 DEF LookupWorkspace
    <3> QED BY <1>0, <1>s, <2>9, <3>4, GotoMoves DEF TInv, Placed
  <2>10. CASE AddStaffMember(r) /\ x.id = r
    <3>1. pc[r] = "member"
      BY <2>10 DEF AddStaffMember
    <3>2. x.bu = arg[r].b /\ x.person = arg[r].p
      BY <2>3, <2>10, <3>1 DEF MadeBy, Ended
    <3>3. arg[r].b \in Ids /\ arg[r].p \in Ids
      BY <1>0, <1>1 DEF TInv, Begun, Call
    <3>4. Upsert(arg[r].b, arg[r].p, "Member")
      BY <2>10 DEF AddStaffMember
    <3>5. mrole'[<<arg[r].b, arg[r].p>>] # "none"
      BY <1>0, <3>3, <3>4, UpsertType DEF TInv
    <3> QED BY <3>2, <3>5 DEF Placed
  <2> QED BY <2>3, <2>5, <2>6, <2>7, <2>8, <2>9, <2>10, AtStep
<1>5. CASE x = SeedProfile
  BY <1>5 DEF SeedProfile
<1>6. CASE x.id = r /\ (pc'[r] = "lookup" \/ (pc'[r] = "error" /\ r \in faulted'))
  BY <1>6 DEF Placed
<1>7. CASE x.id = r /\ x.person = r /\ x.bu = r /\ Commit(r) /\ arg[r].op = "onboard"
  <2>1. mrole[<<r, arg[r].p>>] # "none" /\ arg[r].p = r
    BY <1>0, <1>1, <1>7 DEF Commit, Provisioned, Phases, Asked
  <2>2. <<r, r>> \in Pairs
    BY IdTypes DEF Pairs
  <2>3. mrole'[<<r, r>>] # "none"
    BY <1>2, <2>1, <2>2 DEF ChatGrows
  <2> QED BY <1>7, <2>3 DEF Placed
<1> QED BY <1>0, <1>3, <1>4, <1>5, <1>6, <1>7, StepProfiles

LEMMA NextNamed == GInv /\ [Next]_vars => GInv'
<1> SUFFICES ASSUME GInv, [Next]_vars PROVE RowsNamed' /\ Gaps'
  BY NextKeyed, NextProvisioned DEF GInv, PInv, KInv
<1>0. /\ TInv /\ UpWhileActive /\ PersonRows /\ ProfileRows /\ Gaps
  BY DEF GInv, KInv, RInv, RowsNamed
<1>e. "idle" \notin Active /\ "error" \notin Active /\ (\A s \in Ended : s \notin Active)
       /\ "error" \in Ended
  BY DEF Active, Ended
<1>1. CASE UNCHANGED vars
  <2>1. UNCHANGED <<persons, profiles, mrole, boot, pc, arg, faulted>>
    BY <1>1 DEF vars, maindb, chatdb, history
  <2>2. RowsNamed'
    BY <1>0, <2>1 DEF RowsNamed, UpWhileActive, PersonRows, ProfileRows, MadeBy
  <2>3. Gaps'
    BY <1>0, <2>1 DEF Gaps, HasProfile, Placed
  <2> QED BY <2>2, <2>3
<1>2. CASE BootGet \/ BootCreate \/ BootAdmin
  <2>1. UNCHANGED <<persons, profiles, pc, arg, faulted>>
    BY <1>2 DEF BootGet, BootCreate, BootAdmin, maindb, history
  <2>2. \A q \in Requests : pc[q] \notin Active
    BY <1>0, <1>2 DEF UpWhileActive, BootGet, BootCreate, BootAdmin
  <2>3. \A z \in Pairs : mrole[z] # "none" => mrole'[z] # "none"
    <3>1. CASE BootAdmin
      BY <1>0, <3>1, IdTypes, UpsertType DEF BootAdmin, TInv
    <3>2. CASE BootGet \/ BootCreate
      BY <3>2 DEF BootGet, BootCreate, chatdb
    <3> QED BY <1>2, <3>1, <3>2
  <2>4. RowsNamed'
    BY <1>0, <2>1, <2>2 DEF RowsNamed, UpWhileActive, PersonRows, ProfileRows, MadeBy
  <2>5. \A x \in profiles : <<x.bu, x.person>> \in Pairs
    BY <1>0 DEF TInv, TypeOK, Profile, Pairs
  <2>6. Gaps'
    BY <1>0, <2>1, <2>3, <2>5 DEF Gaps, HasProfile, Placed
  <2> QED BY <2>4, <2>6
<1>3. CASE Crash
  <2>1. \A q \in Requests : pc'[q] = pc[q] \/ (pc[q] \in Active /\ pc'[q] = "error")
    BY <1>0, <1>3, CrashMoves
  <2>2. /\ UNCHANGED <<persons, profiles, mrole, arg>>
        /\ faulted' = faulted \cup {q \in Requests : pc[q] \in Active}
        /\ \A q \in Requests : pc'[q] \notin Active
    BY <1>3, <1>e DEF Crash, maindb, chatdb, TypeOK, TInv
  <2>3. \A q \in Requests : pc[q] # "idle" => pc'[q] # "idle"
    BY <2>1
  <2>4. \A q \in Requests : pc[q] \in Ended => pc'[q] = pc[q]
    BY <1>e, <2>1
  <2>5. UpWhileActive' /\ PersonRows'
    BY <1>0, <2>2, <2>3 DEF UpWhileActive, PersonRows
  <2>6. ProfileRows'
    BY <1>0, <2>2, <2>3, <2>4 DEF ProfileRows, MadeBy
  <2>7. \A row \in persons : row.id # Seed => HasProfile(row.id)'
    <3> SUFFICES ASSUME NEW row \in persons, row.id # Seed PROVE HasProfile(row.id)'
      OBVIOUS
    <3>1. HasProfile(row.id) /\ row.id \in Requests
      BY <1>0 DEF Gaps, PersonRows
    <3> QED BY <2>1, <2>2, <3>1 DEF HasProfile
  <2>8. \A x \in profiles : x.id # Seed => Placed(x)'
    <3> SUFFICES ASSUME NEW x \in profiles, x.id # Seed PROVE Placed(x)'
      OBVIOUS
    <3>1. Placed(x) /\ x.id \in Requests
      BY <1>0 DEF Gaps, ProfileRows
    <3>2. "lookup" \in Active /\ "member" \in Active
      BY DEF Active
    <3> QED BY <2>2, <3>1, <3>2 DEF Placed
  <2> QED BY <2>2, <2>5, <2>6, <2>7, <2>8 DEF RowsNamed, Gaps
<1>4. ASSUME NEW r \in Requests, Start(r) PROVE RowsNamed' /\ Gaps'
  <2>1. Begins(r) /\ boot = "up"
    BY <1>0, <1>4, StartMoves DEF Start, BeginOnboard, BeginCreateBu, BeginCreateStaff,
       BeginEnroll, BeginUpdateRole, BeginUpdateAccess, BeginReset, Begin
  <2>2. /\ UNCHANGED <<persons, profiles, mrole, boot, faulted>>
        /\ pc[r] = "idle"
        /\ \A q \in Requests : pc[q] # "idle" => pc'[q] = pc[q] /\ arg'[q] = arg[q]
    BY <2>1 DEF Begins, maindb, chatdb, history
  <2>3. RowsNamed'
    BY <1>0, <1>e, <2>1, <2>2 DEF RowsNamed, UpWhileActive, PersonRows, ProfileRows, MadeBy
  <2>4. \A row \in persons : row.id # Seed => pc'[row.id] = pc[row.id]
    BY <1>0, <2>2 DEF PersonRows
  <2>5. \A x \in profiles : x.id # Seed => pc'[x.id] = pc[x.id]
    BY <1>0, <2>2 DEF ProfileRows
  <2>6. Gaps'
    BY <1>0, <2>2, <2>4, <2>5 DEF Gaps, HasProfile, Placed
  <2> QED BY <2>3, <2>6
<1>5. ASSUME NEW r \in Requests, Step(r) \/ Fail(r) PROVE RowsNamed' /\ Gaps'
  BY <1>5, StepNamed, StepHasProfile, StepPlaced DEF Gaps
<1> QED BY <1>1, <1>2, <1>3, <1>4, <1>5 DEF Next

(* Staff operations commit person, profile and membership one by one: a     *)
(* person without a profile, or a profile without a membership, is the work *)
(* of a request still running or one that met a fault; the lookup of the    *)
(* workspace before the membership never comes up empty.                    *)
THEOREM GapsAreExplained == Spec => []StaffGapsExplained
<1>1. GInv => StaffGapsExplained
  BY DEF GInv, Gaps, HasProfile, Placed, StaffGapsExplained
<1> QED BY InitNamed, NextNamed, <1>1, PTL DEF Spec

-----------------------------------------------------------------------------
(* What a reset leaves.                                                     *)

(* Only resets are at a reset's steps, and they are nowhere else.           *)
ResetPhase ==
    \A r \in Requests : pc[r] # "idle" =>
      (arg[r].op = "reset" <=> pc[r] \in ResetPcs) \/ pc[r] \in Ended

SeedStaff == \E x \in profiles : x.bu = Seed /\ x.email = SeedEmail

(* The seeded rows while reset r, the only one and without a fault, is on   *)
(* its way: what it deleted stays away until it inserts it, and what it     *)
(* inserted stays.                                                          *)
Restoring(r) ==
    /\ pc[r] = "ins_company" => Seed \notin companies
    /\ pc[r] \in {"ins_bu", "ins_person"} => Seed \in companies
    /\ pc[r] \in {"ins_company", "ins_bu"} => ~HasRow(bus, Seed)
    /\ pc[r] \in {"ins_company", "ins_bu", "ins_person"} => ~HasRow(persons, Seed)
    /\ pc[r] \in {"ins_company", "ins_bu", "ins_person", "ins_profile"} =>
         ~HasRow(profiles, Seed)
    /\ pc[r] \in {"ins_person", "ins_profile"} => SeedUnit \in bus
    /\ pc[r] = "ins_profile" => SeedUnit \in persons
    /\ pc[r] \in {"del_msgs"} \cup Ended => SeedPresent

LoneReset == \A r \in Resets : Resets = {r} /\ r \notin faulted => Restoring(r)

LInv == TInv /\ Phases /\ ResetPhase /\ LoneReset

LEMMA InitRestored == Init => LInv
<1> SUFFICES ASSUME Init PROVE LInv
  OBVIOUS
<1>1. TInv /\ Phases
  BY InitProvisioned DEF PInv, RInv
<1>2. ResetPhase
  BY DEF Init, ResetPhase
<1>3. Resets = {}
  BY DEF Init, Resets
<1>4. LoneReset
  BY <1>3 DEF LoneReset
<1> QED BY <1>1, <1>2, <1>4 DEF LInv

(* Where the steps of a reset lead, and where the others do not.            *)
LEMMA StepResets ==
    ASSUME TInv, Phases, ResetPhase, NEW r \in Requests, Step(r) \/ Fail(r)
    PROVE  ResetPhase'
<1>1. Moved(r) /\ pc[r] \in Active /\ pc[r] \notin Ended /\ pc[r] # "idle"
  BY StepMoves, StepActive DEF Moved
<1>2. \A q \in Requests : arg'[q].op = arg[q].op
  BY StepKeepsCall
<1>3. \A q \in Requests : q # r => pc'[q] = pc[q]
  BY <1>1 DEF Moved
<1>4. CASE pc[r] \in ResetPcs
  <2>1. \A s \in ResetPcs \cup {"done"} : s \in PCs
    BY DEF PCs, Active, Ended, ResetPcs
  <2>2. \A s \in PCs : Answered(r, s) => pc'[r] \in {s, "error"}
    BY AnsweredMoves DEF TInv
  <2>3. Reject(r) \/ Fail(r) => pc'[r] = "error"
    BY RejectMoves, FailFaults DEF TInv
  <2>4. \/ Fail(r) \/ DeleteAll(r) \/ InsertSeedCompany(r) \/ InsertSeedUnit(r)
        \/ InsertSeedPerson(r) \/ InsertSeedProfile(r) \/ DeleteMessages(r)
    BY <1>4, AtStep DEF ResetPcs
  <2>5. pc'[r] \in ResetPcs \cup Ended
    BY <2>1, <2>2, <2>3, <2>4 DEF ResetPcs, Ended, DeleteAll, InsertSeedCompany,
      InsertSeedUnit, InsertSeedPerson, InsertSeedProfile, DeleteMessages
  <2>6. arg[r].op = "reset"
    BY <1>1, <1>4 DEF ResetPhase
  <2> QED BY <1>2, <1>3, <2>5, <2>6 DEF ResetPhase
<1>5. CASE pc[r] \notin ResetPcs
  <2>1. arg[r].op # "reset"
    BY <1>1, <1>5 DEF ResetPhase
  <2>2. pc'[r] \notin ResetPcs
    <3>1. \A s \in {"ws", "commit", "admin", "who", "dup", "person", "profile", "lookup",
                    "member", "access", "role_write", "done", "error"} :
            s \in PCs /\ s \notin ResetPcs
      BY DEF PCs, Active, Ended, ResetPcs
    <3>2. \A s \in PCs : Answered(r, s) => pc'[r] \in {s, "error"}
      BY AnsweredMoves DEF TInv
    <3>3. \A s \in PCs : Goto(r, s) => pc'[r] = s
      BY GotoMoves DEF TInv
    <3>4. Reject(r) \/ Fail(r) => pc'[r] = "error"
      BY RejectMoves, FailFaults DEF TInv
    <3>5. ~(\/ DeleteAll(r) \/ InsertSeedCompany(r) \/ InsertSeedUnit(r)
            \/ InsertSeedPerson(r) \/ InsertSeedProfile(r) \/ DeleteMessages(r))
      BY <1>5 DEF ResetPcs, DeleteAll, InsertSeedCompany, InsertSeedUnit, InsertSeedPerson,
        InsertSeedProfile, DeleteMessages
    <3>6. CASE TxInsert(r) \/ FindUnit(r) \/ FindPerson(r) \/ FindDuplicate(r)
               \/ LookupWorkspace(r)
      BY <3>1, <3>3, <3>4, <3>6 DEF TxInsert, FindUnit, FindPerson, FindDuplicate,
        LookupWorkspace
    <3>7. CASE CreateWorkspace(r) \/ AddAdmin(r) \/ Commit(r) \/ AddStaffMember(r) \/ SetAccess(r)
               \/ InsertPerson(r) \/ InsertProfile(r) \/ WriteRole(r)
      BY <3>1, <3>2, <3>4, <3>7 DEF CreateWorkspace, AddAdmin, Commit, AddStaffMember,
        SetAccess, InsertPerson, InsertProfile, WriteRole
    <3>8. CASE ReadProfile(r)
      BY <3>1, <3>3, <3>4, <3>8 DEF ReadProfile
    <3>9. CASE Fail(r)
      BY <3>1, <3>4, <3>9
    <3> QED BY <3>5, <3>6, <3>7, <3>8, <3>9 DEF Step
  <2> QED BY <1>2, <1>3, <2>1, <2>2 DEF ResetPhase
<1> QED BY <1>4, <1>5

(* A request that is no reset neither removes the seeded rows nor adds them. *)
LEMMA StepLeavesSeed ==
    ASSUME TInv, NEW q \in Requests, Step(q) \/ Fail(q), pc[q] \notin ResetPcs
    PROVE  /\ Seed \in companies <=> Seed \in companies'
           /\ HasRow(bus', Seed) => HasRow(bus, Seed)
           /\ HasRow(persons', Seed) => HasRow(persons, Seed)
           /\ HasRow(profiles', Seed) => HasRow(profiles, Seed)
           /\ bus \subseteq bus' /\ persons \subseteq persons'
           /\ SeedStaff => SeedStaff'
<1>0. q # Seed /\ ~DeleteAll(q)
  BY SeedAssumption DEF DeleteAll, ResetPcs
<1>1. bus \subseteq bus' /\ persons \subseteq persons' /\ companies \subseteq companies'
  BY <1>0, StepMain DEF MainGrows
<1>2. Seed \in companies' => Seed \in companies
  BY <1>0 DEF Step, Fail, TxInsert, CreateWorkspace, AddAdmin, Commit, FindUnit, FindPerson,
     FindDuplicate, InsertPerson, InsertProfile, LookupWorkspace, AddStaffMember, SetAccess,
     ReadProfile, WriteRole, InsertSeedCompany, InsertSeedUnit, InsertSeedPerson,
     InsertSeedProfile, DeleteMessages, maindb, ResetPcs
<1>3. \A row \in bus' : row \in bus \/ row.id = q
  <2>1. \A row \in bus' : row \in bus \/ row.id = q \/ InsertSeedUnit(q)
    BY <1>0 DEF Step, Fail, TxInsert, CreateWorkspace, AddAdmin, Commit, FindUnit, FindPerson,
     FindDuplicate, InsertPerson, InsertProfile, LookupWorkspace, AddStaffMember, SetAccess,
     ReadProfile, WriteRole, InsertSeedCompany, InsertSeedPerson,
     InsertSeedProfile, DeleteMessages, maindb
  <2> QED BY <2>1 DEF InsertSeedUnit, ResetPcs
<1>4. \A row \in persons' : row \in persons \/ row.id = q
  BY StepPersons DEF ResetPcs
<1>5. \A x \in profiles' : x.id = q \/ \E y \in profiles : Same(x, y)
  BY <1>0, StepProfiles DEF ResetPcs
<1>6. SeedStaff => SeedStaff'
  <2>1. \A y \in profiles : \E x \in profiles' : Same(x, y)
    BY <1>0, StepProfiles
  <2> QED BY <2>1 DEF SeedStaff, Same
<1>7. HasRow(bus', Seed) => HasRow(bus, Seed)
  BY <1>0, <1>3 DEF HasRow
<1>8. HasRow(persons', Seed) => HasRow(persons, Seed)
  BY <1>0, <1>4 DEF HasRow
<1>9. HasRow(profiles', Seed) => HasRow(profiles, Seed)
  BY <1>0, <1>5 DEF HasRow, Same
<1> QED BY <1>1, <1>2, <1>6, <1>7, <1>8, <1>9

(* The reset's own steps.                                                   *)
LEMMA ResetRestores ==
    ASSUME TInv, NEW r \in Requests, Step(r) \/ Fail(r), pc[r] \in ResetPcs,
           Restoring(r), r \notin faulted'
    PROVE  Restoring(r)'
<1>1. \A s \in ResetPcs \cup {"done"} : s \in PCs
  BY DEF PCs, Active, Ended, ResetPcs
<1>2. \A s \in PCs : Answered(r, s) => pc'[r] = s
  BY AnsweredOrFaulted
<1>3. Reject(r) => pc'[r] = "error"
  BY RejectMoves DEF TInv
<1>4. ~Fail(r)
  BY FailFaults
<1>5. CASE pc[r] = "del"
  <2>1. DeleteAll(r)
    BY <1>4, <1>5, AtStep
  <2>2. pc'[r] = "ins_company"
    BY <1>1, <1>2, <2>1 DEF DeleteAll, ResetPcs
  <2> QED BY <2>1, <2>2 DEF DeleteAll, Restoring, HasRow, Ended
<1>6. CASE pc[r] = "ins_company"
  <2>1. InsertSeedCompany(r) /\ Seed \notin companies
    BY <1>4, <1>6, AtStep DEF Restoring
  <2>2. pc'[r] = "ins_bu" /\ Seed \in companies'
    BY <1>1, <1>2, <2>1 DEF InsertSeedCompany, ResetPcs
  <2>3. UNCHANGED <<bus, persons, profiles>>
    BY <2>1 DEF InsertSeedCompany
  <2> QED BY <1>6, <2>2, <2>3 DEF Restoring, HasRow, Ended
<1>7. CASE pc[r] = "ins_bu"
  <2>1. InsertSeedUnit(r) /\ Seed \in companies /\ ~HasRow(bus, Seed)
    BY <1>4, <1>7, AtStep DEF Restoring
  <2>2. pc'[r] = "ins_person" /\ SeedUnit \in bus'
    BY <1>1, <1>2, <2>1 DEF InsertSeedUnit, ResetPcs
  <2>3. UNCHANGED <<companies, persons, profiles>>
    BY <2>1 DEF InsertSeedUnit
  <2> QED BY <1>7, <2>1, <2>2, <2>3 DEF Restoring, HasRow, Ended
<1>8. CASE pc[r] = "ins_person"
  <2>1. InsertSeedPerson(r) /\ Seed \in companies /\ ~HasRow(persons, Seed)
    BY <1>4, <1>8, AtStep DEF Restoring
  <2>2. pc'[r] = "ins_profile" /\ SeedUnit \in persons'
    BY <1>1, <1>2, <2>1 DEF InsertSeedPerson, ResetPcs
  <2>3. UNCHANGED <<bus, profiles>>
    BY <2>1 DEF InsertSeedPerson
  <2> QED BY <1>8, <2>2, <2>3 DEF Restoring, HasRow, Ended
<1>9. CASE pc[r] = "ins_profile"
  <2>1. InsertSeedProfile(r) /\ UNCHANGED <<bus, persons>>
    BY <1>4, <1>9, AtStep DEF InsertSeedProfile
  <2>2. SeedUnit \in bus /\ SeedUnit \in persons /\ ~HasRow(profiles, Seed)
    BY <1>9 DEF Restoring
  <2>3. HasRow(bus, Seed) /\ HasRow(persons, Seed)
    BY <2>2 DEF HasRow, SeedUnit
  <2>4. SeedStaff'
    <3>1. CASE \E row \in profiles : row.bu = Seed /\ row.email = SeedEmail
      BY <2>1, <3>1 DEF InsertSeedProfile, SeedStaff
    <3>2. CASE \A row \in profiles : ~(row.bu = Seed /\ row.email = SeedEmail)
      <4>1. SeedProfile \in profiles'
        BY <2>1, <2>2, <2>3, <3>2 DEF InsertSeedProfile
      <4> QED BY <4>1 DEF SeedStaff, SeedProfile
    <3> QED BY <3>1, <3>2
  <2>5. SeedPresent'
    BY <2>1, <2>2, <2>4 DEF SeedPresent, SeedStaff
  <2>6. pc'[r] \in {"del_msgs", "error"}
    BY <1>1, <1>2, <1>3, <2>1 DEF InsertSeedProfile, ResetPcs
  <2> QED BY <2>5, <2>6 DEF Restoring
<1>10. CASE pc[r] = "del_msgs"
  <2>1. DeleteMessages(r)
    BY <1>4, <1>10, AtStep
  <2>2. pc'[r] = "done" /\ UNCHANGED <<bus, persons, profiles>>
    BY <1>1, <1>2, <2>1 DEF DeleteMessages, maindb
  <2>3. SeedPresent
    BY <1>10 DEF Restoring
  <2> QED BY <2>2, <2>3 DEF Restoring, SeedPresent
<1> QED BY <1>5, <1>6, <1>7, <1>8, <1>9, <1>10 DEF ResetPcs

(* Whoever else moves, the reset finds the seeded rows as it left them.      *)
LEMMA OthersLeaveSeed ==
    ASSUME TInv, NEW q \in Requests, Step(q) \/ Fail(q), pc[q] \notin ResetPcs,
           NEW r \in Requests, pc'[r] = pc[r], Restoring(r)
    PROVE  Restoring(r)'
<1>1. /\ Seed \in companies <=> Seed \in companies'
      /\ HasRow(bus', Seed) => HasRow(bus, Seed)
      /\ HasRow(persons', Seed) => HasRow(persons, Seed)
      /\ HasRow(profiles', Seed) => HasRow(profiles, Seed)
      /\ SeedUnit \in bus => SeedUnit \in bus'
      /\ SeedUnit \in persons => SeedUnit \in persons'
      /\ SeedStaff => SeedStaff'
  BY StepLeavesSeed
<1>2. SeedPresent => SeedPresent'
  BY <1>1 DEF SeedPresent, SeedStaff
<1>3. SeedUnit' = SeedUnit
  BY DEF SeedUnit
<1> QED BY <1>1, <1>2, <1>3 DEF Restoring

LEMMA StepRestored ==
    ASSUME LInv, NEW q \in Requests, Step(q) \/ Fail(q)
    PROVE  LoneReset'
<1> SUFFICES ASSUME NEW r \in Resets', Resets' = {r}, r \notin faulted' PROVE Restoring(r)'
  BY DEF LoneReset
<1>0. TInv /\ Phases /\ ResetPhase /\ LoneReset
  BY DEF LInv
<1>1. Moved(q) /\ pc[q] \notin Ended /\ pc[q] # "idle"
  BY <1>0, StepMoves, StepActive DEF Moved
<1>2. /\ \A p \in Requests : p # q => pc'[p] = pc[p]
      /\ \A p \in Requests : arg'[p].op = arg[p].op
      /\ pc'[q] # "idle"
  BY <1>0, <1>1, StepKeepsCall, StepBegun DEF Moved
<1>3. \A p \in Requests : p \in Resets <=> p \in Resets'
  BY <1>1, <1>2 DEF Resets
<1>4. r \in Requests /\ r \in Resets /\ Resets = {r}
  BY <1>3 DEF Resets
<1>5. r \notin faulted
  BY StepFaults
<1>6. Restoring(r)
  BY <1>0, <1>4, <1>5 DEF LoneReset
<1>7. CASE q = r
  <2>1. pc[r] \in ResetPcs
    BY <1>0, <1>1, <1>4, <1>7 DEF ResetPhase, Resets
  <2> QED BY <1>0, <1>4, <1>6, <1>7, <2>1, ResetRestores
<1>8. CASE q # r
  <2>1. arg[q].op # "reset"
    BY <1>1, <1>4, <1>8 DEF Resets
  <2>2. pc[q] \notin ResetPcs
    BY <1>0, <1>1, <2>1 DEF ResetPhase
  <2> QED BY <1>0, <1>2, <1>4, <1>6, <1>8, <2>2, OthersLeaveSeed
<1> QED BY <1>7, <1>8

(* A step that leaves the main database and a request alone.                *)
LEMMA StillRestoring ==
    ASSUME NEW r, UNCHANGED maindb, pc'[r] = pc[r], Restoring(r)
    PROVE  Restoring(r)'
<1>1. UNCHANGED <<companies, bus, persons, profiles>>
  BY DEF maindb
<1>2. HasRow(bus, Seed)' = HasRow(bus, Seed) /\ HasRow(persons, Seed)' = HasRow(persons, Seed)
       /\ HasRow(profiles, Seed)' = HasRow(profiles, Seed) /\ SeedPresent' = SeedPresent
  BY <1>1 DEF HasRow, SeedPresent
<1> QED BY <1>1, <1>2 DEF Restoring

LEMMA NextRestored == LInv /\ [Next]_vars => LInv'
<1> SUFFICES ASSUME LInv, [Next]_vars PROVE ResetPhase' /\ LoneReset'
  BY NextPhases DEF LInv, RInv
<1>0. TInv /\ Phases /\ ResetPhase /\ LoneReset
  BY DEF LInv
<1>1. CASE UNCHANGED vars \/ BootGet \/ BootCreate \/ BootAdmin
  <2>1. UNCHANGED maindb /\ UNCHANGED <<pc, arg, faulted>>
    BY <1>1 DEF vars, BootGet, BootCreate, BootAdmin, history
  <2>2. ResetPhase' /\ Resets' = Resets
    BY <1>0, <2>1 DEF ResetPhase, Resets
  <2> QED BY <1>0, <2>1, <2>2, StillRestoring DEF LoneReset
<1>2. CASE Crash
  <2>1. \A q \in Requests : pc'[q] = pc[q] \/ (pc[q] \in Active /\ pc'[q] = "error")
    BY <1>0, <1>2, CrashMoves
  <2>2. /\ UNCHANGED maindb /\ UNCHANGED arg
        /\ faulted' = faulted \cup {q \in Requests : pc[q] \in Active}
    BY <1>2 DEF Crash
  <2>3. "error" \in Ended /\ "idle" \notin Active
    BY DEF Active, Ended
  <2>4. ResetPhase'
    BY <1>0, <2>1, <2>2, <2>3 DEF ResetPhase
  <2>5. Resets' = Resets
    BY <2>1, <2>2, <2>3 DEF Resets
  <2>6. LoneReset'
    <3> SUFFICES ASSUME NEW r \in Resets', Resets' = {r}, r \notin faulted' PROVE Restoring(r)'
      BY DEF LoneReset
    <3>1. pc'[r] = pc[r] /\ r \notin faulted /\ r \in Requests
      BY <2>1, <2>2 DEF Resets
    <3> QED BY <1>0, <2>2, <2>5, <3>1, StillRestoring DEF LoneReset
  <2> QED BY <2>4, <2>6
<1>3. ASSUME NEW q \in Requests, Start(q) PROVE ResetPhase' /\ LoneReset'
  <2>1. Begins(q) /\ pc'[q] = First(arg'[q].op) /\ arg'[q].op \in Ops
    BY <1>0, <1>3, StartMoves DEF Begins, Call
  <2>2. /\ UNCHANGED maindb /\ UNCHANGED faulted /\ pc[q] = "idle"
        /\ \A p \in Requests : p # q => pc'[p] = pc[p] /\ arg'[p] = arg[p]
    BY <2>1 DEF Begins, history
  <2>3. /\ arg'[q].op = "reset" <=> pc'[q] \in ResetPcs
        /\ pc'[q] \in ResetPcs => pc'[q] = "del"
    BY <2>1 DEF First, ResetPcs, Ops
  <2>4. ResetPhase'
    BY <1>0, <2>2, <2>3 DEF ResetPhase
  <2>5. LoneReset'
    <3> SUFFICES ASSUME NEW r \in Resets', Resets' = {r}, r \notin faulted' PROVE Restoring(r)'
      BY DEF LoneReset
    <3>1. CASE r = q
      <4>1. pc'[r] = "del"
        BY <2>3, <3>1 DEF Resets
      <4> QED BY <4>1 DEF Restoring, Ended
    <3>2. CASE r # q
      <4>1. r \in Resets /\ r \in Requests
        BY <2>2, <3>2 DEF Resets
      <4>2. \A p \in Requests : p \in Resets => p \in Resets'
        BY <2>2 DEF Resets
      <4>3. Resets = {r}
        BY <4>1, <4>2 DEF Resets
      <4>4. Restoring(r)
        BY <1>0, <2>2, <4>1, <4>3 DEF LoneReset
      <4> QED BY <2>2, <3>2, <4>1, <4>4, StillRestoring
    <3> QED BY <3>1, <3>2
  <2> QED BY <2>4, <2>5
<1>4. ASSUME NEW q \in Requests, Step(q) \/ Fail(q) PROVE ResetPhase' /\ LoneReset'
  BY <1>0, <1>4, StepResets, StepRestored
<1> QED BY <1>1, <1>2, <1>3, <1>4 DEF Next

(* A reset that meets no other reset and no fault leaves the seeded unit,   *)
(* person and a profile with the seeded e-mail, although its DELETE and its *)
(* inserts are not one transaction and other requests run in between.       *)
THEOREM LoneResetsRestore == Spec => []LoneResetRestores
<1>1. LInv => LoneResetRestores
  BY DEF LInv, LoneReset, Restoring, LoneResetRestores
<1> QED BY InitRestored, NextRestored, <1>1, PTL DEF Spec
=============================================================================
