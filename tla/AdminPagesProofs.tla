-------------------------- MODULE AdminPagesProofs --------------------------
(***************************************************************************)
(* Proofs about AdminPages: its types, that a page whose calls are over    *)
(* shows what the backend holds, and that a profile announced as added is  *)
(* there and is listed.                                                    *)
(***************************************************************************)
EXTENDS AdminPages, TLAPS

-----------------------------------------------------------------------------
(* Types.  What a call of each kind names, what it may be a refetch for,    *)
(* and what it has brought when it is answered.                             *)
Enrols(c) == c.op \in {"create", "enroll"} \/ c.for \in {"create", "enroll"}
Brought(c) == /\ c.op \in {"staff_list", "staff_page", "persons"} => c.table # None
              /\ c.op \in {"staff_list", "bus_list"} \cup Pages => c.list # None
              /\ c.op = "workspace" => c.who # None
GoodCalls ==
    {c \in Calls :
        /\ Enrols(c) \/ c.op \in {"role", "access"} => c.p \in Persons /\ c.u \in Units
        /\ c.op \in {"unit", "workspace"} => c.u \in Units
        /\ c.op \in {"create", "enroll", "role"} => c.v \in Given
        /\ c.op = "access" => c.v \in {"yes", "no"}
        /\ c.op \in Writes \cup Pages \cup {"persons", "workspace", "reset"} => c.for = "none"
        /\ c.op = "staff_list" => c.for \in {"create", "enroll"}
        /\ c.op = "bus_list" => c.for \in {"none", "unit"}
        /\ c.state = "ok" => Brought(c)}

CallTypes    == calls \in [1..AtOnce -> GoodCalls \cup {None}]
BackendTypes == /\ company \in BOOLEAN /\ units \subseteq Units /\ role \in Tables
                /\ chat \in [Cells -> Members \cup {"none"}] /\ lost \subseteq Cells
StoreTypes   == /\ staff \in Tables /\ staffBus \subseteq Units /\ persons \subseteq Persons
                /\ bus \subseteq Units /\ members \in [Units -> Listings \cup {None}]
PageTypes    == /\ view \in Views /\ sel \in Units \cup {None} /\ modals \subseteq Dialogs
                /\ spin \in Persons \cup {None} /\ added \in Cells \cup {None}
NoteTypes    == /\ made \in 0..MaxSteps /\ others \in 0..MaxOthers
                /\ stale \subseteq All
CacheTypes   == kept \in Payloads
TInv == CallTypes /\ BackendTypes /\ StoreTypes /\ PageTypes /\ CacheTypes /\ NoteTypes

LEMMA PendingCall ==
    ASSUME CallTypes, NEW i \in Pending PROVE i \in 1..AtOnce /\ calls[i] \in GoodCalls
  BY DEF CallTypes, Pending

LEMMA GoodIsSome == ASSUME NEW c \in GoodCalls PROVE c # None /\ c \in Calls
  BY AbsentAssumption DEF GoodCalls

(* The calls the pages make.                                                *)
LEMMA SentIsGood ==
    ASSUME NEW c \in Calls, c.state = "sent", c.for = "none", c.op # "staff_list",
           c.op \in {"create", "enroll", "role", "access"} => c.p \in Persons /\ c.u \in Units,
           c.op \in {"unit", "workspace"} => c.u \in Units,
           c.op \in {"create", "enroll", "role"} => c.v \in Given,
           c.op = "access" => c.v \in {"yes", "no"}
    PROVE  c \in GoodCalls
  BY DEF GoodCalls, Enrols

LEMMA PlainIsCall == ASSUME NEW op \in Reads \cup Writes \cup {"reset"} PROVE Plain(op) \in Calls
  BY DEF Plain, Calls

LEMMA FilledIn ==
    ASSUME NEW c \in Calls, NEW p \in Persons, NEW u \in Units, NEW row \in Units,
           NEW v \in Given \cup {"yes", "no"}
    PROVE  /\ [c EXCEPT !.p = p, !.u = u, !.v = v] \in Calls
           /\ [c EXCEPT !.p = p, !.u = u, !.row = row, !.v = v] \in Calls
<1> DEFINE d == [c EXCEPT !.p = p, !.u = u]
<1>1. d \in Calls
  BY DEF Calls
<1>2. \A e \in Calls : [e EXCEPT !.v = v] \in Calls /\ [e EXCEPT !.row = row] \in Calls
  BY DEF Calls
<1>3. /\ [c EXCEPT !.p = p, !.u = u, !.v = v] = [d EXCEPT !.v = v]
      /\ [c EXCEPT !.p = p, !.u = u, !.row = row, !.v = v] = [[d EXCEPT !.row = row] EXCEPT !.v = v]
  OBVIOUS
<1> QED
  BY <1>1, <1>2, <1>3

LEMMA ReadsAreGood ==
    /\ Plain("persons") \in GoodCalls /\ Plain("bus_list") \in GoodCalls
    /\ Plain("reset") \in GoodCalls /\ \A v : Plain(PageOf(v)) \in GoodCalls
    /\ \A u \in Units : [Plain("workspace") EXCEPT !.u = u] \in GoodCalls
<1>1. ASSUME NEW op \in {"persons", "bus_list", "reset", "staff_page", "units_page"}
      PROVE  Plain(op) \in GoodCalls
  <2>1. Plain(op) \in Calls
    BY PlainIsCall DEF Reads, Pages
  <2>2. Plain(op).op = op /\ Plain(op).for = "none" /\ Plain(op).state = "sent"
    BY DEF Plain
  <2> QED
    BY <2>1, <2>2, SentIsGood
<1>2. ASSUME NEW u \in Units PROVE [Plain("workspace") EXCEPT !.u = u] \in GoodCalls
  <2> DEFINE d == [Plain("workspace") EXCEPT !.u = u]
  <2>1. d \in Calls
    BY PlainIsCall DEF Calls, Reads
  <2>2. d.op = "workspace" /\ d.for = "none" /\ d.state = "sent" /\ d.u = u
    BY DEF Plain
  <2> HIDE DEF d
  <2>3. d \in GoodCalls
    BY <2>1, <2>2, SentIsGood
  <2> QED
    BY <2>3 DEF d
<1> QED
  BY <1>1, <1>2 DEF PageOf

LEMMA WritesAreGood ==
    ASSUME NEW p \in Persons, NEW u \in Units, NEW v \in Given, NEW w \in {"yes", "no"}, NEW row \in Units
    PROVE  /\ [Plain("unit") EXCEPT !.u = u] \in GoodCalls
           /\ [Plain("create") EXCEPT !.p = p, !.u = u, !.v = v] \in GoodCalls
           /\ [Plain("enroll") EXCEPT !.p = p, !.u = u, !.v = v] \in GoodCalls
           /\ [Plain("role") EXCEPT !.p = p, !.u = u, !.row = row, !.v = v] \in GoodCalls
           /\ [Plain("access") EXCEPT !.p = p, !.u = u, !.v = w] \in GoodCalls
<1>1. [Plain("unit") EXCEPT !.u = u] \in GoodCalls
  <2> DEFINE d == [Plain("unit") EXCEPT !.u = u]
  <2>1. d \in Calls
    BY PlainIsCall DEF Calls, Writes
  <2>2. d.op = "unit" /\ d.for = "none" /\ d.state = "sent" /\ d.u = u
    BY DEF Plain
  <2> HIDE DEF d
  <2>3. d \in GoodCalls
    BY <2>1, <2>2, SentIsGood
  <2> QED
    BY <2>3 DEF d
<1>2. [Plain("create") EXCEPT !.p = p, !.u = u, !.v = v] \in GoodCalls
  <2> DEFINE d == [Plain("create") EXCEPT !.p = p, !.u = u, !.v = v]
  <2>1. d \in Calls
    BY PlainIsCall, FilledIn DEF Writes
  <2>2. d.op = "create" /\ d.for = "none" /\ d.state = "sent" /\ d.u = u /\ d.p = p /\ d.v = v
    BY DEF Plain
  <2> HIDE DEF d
  <2>3. d \in GoodCalls
    BY <2>1, <2>2, SentIsGood
  <2> QED
    BY <2>3 DEF d
<1>3. [Plain("enroll") EXCEPT !.p = p, !.u = u, !.v = v] \in GoodCalls
  <2> DEFINE d == [Plain("enroll") EXCEPT !.p = p, !.u = u, !.v = v]
  <2>1. d \in Calls
    BY PlainIsCall, FilledIn DEF Writes
  <2>2. d.op = "enroll" /\ d.for = "none" /\ d.state = "sent" /\ d.u = u /\ d.p = p /\ d.v = v
    BY DEF Plain
  <2> HIDE DEF d
  <2>3. d \in GoodCalls
    BY <2>1, <2>2, SentIsGood
  <2> QED
    BY <2>3 DEF d
<1>4. [Plain("role") EXCEPT !.p = p, !.u = u, !.row = row, !.v = v] \in GoodCalls
  <2> DEFINE d == [Plain("role") EXCEPT !.p = p, !.u = u, !.row = row, !.v = v]
  <2>1. d \in Calls
    BY PlainIsCall, FilledIn DEF Writes
  <2>2. d.op = "role" /\ d.for = "none" /\ d.state = "sent" /\ d.u = u /\ d.p = p /\ d.v = v
    BY DEF Plain
  <2> HIDE DEF d
  <2>3. d \in GoodCalls
    BY <2>1, <2>2, SentIsGood
  <2> QED
    BY <2>3 DEF d
<1>5. [Plain("access") EXCEPT !.p = p, !.u = u, !.v = w] \in GoodCalls
  <2> DEFINE d == [Plain("access") EXCEPT !.p = p, !.u = u, !.v = w]
  <2>1. d \in Calls
    BY PlainIsCall, FilledIn DEF Writes
  <2>2. d.op = "access" /\ d.for = "none" /\ d.state = "sent" /\ d.u = u /\ d.p = p /\ d.v = w
    BY DEF Plain
  <2> HIDE DEF d
  <2>3. d \in GoodCalls
    BY <2>1, <2>2, SentIsGood
  <2> QED
    BY <2>3 DEF d
<1> QED
  BY <1>1, <1>2, <1>3, <1>4, <1>5

(* What the answers and the pages change of a call keeps it good.           *)
LEMMA StillGood ==
    ASSUME NEW c \in GoodCalls, NEW d \in Calls,
           d.op = c.op, d.for = c.for, d.p = c.p, d.u = c.u, d.v = c.v,
           d.state = "ok" => Brought(d)
    PROVE  d \in GoodCalls
  BY DEF GoodCalls, Enrols

(* Alike are two calls but for the view that made them and the row clicked. *)
Alike(c, d) == /\ c.op = d.op /\ c.for = d.for /\ c.p = d.p /\ c.u = d.u /\ c.v = d.v
               /\ c.state = d.state /\ c.table = d.table /\ c.list = d.list /\ c.who = d.who

LEMMA LeftIsGood ==
    ASSUME NEW c \in GoodCalls
    PROVE  [c EXCEPT !.here = FALSE] \in GoodCalls /\ Alike([c EXCEPT !.here = FALSE], c)
<1> DEFINE d == [c EXCEPT !.here = FALSE]
<1>1. d \in Calls /\ Alike(d, c)
  <2>1. c \in Calls
    BY DEF GoodCalls
  <2>2. d \in Calls
    BY <2>1 DEF Calls
  <2>3. Alike(d, c)
    BY <2>1 DEF Calls, Alike
  <2> QED
    BY <2>2, <2>3
<1>2. c.state = "ok" => Brought(c)
  BY DEF GoodCalls
<1> HIDE DEF d
<1>3. d \in GoodCalls
  BY <1>1, <1>2, StillGood DEF Alike, Brought
<1> QED
  BY <1>1, <1>3 DEF d

(* How the calls in progress change.                                        *)
LEMMA CallsSent ==
    ASSUME CallTypes, NEW c \in GoodCalls, Adds(calls, c)
    PROVE  /\ CallTypes'
           /\ \E k \in 1..AtOnce : /\ k \notin Pending /\ Pending' = Pending \cup {k}
                                   /\ calls'[k] = c
           /\ \A i \in Pending : calls'[i] = calls[i]
<1>1. PICK k \in 1..AtOnce : calls[k] = None /\ calls' = [calls EXCEPT ![k] = c]
  BY DEF Adds, CallTypes
<1>2. c # None
  BY GoodIsSome
<1>3. CallTypes'
  BY <1>1 DEF CallTypes
<1>4. k \notin Pending /\ Pending' = Pending \cup {k} /\ calls'[k] = c
  BY <1>1, <1>2 DEF CallTypes, Pending
<1>5. \A i \in Pending : calls'[i] = calls[i]
  BY <1>1 DEF CallTypes, Pending
<1> QED
  BY <1>3, <1>4, <1>5

LEMMA LeftCalls ==
    ASSUME CallTypes, NEW old, old \in {Left, Turned}
    PROVE  /\ old \in [1..AtOnce -> GoodCalls \cup {None}]
           /\ \A i \in 1..AtOnce : old[i] # None <=> i \in Pending /\ calls[i].op \notin Pages
           /\ \A i \in 1..AtOnce : old[i] # None => Alike(old[i], calls[i])
           /\ old = Turned => \A i \in 1..AtOnce : old[i] # None => old[i] = calls[i]
           /\ old = Left => \A i \in 1..AtOnce : old[i] # None => ~old[i].here
<1>1. DOMAIN calls = 1..AtOnce
  BY DEF CallTypes
<1>2. \A i \in 1..AtOnce : /\ Left[i] = (IF calls[i] = None \/ calls[i].op \in Pages THEN None
                                         ELSE [calls[i] EXCEPT !.here = FALSE])
                          /\ Turned[i] = IF calls[i] = None \/ calls[i].op \in Pages THEN None
                                         ELSE calls[i]
  BY <1>1 DEF Left, Turned
<1>3. ASSUME NEW i \in 1..AtOnce
      PROVE  /\ old[i] \in GoodCalls \cup {None}
             /\ old[i] # None <=> i \in Pending /\ calls[i].op \notin Pages
             /\ old[i] # None => Alike(old[i], calls[i])
             /\ old = Turned /\ old[i] # None => old[i] = calls[i]
             /\ old = Left /\ old[i] # None => ~old[i].here
  <2>1. CASE calls[i] = None \/ calls[i].op \in Pages
    BY <1>1, <1>2, <2>1 DEF Pending
  <2>2. CASE ~(calls[i] = None \/ calls[i].op \in Pages)
    <3>1. /\ i \in Pending /\ calls[i] \in GoodCalls /\ calls[i].op \notin Pages
          /\ Left[i] = [calls[i] EXCEPT !.here = FALSE] /\ Turned[i] = calls[i]
      BY <1>1, <1>2, <2>2 DEF Pending, CallTypes
    <3>2. [calls[i] EXCEPT !.here = FALSE].here = FALSE
      BY <3>1 DEF GoodCalls, Calls
    <3>3. Alike(calls[i], calls[i])
      BY DEF Alike
    <3> QED
      BY <3>1, <3>2, <3>3, LeftIsGood, GoodIsSome
  <2> QED
    BY <2>1, <2>2
<1>4. old = [i \in 1..AtOnce |-> old[i]]
  BY <1>1 DEF Left, Turned
<1>5. old \in [1..AtOnce -> GoodCalls \cup {None}]
  BY <1>3, <1>4
<1> QED
  BY <1>3, <1>5

(* Those that go on are alike, and are none for a page.                     *)
Onward == /\ \A i \in Pending' \cap Pending : Alike(calls'[i], calls[i])
          /\ \A i \in Pending : calls[i].op \notin Pages => i \in Pending'
          /\ \A i \in Pending' \cap Pending : calls[i].op \notin Pages

LEMMA CallsLeft ==
    ASSUME CallTypes, calls' = Left
    PROVE  /\ CallTypes' /\ Pending' \subseteq Pending /\ Onward
           /\ \A i \in Pending' : ~calls'[i].here
<1>1. CallTypes'
  BY LeftCalls DEF CallTypes
<1>2. DOMAIN calls' = 1..AtOnce /\ DOMAIN calls = 1..AtOnce
  BY <1>1 DEF CallTypes
<1>3. \A i \in Pending' \cup Pending : i \in 1..AtOnce
  BY <1>2 DEF Pending
<1>4. \A i \in 1..AtOnce : i \in Pending' <=> calls'[i] # None
  BY <1>2 DEF Pending
<1> QED
  BY <1>1, <1>3, <1>4, LeftCalls DEF Onward

LEMMA CallsAdded ==
    ASSUME CallTypes, NEW old, old \in {Left, Turned}, NEW c \in GoodCalls, Adds(old, c)
    PROVE  /\ CallTypes' /\ Onward
           /\ \E k \in 1..AtOnce : /\ k \notin Pending /\ Pending' \subseteq Pending \cup {k}
                                   /\ k \in Pending' /\ calls'[k] = c
           /\ old = Turned => \A i \in Pending' \cap Pending : calls'[i] = calls[i]
           /\ old = Left => \A i \in Pending' \cap Pending : ~calls'[i].here
<1>1. PICK k \in 1..AtOnce : calls[k] = None /\ calls' = [old EXCEPT ![k] = c]
  BY DEF Adds, CallTypes
<1>2. c # None
  BY GoodIsSome
<1>3. CallTypes' /\ DOMAIN calls' = 1..AtOnce /\ DOMAIN calls = 1..AtOnce
  BY <1>1, LeftCalls DEF CallTypes
<1>4. k \notin Pending /\ k \in Pending' /\ calls'[k] = c
  BY <1>1, <1>2, <1>3, LeftCalls DEF Pending
<1>5. \A i \in 1..AtOnce : i # k => calls'[i] = old[i]
  BY <1>1, LeftCalls
<1>6. \A i \in Pending' \cup Pending : i \in 1..AtOnce
  BY <1>3 DEF Pending
<1>7. \A i \in 1..AtOnce : i \in Pending' <=> calls'[i] # None
  BY <1>3 DEF Pending
<1>8. \A i \in 1..AtOnce : i # k /\ i \in Pending' => i \in Pending
  BY <1>5, <1>7, LeftCalls
<1>9. Onward
  <2>1. ASSUME NEW i \in Pending' \cap Pending
        PROVE  Alike(calls'[i], calls[i]) /\ calls[i].op \notin Pages
    <3>1. i \in 1..AtOnce /\ i # k /\ calls'[i] # None
      BY <1>4, <1>6, <1>7
    <3> QED
      BY <1>5, <3>1, LeftCalls
  <2>2. ASSUME NEW i \in Pending, calls[i].op \notin Pages PROVE i \in Pending'
    BY <1>4, <1>5, <1>6, <1>7, <2>2, LeftCalls
  <2> QED
    BY <2>1, <2>2 DEF Onward
<1>10. /\ old = Turned => \A i \in Pending' \cap Pending : calls'[i] = calls[i]
       /\ old = Left => \A i \in Pending' \cap Pending : ~calls'[i].here
  BY <1>4, <1>5, <1>6, <1>7, LeftCalls
<1>11. Pending' \subseteq Pending \cup {k}
  BY <1>6, <1>8
<1> QED
  BY <1>3, <1>4, <1>9, <1>10, <1>11

LEMMA CallsPut ==
    ASSUME CallTypes, NEW i \in Pending, NEW c \in GoodCalls, calls' = [calls EXCEPT ![i] = c]
    PROVE  /\ CallTypes' /\ Pending' = Pending /\ calls'[i] = c
           /\ \A j \in Pending \ {i} : calls'[j] = calls[j]
<1>1. i \in 1..AtOnce /\ c # None
  BY PendingCall, GoodIsSome
<1> QED
  BY <1>1 DEF CallTypes, Pending

LEMMA CallsEnd ==
    ASSUME CallTypes, NEW i \in Pending, End(i)
    PROVE  /\ CallTypes' /\ Pending' = Pending \ {i}
           /\ \A j \in Pending \ {i} : calls'[j] = calls[j]
<1>1. i \in 1..AtOnce
  BY PendingCall
<1> QED
  BY <1>1 DEF CallTypes, Pending, End

LEMMA CallsSame == CallTypes /\ calls' = calls => CallTypes' /\ Pending' = Pending
  BY DEF CallTypes, Pending

LEMMA MembersType == ASSUME BackendTypes, NEW u \in Units PROVE MembersOf(u) \in Listings
  BY DEF BackendTypes, MembersOf, Seen, Listings, Cells

(* What an answer brings: a write has taken effect or was refused, a read   *)
(* has copied what the backend holds, a reset has run a statement.          *)
SameRow(c, d) == c.op = d.op /\ c.for = d.for /\ c.p = d.p /\ c.u = d.u /\ c.v = d.v
Wrote(c, d) == /\ c.op \in Writes /\ Effect(c) /\ d.state \in {"ok", "failed"}
               /\ d.table = c.table /\ d.list = c.list /\ d.who = c.who
Copied(c, d) == /\ UNCHANGED backend
                /\ c.op \in Writes \cup {"reset"} => d.state = "failed"
                /\ d.table = c.table \/ (c.op \in {"staff_list", "staff_page", "persons"} /\ d.table = role)
                /\ d.list = c.list \/ (c.op \in {"staff_list", "bus_list"} \cup Pages /\ d.list = units)
                /\ d.who = c.who \/ (c.op = "workspace" /\ c.u \in units /\ d.who = MembersOf(c.u))
Restarted(c, d) == /\ c.op = "reset" /\ Statement(c.ran)
                   /\ d.table = c.table /\ d.list = c.list /\ d.who = c.who

LEMMA Served ==
    ASSUME TInv, NEW i \in Pending, Serve(i)
    PROVE  \E d \in GoodCalls :
             /\ calls' = [calls EXCEPT ![i] = d]
             /\ SameRow(d, calls[i]) /\ calls[i].state = "sent"
             /\ Wrote(calls[i], d) \/ Copied(calls[i], d) \/ Restarted(calls[i], d)
<1> DEFINE c == calls[i]
           d == calls'[i]
<1>1. /\ i \in 1..AtOnce /\ c \in GoodCalls /\ c \in Calls /\ c.state = "sent"
      /\ calls \in [1..AtOnce -> GoodCalls \cup {None}] /\ i \in DOMAIN calls
      /\ ServeWrite(i) \/ ServeReset(i) \/ ServeRead(i) \/ Refused(i)
  BY PendingCall, GoodIsSome DEF TInv, CallTypes, Serve, ServeWrite, ServeReset, ServeRead, Refused, Pending
<1>2. /\ role \in Tables /\ role # None /\ units \in SUBSET Units /\ units # None
      /\ c.op = "workspace" => MembersOf(c.u) \in Listings /\ MembersOf(c.u) # None
  BY <1>1, MembersType, AbsentAssumption DEF TInv, BackendTypes, GoodCalls
<1>3. CASE ServeWrite(i)
  <2>1. PICK x \in {"ok", "failed"} : calls' = [calls EXCEPT ![i].state = x] /\ Effect(c)
    BY <1>3 DEF ServeWrite
  <2>2. d = [c EXCEPT !.state = x] /\ calls' = [calls EXCEPT ![i] = [c EXCEPT !.state = x]]
    BY <1>1, <2>1
  <2>3. c.op \in Writes
    BY <2>1 DEF Effect, Writes
  <2> DEFINE e == [c EXCEPT !.state = x]
  <2>4. e \in Calls
    BY <1>1 DEF Calls
  <2>5. /\ SameRow(e, c) /\ e.state = x /\ e.table = c.table /\ e.list = c.list /\ e.who = c.who
    BY <1>1 DEF Calls, SameRow
  <2> HIDE DEF e, c
  <2>6. e \in GoodCalls
    BY <1>1, <2>3, <2>4, <2>5, StillGood DEF SameRow, Writes, Brought, Pages
  <2>7. calls' = [calls EXCEPT ![i] = e]
    BY <2>2 DEF e
  <2> QED
    BY <1>1, <2>1, <2>3, <2>5, <2>6, <2>7 DEF c, Wrote
<1>4. CASE Refused(i)
  <2> DEFINE e == [c EXCEPT !.state = "failed"]
  <2>1. calls' = [calls EXCEPT ![i] = e] /\ UNCHANGED backend
    BY <1>1, <1>4 DEF Refused
  <2>2. /\ e \in Calls /\ SameRow(e, c) /\ e.state = "failed"
        /\ e.table = c.table /\ e.list = c.list /\ e.who = c.who
    BY <1>1 DEF Calls, SameRow
  <2> HIDE DEF e, c
  <2>3. e \in GoodCalls
    BY <1>1, <2>2, StillGood DEF SameRow
  <2> QED
    BY <1>1, <2>1, <2>2, <2>3 DEF c, Copied
<1>5. CASE ServeRead(i)
  <2>0. UNCHANGED backend
    BY <1>5 DEF ServeRead
  <2>1. \E e \in Calls :
          /\ calls' = [calls EXCEPT ![i] = e] /\ SameRow(e, c) /\ c.op \notin Writes \cup {"reset"}
          /\ e.table = c.table \/ (c.op \in {"staff_list", "staff_page", "persons"} /\ e.table = role)
          /\ e.list = c.list \/ (c.op \in {"staff_list", "bus_list"} \cup Pages /\ e.list = units)
          /\ e.who = c.who \/ (c.op = "workspace" /\ c.u \in units /\ e.who = MembersOf(c.u))
          /\ e.state = "ok" => Brought(e)
    <3>1. CASE c.op \in {"staff_list", "staff_page"} /\ c.table = None
               /\ calls' = [calls EXCEPT ![i].table = role,
                                         ![i].state = IF c.list = None THEN "sent" ELSE "ok"]
      <4> DEFINE e == [c EXCEPT !.table = role, !.state = IF c.list = None THEN "sent" ELSE "ok"]
      <4>1. calls' = [calls EXCEPT ![i] = e]
        BY <1>1, <3>1
      <4>2. e \in Calls /\ SameRow(e, c)
        <5> DEFINE st == IF c.list = None THEN "sent" ELSE "ok"
        <5>1. st \in {"sent", "ok", "failed"}
          OBVIOUS
        <5> HIDE DEF st
        <5>2. [c EXCEPT !.table = role, !.state = st] \in Calls
          BY <1>1, <1>2, <5>1 DEF Calls
        <5>3. SameRow([c EXCEPT !.table = role, !.state = st], c)
          BY <1>1 DEF Calls, SameRow
        <5> QED
          BY <5>2, <5>3 DEF st
      <4>3. /\ e.table = role /\ e.list = c.list /\ e.who = c.who
            /\ e.state = "ok" => c.list # None
        BY <1>1 DEF Calls
      <4> HIDE DEF e
      <4> QED
        BY <1>2, <3>1, <4>1, <4>2, <4>3 DEF Writes, Brought, SameRow, Pages
    <3>2. CASE c.op \in {"staff_list", "staff_page"} /\ c.list = None
               /\ calls' = [calls EXCEPT ![i].list = units,
                                         ![i].state = IF c.table = None THEN "sent" ELSE "ok"]
      <4> DEFINE e == [c EXCEPT !.list = units, !.state = IF c.table = None THEN "sent" ELSE "ok"]
      <4>1. calls' = [calls EXCEPT ![i] = e]
        BY <1>1, <3>2
      <4>2. e \in Calls /\ SameRow(e, c)
        <5> DEFINE st == IF c.table = None THEN "sent" ELSE "ok"
        <5>1. st \in {"sent", "ok", "failed"}
          OBVIOUS
        <5> HIDE DEF st
        <5>2. [c EXCEPT !.list = units, !.state = st] \in Calls
          BY <1>1, <1>2, <5>1 DEF Calls
        <5>3. SameRow([c EXCEPT !.list = units, !.state = st], c)
          BY <1>1 DEF Calls, SameRow
        <5> QED
          BY <5>2, <5>3 DEF st
      <4>3. /\ e.list = units /\ e.table = c.table /\ e.who = c.who
            /\ e.state = "ok" => c.table # None
        BY <1>1 DEF Calls
      <4> HIDE DEF e
      <4> QED
        BY <1>2, <3>2, <4>1, <4>2, <4>3 DEF Writes, Brought, SameRow, Pages
    <3>3. CASE c.op = "persons" /\ calls' = [calls EXCEPT ![i].table = role, ![i].state = "ok"]
      <4> DEFINE e == [c EXCEPT !.table = role, !.state = "ok"]
      <4>1. calls' = [calls EXCEPT ![i] = e]
        BY <1>1, <3>3
      <4>2. e \in Calls /\ SameRow(e, c) /\ e.table = role /\ e.list = c.list /\ e.who = c.who
        <5>1. e \in Calls
          BY <1>1, <1>2 DEF Calls
        <5>2. SameRow(e, c) /\ e.table = role /\ e.list = c.list /\ e.who = c.who
          BY <1>1 DEF Calls, SameRow
        <5> QED
          BY <5>1, <5>2
      <4> HIDE DEF e
      <4> QED
        BY <1>2, <3>3, <4>1, <4>2 DEF Writes, Brought, SameRow, Pages
    <3>4. CASE c.op \in {"bus_list", "units_page"} /\ calls' = [calls EXCEPT ![i].list = units, ![i].state = "ok"]
      <4> DEFINE e == [c EXCEPT !.list = units, !.state = "ok"]
      <4>1. calls' = [calls EXCEPT ![i] = e]
        BY <1>1, <3>4
      <4>2. e \in Calls /\ SameRow(e, c) /\ e.list = units /\ e.table = c.table /\ e.who = c.who
        <5>1. e \in Calls
          BY <1>1, <1>2 DEF Calls
        <5>2. SameRow(e, c) /\ e.list = units /\ e.table = c.table /\ e.who = c.who
          BY <1>1 DEF Calls, SameRow
        <5> QED
          BY <5>1, <5>2
      <4> HIDE DEF e
      <4> QED
        BY <1>2, <3>4, <4>1, <4>2 DEF Writes, Brought, SameRow, Pages
    <3>5. CASE c.op = "workspace" /\ c.u \in units
               /\ calls' = [calls EXCEPT ![i].who = MembersOf(c.u), ![i].state = "ok"]
      <4> DEFINE e == [c EXCEPT !.who = MembersOf(c.u), !.state = "ok"]
      <4>1. calls' = [calls EXCEPT ![i] = e]
        BY <1>1, <3>5
      <4>2. e \in Calls
        BY <1>1, <1>2, <3>5 DEF Calls
      <4>3. SameRow(e, c) /\ e.list = c.list /\ e.table = c.table /\ e.who = MembersOf(c.u)
        BY <1>1 DEF Calls, SameRow
      <4> HIDE DEF e
      <4> QED
        BY <1>2, <3>5, <4>1, <4>2, <4>3 DEF Writes, Brought, SameRow, Pages
    <3> QED
      BY <1>5, <3>1, <3>2, <3>3, <3>4, <3>5 DEF ServeRead
  <2>2. PICK e \in Calls :
          /\ calls' = [calls EXCEPT ![i] = e] /\ SameRow(e, c) /\ c.op \notin Writes \cup {"reset"}
          /\ e.table = c.table \/ (c.op \in {"staff_list", "staff_page", "persons"} /\ e.table = role)
          /\ e.list = c.list \/ (c.op \in {"staff_list", "bus_list"} \cup Pages /\ e.list = units)
          /\ e.who = c.who \/ (c.op = "workspace" /\ c.u \in units /\ e.who = MembersOf(c.u))
          /\ e.state = "ok" => Brought(e)
    BY <2>1
  <2> HIDE DEF c
  <2>3. e \in GoodCalls
    BY <1>1, <2>2, StillGood DEF SameRow
  <2>4. Copied(c, e)
    BY <2>0, <2>2 DEF Copied
  <2> QED
    BY <1>1, <2>2, <2>3, <2>4 DEF c
<1>6. CASE ServeReset(i)
  <2>1. PICK x \in {"sent", "ok", "failed"} :
          /\ calls' = [calls EXCEPT ![i].ran = c.ran + 1, ![i].state = x]
          /\ c.op = "reset" /\ Statement(c.ran)
    BY <1>6 DEF ServeReset
  <2>2. c.ran + 1 \in 0..4
    BY <1>1, <2>1 DEF Statement, Calls
  <2> DEFINE n == c.ran + 1
             e == [c EXCEPT !.ran = n, !.state = x]
  <2>3. calls' = [calls EXCEPT ![i] = e]
    BY <1>1, <2>1
  <2> HIDE DEF n
  <2>4. /\ e \in Calls /\ SameRow(e, c)
        /\ e.table = c.table /\ e.list = c.list /\ e.who = c.who
    <3>1. n \in 0..4
      BY <2>2 DEF n
    <3>2. e \in Calls
      BY <1>1, <3>1 DEF Calls
    <3>3. SameRow(e, c) /\ e.table = c.table /\ e.list = c.list /\ e.who = c.who
      BY <1>1 DEF Calls, SameRow
    <3> QED
      BY <3>2, <3>3
  <2> HIDE DEF e, c
  <2>5. e \in GoodCalls
    BY <1>1, <2>1, <2>4, StillGood DEF SameRow, Brought, Pages
  <2> QED
    BY <1>1, <2>1, <2>3, <2>4, <2>5 DEF c, Restarted
<1> QED
  BY <1>1, <1>3, <1>4, <1>5, <1>6

(* A refetch replaces the call it is for.                                   *)
LEMMA RefetchIsGood ==
    ASSUME NEW c \in GoodCalls, NEW op,
           \/ c.op \in {"create", "enroll"} /\ op = "staff_list"
           \/ c.op = "unit" /\ op = "bus_list"
    PROVE  /\ [c EXCEPT !.op = op, !.for = c.op, !.state = "sent"] \in GoodCalls
           /\ [c EXCEPT !.op = op, !.for = c.op, !.state = "sent"].op = op
           /\ [c EXCEPT !.op = op, !.for = c.op, !.state = "sent"].for = c.op
           /\ [c EXCEPT !.op = op, !.for = c.op, !.state = "sent"].state = "sent"
           /\ [c EXCEPT !.op = op, !.for = c.op, !.state = "sent"].p = c.p
           /\ [c EXCEPT !.op = op, !.for = c.op, !.state = "sent"].u = c.u
           /\ [c EXCEPT !.op = op, !.for = c.op, !.state = "sent"].table = c.table
           /\ [c EXCEPT !.op = op, !.for = c.op, !.state = "sent"].list = c.list
           /\ [c EXCEPT !.op = op, !.for = c.op, !.state = "sent"].who = c.who
<1> DEFINE d == [c EXCEPT !.op = op, !.for = c.op, !.state = "sent"]
<1>1. c \in Calls /\ c.op \in Writes /\ op \in Reads
  BY DEF GoodCalls, Writes, Reads
<1>2. d \in Calls
  BY <1>1 DEF Calls
<1>3. /\ d.op = op /\ d.for = c.op /\ d.state = "sent" /\ d.p = c.p /\ d.u = c.u
      /\ d.table = c.table /\ d.list = c.list /\ d.who = c.who
  BY <1>1 DEF Calls
<1> HIDE DEF d
<1>4. c.op \in {"create", "enroll"} => c.p \in Persons /\ c.u \in Units
  BY DEF GoodCalls, Enrols
<1>5. d \in GoodCalls
  BY <1>2, <1>3, <1>4 DEF GoodCalls, Enrols, Writes, Pages
<1> QED
  BY <1>3, <1>5 DEF d

LEMMA GivenTypes ==
    ASSUME BackendTypes, NEW p \in Persons, NEW u \in Units,
           \/ \E v \in Given : Enrolled(p, u, v) \/ RoleGiven(p, u, v)
           \/ \E v \in {"yes", "no"} : AccessGiven(p, u, v)
    PROVE  BackendTypes'
<1> USE DEF BackendTypes, Tables
<1>1. ASSUME NEW v \in Given, Enrolled(p, u, v)
      PROVE  BackendTypes'
  <2>1. <<p, u>> \in Cells /\ v \in Roles
    BY DEF Cells, Roles
  <2>2. Upsert(chat[<<p, u>>]) \in Members \cup {"none"}
    BY <2>1 DEF Upsert, Members
  <2> QED
    BY <1>1, <2>1, <2>2 DEF Enrolled
<1>2. ASSUME NEW v \in Given, RoleGiven(p, u, v) PROVE BackendTypes'
  BY <1>2 DEF RoleGiven, Cells, Roles
<1>3. ASSUME NEW v \in {"yes", "no"}, AccessGiven(p, u, v) PROVE BackendTypes'
  BY <1>3 DEF AccessGiven, Members
<1> QED
  BY <1>1, <1>2, <1>3

LEMMA EffectTypes ==
    ASSUME BackendTypes, NEW c \in GoodCalls, Effect(c) PROVE BackendTypes'
<1>1. /\ c.op \in {"create", "enroll", "role"} => c.p \in Persons /\ c.u \in Units /\ c.v \in Given
      /\ c.op = "access" => c.p \in Persons /\ c.u \in Units /\ c.v \in {"yes", "no"}
      /\ c.op = "unit" => c.u \in Units
  BY DEF GoodCalls, Enrols
<1>2. ASSUME NEW u \in Units, UnitMade(u) PROVE BackendTypes'
  BY <1>2 DEF UnitMade, Members, BackendTypes, Tables
<1> QED
  BY <1>1, <1>2, GivenTypes DEF Effect

LEMMA WipedTypes == ASSUME BackendTypes, NEW k \in 0..3, Wiped(k) PROVE BackendTypes'
<1>1. company' \in BOOLEAN /\ units' \subseteq Units /\ lost' \subseteq Cells
  BY OwnerAssumption, DemoAssumption DEF Wiped, BackendTypes
<1>2. role' \in Tables
  BY DEF Wiped, Tables, Roles
<1>3. chat' = chat
  BY DEF Wiped
<1> QED
  BY <1>1, <1>2, <1>3 DEF BackendTypes

LEMMA StatementTypes == ASSUME BackendTypes, NEW k, Statement(k) PROVE BackendTypes'
<1>1. ASSUME Inserted(k), UNCHANGED <<chat, lost>> PROVE BackendTypes'
  <2>1. company' \in BOOLEAN /\ units' \subseteq Units
    BY <1>1, OwnerAssumption DEF Inserted, BackendTypes
  <2>2. role' \in Tables
    BY <1>1, OwnerAssumption DEF Inserted, BackendTypes, Tables, Roles, Cells
  <2> QED
    BY <1>1, <2>1, <2>2 DEF BackendTypes
<1>2. UNCHANGED backend => BackendTypes'
  BY DEF BackendTypes, backend
<1> QED
  BY <1>1, <1>2, WipedTypes DEF Statement

(* What calls touch, and so what may lag.                                   *)
LEMMA TouchTypes ==
    ASSUME NEW c \in GoodCalls PROVE Touches(c) \subseteq All
<1>1. /\ Enrols(c) => c.u \in Units
      /\ c.op \in {"workspace", "access"} => c.u \in Units
  BY DEF GoodCalls
<1> QED
  BY <1>1 DEF Touches, Enrols, All

LEMMA ClashTypes ==
    ASSUME CallTypes, NEW c \in GoodCalls PROVE Clashes(c) \subseteq All
<1>1. ASSUME NEW i \in Pending PROVE Clash(c, calls[i]) \subseteq Touches(c)
  BY DEF Clash
<1> QED
  BY <1>1, TouchTypes DEF Clashes

(* Turning to a page, and its arrival.                                      *)
LEMMA TypesMounts ==
    ASSUME TInv, NEW v \in Views, Mounts(v)
    PROVE  BackendTypes' /\ PageTypes' /\ others' = others /\ persons' = persons /\ members' = members
<1>1. BackendTypes'
  BY DEF Mounts, TInv, BackendTypes, backend
<1> QED
  BY <1>1 DEF Mounts, PageTypes

LEMMA TypesGo == ASSUME TInv, NEW v \in {"staff", "units"}, Go(v) PROVE TInv'
<1>1. CallTypes'
  BY CallsAdded, ReadsAreGood DEF Go, TInv
<1>2. made' \in 0..MaxSteps /\ others' = others
  BY BoundAssumption DEF Go, TInv, NoteTypes
<1>3. stale' \subseteq All
  BY DEF Go, Renewed, Shows, TInv, NoteTypes, All
<1>4. BackendTypes' /\ StoreTypes' /\ PageTypes' /\ CacheTypes'
  BY DEF Go, TInv, BackendTypes, StoreTypes, PageTypes, CacheTypes, backend, stores, page
<1> QED
  BY <1>1, <1>2, <1>3, <1>4 DEF TInv, NoteTypes

LEMMA TypesBack == ASSUME TInv, NEW v \in {"staff", "units"}, Back(v) PROVE TInv'
<1>1. CallTypes'
  BY CallsLeft DEF Back, TInv
<1>2. BackendTypes' /\ PageTypes' /\ others' = others /\ persons' = persons /\ members' = members
  BY TypesMounts DEF Back, Views
<1>3. StoreTypes'
  <2>1. /\ v = "staff" => kept.staff[1] \in Tables /\ kept.staff[2] \subseteq Units
        /\ v = "units" => kept.units \subseteq Units
    BY DEF Back, TInv, CacheTypes, Payloads
  <2> QED
    BY <1>2, <2>1 DEF Back, HydrateStaff, HydrateUnits, TInv, StoreTypes
<1>4. made' \in 0..MaxSteps /\ stale' \subseteq All /\ kept' = kept
  BY BoundAssumption DEF Back, Shows, All, TInv, NoteTypes
<1> QED
  BY <1>1, <1>2, <1>3, <1>4 DEF TInv, NoteTypes, CacheTypes

LEMMA TypesAccess == TInv /\ OpenAccess => TInv'
<1> SUFFICES ASSUME TInv, OpenAccess PROVE TInv'
  OBVIOUS
<1>1. CallTypes'
  BY CallsLeft, CallsAdded, ReadsAreGood DEF OpenAccess, TInv
<1>2. BackendTypes' /\ PageTypes' /\ others' = others /\ persons' = persons /\ members' = members
  BY TypesMounts DEF OpenAccess, Views
<1>3. StoreTypes' /\ CacheTypes'
  BY <1>2 DEF OpenAccess, TInv, StoreTypes, CacheTypes
<1>4. stale' \subseteq All
  BY ClashTypes, ReadsAreGood DEF OpenAccess, TInv, NoteTypes
<1>5. made' \in 0..MaxSteps
  BY BoundAssumption DEF OpenAccess, TInv, NoteTypes
<1> QED
  BY <1>1, <1>2, <1>3, <1>4, <1>5 DEF TInv, NoteTypes

LEMMA PageBrought ==
    ASSUME CallTypes, NEW i \in Pending, calls[i].op \in Pages, calls[i].state = "ok"
    PROVE  /\ calls[i].list \subseteq Units
           /\ calls[i].op = "staff_page" => calls[i].table \in Tables
<1> DEFINE c == calls[i]
<1>1. c \in GoodCalls /\ c \in Calls
  BY PendingCall DEF GoodCalls
<1>2. Brought(c)
  BY <1>1 DEF GoodCalls
<1>3. c.list \in (SUBSET Units) \cup {None} /\ c.table \in Tables \cup {None}
  BY <1>1 DEF Calls
<1> QED
  BY <1>2, <1>3 DEF Brought, Pages

LEMMA TypesArrive == ASSUME TInv, NEW i \in Pending, Arrive(i) PROVE TInv'
<1> DEFINE c == calls[i]
<1>1. CallTypes'
  BY CallsLeft DEF Arrive, TInv
<1>2. \E v \in Views : Mounts(v)
  BY DEF Arrive, Views
<1>3. BackendTypes' /\ PageTypes' /\ others' = others /\ persons' = persons /\ members' = members
  BY <1>2, TypesMounts
<1>4. StoreTypes' /\ CacheTypes'
  <2>1. CASE c.state = "failed"
    BY <1>3, <2>1 DEF Arrive, TInv, StoreTypes, CacheTypes
  <2>2. CASE c.state = "ok" /\ c.op = "staff_page"
    <3>1. c.table \in Tables /\ c.list \subseteq Units
      BY <2>2, PageBrought DEF TInv, Pages
    <3>2. /\ staff' = c.table /\ staffBus' = c.list /\ bus' = bus
          /\ kept' = [kept EXCEPT !.staff = <<c.table, c.list>>]
      BY <2>2 DEF Arrive, HydrateStaff
    <3> HIDE DEF c
    <3>3. kept' \in Payloads
      BY <3>1, <3>2 DEF TInv, CacheTypes, Payloads
    <3> QED
      BY <1>3, <3>1, <3>2, <3>3 DEF TInv, StoreTypes, CacheTypes
  <2>3. CASE c.state = "ok" /\ c.op = "units_page"
    <3>1. c.list \subseteq Units
      BY <2>3, PageBrought DEF TInv, Pages
    <3>2. bus' = c.list /\ UNCHANGED <<staff, staffBus>> /\ kept' = [kept EXCEPT !.units = c.list]
      BY <2>3 DEF Arrive, HydrateUnits
    <3> HIDE DEF c
    <3>3. kept' \in Payloads
      BY <3>1, <3>2 DEF TInv, CacheTypes, Payloads
    <3> QED
      BY <1>3, <3>1, <3>2, <3>3 DEF TInv, StoreTypes, CacheTypes
  <2> QED
    BY <2>1, <2>2, <2>3 DEF Arrive
<1>5. made' \in 0..MaxSteps /\ stale' \subseteq All
  BY DEF Arrive, TInv, NoteTypes
<1> QED
  BY <1>1, <1>3, <1>4, <1>5 DEF TInv, NoteTypes

LEMMA TypesReset == TInv /\ Reset => TInv'
<1> SUFFICES ASSUME TInv, Reset PROVE TInv'
  OBVIOUS
<1>1. CallTypes'
  BY CallsSent, ReadsAreGood DEF Reset, TInv
<1>2. made' \in 0..MaxSteps /\ others' = others /\ stale' = All
  BY BoundAssumption DEF Reset, TInv, NoteTypes
<1>3. BackendTypes' /\ StoreTypes' /\ PageTypes' /\ CacheTypes'
  BY DEF Reset, TInv, BackendTypes, StoreTypes, PageTypes, CacheTypes, backend, stores, page
<1> QED
  BY <1>1, <1>2, <1>3 DEF TInv, NoteTypes

(* Each call of a page is one of the good ones.                             *)
LEMMA TypesSend ==
    ASSUME TInv, NEW c \in GoodCalls, Send(c), others' = others
    PROVE  CallTypes' /\ NoteTypes'
<1>1. CallTypes'
  BY CallsSent DEF Send, TInv
<1>2. stale' \subseteq All
  BY ClashTypes DEF Send, TInv, NoteTypes
<1>3. made' \in 0..MaxSteps
  BY BoundAssumption DEF Send, TInv, NoteTypes
<1> QED
  BY <1>1, <1>2, <1>3 DEF TInv, NoteTypes

LEMMA TypesActing == TInv /\ Acting => TInv'
<1> SUFFICES ASSUME TInv, Acting PROVE TInv'
  OBVIOUS
<1>u. UNCHANGED <<backend, stores, view, others, kept>>
  BY DEF Acting, OpenDialog, Cancel, Dismiss, SubmitCreate, SubmitEnroll, ChangeRole, SubmitUnit,
         SelectUnit, Toggle, Acts
<1>s. BackendTypes' /\ StoreTypes' /\ CacheTypes'
  BY <1>u DEF TInv, BackendTypes, StoreTypes, CacheTypes, backend, stores
<1>p. /\ sel \in Units \cup {None} /\ modals \subseteq Dialogs /\ view \in Views
      /\ spin \in Persons \cup {None} /\ added \in Cells \cup {None}
  BY DEF TInv, PageTypes
<1>n. UNCHANGED <<made, stale>> => NoteTypes'
  BY <1>u DEF TInv, NoteTypes
<1>1. ASSUME NEW d \in Dialogs, OpenDialog(d) PROVE TInv'
  <2>1. PageTypes'
    BY <1>1, <1>p, <1>u DEF OpenDialog, Acts, PageTypes
  <2>2. CallTypes' /\ NoteTypes'
    BY <1>1, <1>n, <1>u, TypesSend, CallsSame, ReadsAreGood DEF OpenDialog, TInv
  <2> QED
    BY <1>s, <2>1, <2>2 DEF TInv
<1>2. ASSUME NEW d \in Dialogs, Cancel(d) \/ Dismiss PROVE TInv'
  <2>1. PageTypes'
    BY <1>2, <1>p DEF Cancel, Dismiss, PageTypes
  <2>2. CallTypes' /\ NoteTypes'
    BY <1>2, <1>n, CallsSame DEF Cancel, Dismiss, TInv
  <2> QED
    BY <1>s, <2>1, <2>2 DEF TInv
<1>3. ASSUME NEW p \in Persons, NEW u \in Units, NEW v \in Given,
             SubmitCreate(p, u, v) \/ SubmitEnroll(p, u, v) \/ ChangeRole(p, u, v)
      PROVE  TInv'
  <2>1. PageTypes'
    BY <1>3, <1>p, <1>u DEF SubmitCreate, SubmitEnroll, ChangeRole, Acts, PageTypes
  <2>2. \E c \in GoodCalls : Send(c)
    BY <1>3, WritesAreGood, OwnerAssumption DEF SubmitCreate, SubmitEnroll, ChangeRole
  <2> QED
    BY <1>s, <1>u, <2>1, <2>2, TypesSend DEF TInv
<1>4. ASSUME NEW u \in Units, SubmitUnit(u) PROVE TInv'
  <2>1. PageTypes'
    BY <1>4, <1>p, <1>u DEF SubmitUnit, Acts, PageTypes
  <2>2. \E c \in GoodCalls : Send(c)
    BY <1>4, WritesAreGood, OwnerAssumption DEF SubmitUnit, Given
  <2> QED
    BY <1>s, <1>u, <2>1, <2>2, TypesSend DEF TInv
<1>5. ASSUME NEW u \in Units, SelectUnit(u) PROVE TInv'
  <2>1. PageTypes'
    BY <1>5, <1>p, <1>u DEF SelectUnit, Acts, PageTypes
  <2>2. CallTypes'
    BY <1>5, CallsSent, ReadsAreGood DEF SelectUnit, TInv
  <2>3. NoteTypes'
    BY <1>5, <1>u, BoundAssumption DEF SelectUnit, Renewed, TInv, NoteTypes, All
  <2> QED
    BY <1>s, <2>1, <2>2, <2>3 DEF TInv
<1>6. ASSUME NEW p \in Persons, Toggle(p) PROVE TInv'
  <2>1. PageTypes'
    BY <1>6, <1>p, <1>u DEF Toggle, Acts, PageTypes
  <2>2. \E c \in GoodCalls : Send(c)
    <3>1. sel \in Units /\ (IF members[sel][p] = "yes" THEN "no" ELSE "yes") \in {"yes", "no"}
      BY <1>6, <1>p DEF Toggle
    <3> QED
      BY <1>6, <3>1, WritesAreGood, OwnerAssumption DEF Toggle, Given
  <2> QED
    BY <1>s, <1>u, <2>1, <2>2, TypesSend DEF TInv
<1> QED
  BY <1>1, <1>2, <1>3, <1>4, <1>5, <1>6 DEF Acting, Dialogs

LEMMA TypesServe == ASSUME TInv, NEW i \in Pending, Serve(i) PROVE TInv'
<1>1. PICK d \in GoodCalls :
        /\ calls' = [calls EXCEPT ![i] = d]
        /\ SameRow(d, calls[i]) /\ calls[i].state = "sent"
        /\ Wrote(calls[i], d) \/ Copied(calls[i], d) \/ Restarted(calls[i], d)
  BY Served
<1>2. CallTypes'
  BY <1>1, CallsPut DEF TInv
<1>3. BackendTypes'
  <2>1. CASE Effect(calls[i])
    BY <2>1, PendingCall, EffectTypes DEF TInv
  <2>2. CASE UNCHANGED backend
    BY <2>2 DEF TInv, BackendTypes, backend
  <2>3. CASE Statement(calls[i].ran)
    BY <2>3, StatementTypes DEF TInv
  <2> QED
    BY <1>1, <2>1, <2>2, <2>3 DEF Wrote, Copied, Restarted
<1>4. UNCHANGED <<stores, page, kept, made, others, stale>>
  BY DEF Serve
<1>5. StoreTypes' /\ PageTypes' /\ CacheTypes' /\ NoteTypes'
  BY <1>4 DEF TInv, StoreTypes, PageTypes, CacheTypes, NoteTypes, stores, page
<1> QED
  BY <1>2, <1>3, <1>5 DEF TInv

LEMMA TypesOthers == TInv /\ OthersChange => TInv'
<1> SUFFICES ASSUME TInv, OthersChange PROVE TInv'
  OBVIOUS
<1>1. \/ \E k \in 0..3 : Wiped(k) /\ stale' = All
      \/ \E p \in Persons, u \in units :
           /\ \/ \E v \in Given : Enrolled(p, u, v) \/ RoleGiven(p, u, v)
              \/ \E v \in {"yes", "no"} : AccessGiven(p, u, v)
           /\ stale' = stale \cup {"staff", u} \/ stale' = stale \cup {u}
  BY DEF OthersChange
<1>2. units \subseteq Units
  BY DEF TInv, BackendTypes
<1>3. BackendTypes'
  BY <1>1, <1>2, GivenTypes, WipedTypes DEF TInv
<1>4. UNCHANGED <<stores, page, kept, calls>>
  BY DEF OthersChange
<1>5. StoreTypes' /\ PageTypes' /\ CacheTypes' /\ CallTypes'
  BY <1>4 DEF TInv, StoreTypes, PageTypes, CacheTypes, CallTypes, stores, page
<1>6. NoteTypes'
  <2>1. made' \in 0..MaxSteps /\ others' \in 0..MaxOthers
    BY BoundAssumption DEF OthersChange, TInv, NoteTypes
  <2> QED
    BY <1>1, <1>2, <2>1 DEF TInv, NoteTypes, All
<1> QED
  BY <1>3, <1>5, <1>6 DEF TInv

LEMMA TypesReceive == ASSUME TInv, NEW i \in Pending, Receive(i) PROVE TInv'
<1> DEFINE c == calls[i]
<1>1. /\ i \in 1..AtOnce /\ c \in GoodCalls /\ c \in Calls /\ c.state # "sent"
      /\ UNCHANGED <<backend, view, made, others>>
      /\ stale' = IF c.state = "failed" THEN stale \cup Touches(c) ELSE stale
  BY PendingCall, GoodIsSome DEF TInv, Receive
<1>2. BackendTypes'
  BY <1>1 DEF TInv, BackendTypes, backend
<1>k. kept' = kept => CacheTypes'
  BY DEF TInv, CacheTypes
<1>3. NoteTypes'
  BY <1>1, TouchTypes DEF TInv, NoteTypes
<1>4. /\ c.p \in Persons \cup {None} /\ c.u \in Units \cup {None}
      /\ c.table \in Tables \cup {None} /\ c.list \in (SUBSET Units) \cup {None}
      /\ c.who \in Listings \cup {None} /\ c.state \in {"sent", "ok", "failed"}
  BY <1>1 DEF Calls
<1>5. /\ c.state = "ok" =>
           /\ c.op \in {"staff_list", "persons"} => c.table \in Tables
           /\ c.op \in {"staff_list", "bus_list"} => c.list \subseteq Units
           /\ c.op = "workspace" => c.who \in Listings /\ c.u \in Units
      /\ c.for \in {"create", "enroll"} => <<c.p, c.u>> \in Cells
      /\ c.op = "role" => c.p \in Persons /\ c.v \in Given
      /\ c.op = "access" => c.p \in Persons /\ c.u \in Units /\ c.v \in {"yes", "no"}
  <2> HIDE DEF c
  <2> QED
    BY <1>1, <1>4 DEF GoodCalls, Enrols, Cells, Brought
<1> HIDE DEF c
<1>6. CASE kept' = kept /\ (ReceiveStaffList(i) \/ ReceiveBusList(i))
  <2>1. CallTypes'
    BY <1>6, CallsEnd DEF ReceiveStaffList, ReceiveBusList, TInv
  <2>2. Fetched(c) /\ view' = view
    BY <1>1, <1>6 DEF ReceiveStaffList, ReceiveBusList, c
  <2>3. PageTypes'
    <3>1. modals' \subseteq Dialogs /\ sel' = sel /\ spin' = spin
      BY <2>2 DEF Fetched, TInv, PageTypes
    <3>2. added' \in Cells \cup {None}
      BY <1>5, <2>2 DEF Fetched, TInv, PageTypes
    <3> QED
      BY <2>2, <3>1, <3>2 DEF TInv, PageTypes
  <2>4. StoreTypes'
    <3>1. CASE ReceiveStaffList(i)
      <4>1. /\ c.op = "staff_list" /\ UNCHANGED <<persons, bus, members>>
            /\ IF c.state = "ok" THEN staff' = c.table /\ staffBus' = c.list
               ELSE UNCHANGED <<staff, staffBus>>
        BY <3>1 DEF ReceiveStaffList, c
      <4> QED
        BY <1>5, <4>1 DEF TInv, StoreTypes
    <3>2. CASE ReceiveBusList(i)
      <4>1. /\ c.op = "bus_list" /\ UNCHANGED <<staff, staffBus, persons, members>>
            /\ bus' = IF c.state = "ok" THEN c.list ELSE bus
        BY <3>2 DEF ReceiveBusList, c
      <4> QED
        BY <1>5, <4>1 DEF TInv, StoreTypes
    <3> QED
      BY <1>6, <3>1, <3>2
  <2> QED
    BY <1>2, <1>3, <1>k, <1>6, <2>1, <2>3, <2>4 DEF TInv
<1>7. CASE kept' = kept /\ (ReceivePersons(i) \/ ReceiveWorkspace(i))
  <2>1. CallTypes'
    BY <1>7, CallsEnd DEF ReceivePersons, ReceiveWorkspace, TInv
  <2>2. PageTypes'
    BY <1>1, <1>7 DEF ReceivePersons, ReceiveWorkspace, Kept, TInv, PageTypes, Dialogs
  <2>3. StoreTypes'
    <3>1. CASE ReceivePersons(i)
      BY <3>1 DEF ReceivePersons, TInv, StoreTypes
    <3>2. CASE ReceiveWorkspace(i)
      <4>1. /\ c.op = "workspace" /\ UNCHANGED <<staff, staffBus, persons, bus>>
            /\ members' = IF c.state = "ok" THEN [members EXCEPT ![c.u] = c.who] ELSE members
        BY <3>2 DEF ReceiveWorkspace, c
      <4> QED
        BY <1>5, <4>1 DEF TInv, StoreTypes
    <3> QED
      BY <1>7, <3>1, <3>2
  <2> QED
    BY <1>2, <1>3, <1>k, <1>7, <2>1, <2>2, <2>3 DEF TInv
<1>8. CASE kept' = kept /\ ReceiveWrite(i)
  <2>1. UNCHANGED <<stores, sel, modals, spin, added>>
    BY <1>8 DEF ReceiveWrite, Refetch, Kept
  <2>2. StoreTypes' /\ PageTypes'
    BY <1>1, <2>1 DEF TInv, StoreTypes, PageTypes, stores
  <2>3. CASE End(i)
    BY <1>2, <1>3, <1>k, <1>8, <2>2, <2>3, CallsEnd DEF TInv
  <2>4. ASSUME NEW op, op = (IF c.op = "unit" THEN "bus_list" ELSE "staff_list"),
               c.op \in {"create", "enroll", "unit"}, Refetch(i, op)
        PROVE  CallTypes'
    <3> DEFINE d == [c EXCEPT !.op = op, !.for = c.op, !.state = "sent"]
    <3>1. d \in GoodCalls
      BY <1>1, <2>4, RefetchIsGood
    <3>2. calls' = [calls EXCEPT ![i] = d]
      BY <2>4 DEF Refetch, c
    <3> HIDE DEF d
    <3> QED
      BY <3>1, <3>2, CallsPut DEF TInv
  <2> QED
    BY <1>2, <1>3, <1>k, <1>8, <2>2, <2>3, <2>4 DEF TInv, ReceiveWrite, c
<1>9. CASE kept' = kept /\ ReceiveRole(i)
  <2>1. CallTypes'
    BY <1>9, CallsEnd DEF ReceiveRole, TInv
  <2>2. PageTypes'
    BY <1>1, <1>9 DEF ReceiveRole, Spun, TInv, PageTypes
  <2>3. StoreTypes'
    <3>1. /\ c.op = "role" /\ UNCHANGED <<staffBus, persons, bus, members>>
          /\ staff' = IF c.state = "failed" THEN staff
                      ELSE [x \in Cells |-> IF x[1] = c.p /\ staff[x] # "none" THEN c.v ELSE staff[x]]
      BY <1>9 DEF ReceiveRole, c
    <3>2. staff' \in Tables
      BY <1>5, <3>1 DEF TInv, StoreTypes, Tables, Roles
    <3> QED
      BY <3>1, <3>2 DEF TInv, StoreTypes
  <2> QED
    BY <1>2, <1>3, <1>k, <1>9, <2>1, <2>2, <2>3 DEF TInv
<1>10. CASE kept' = kept /\ ReceiveAccess(i)
  <2>1. CallTypes'
    BY <1>10, CallsEnd DEF ReceiveAccess, TInv
  <2>2. PageTypes'
    BY <1>1, <1>10 DEF ReceiveAccess, Spun, TInv, PageTypes
  <2>3. StoreTypes'
    <3>1. /\ c.op = "access" /\ UNCHANGED <<staff, staffBus, persons, bus>>
          /\ members' = IF c.state = "failed" \/ members[c.u] = None THEN members
                        ELSE [members EXCEPT ![c.u][c.p] = IF @ = "none" THEN @ ELSE c.v]
      BY <1>10 DEF ReceiveAccess, c
    <3>2. members' \in [Units -> Listings \cup {None}]
      <4>1. CASE c.state = "failed" \/ members[c.u] = None
        BY <3>1, <4>1 DEF TInv, StoreTypes
      <4>2. CASE ~(c.state = "failed" \/ members[c.u] = None)
        <5>1. members[c.u] \in Listings
          BY <1>5, <3>1, <4>2 DEF TInv, StoreTypes
        <5> DEFINE m == [members[c.u] EXCEPT ![c.p] = IF @ = "none" THEN @ ELSE c.v]
        <5>2. m \in Listings
          BY <1>5, <3>1, <5>1 DEF Listings, Members
        <5>3. members' = [members EXCEPT ![c.u] = m]
          BY <3>1, <4>2
        <5> HIDE DEF m
        <5> QED
          BY <5>2, <5>3 DEF TInv, StoreTypes
      <4> QED
        BY <4>1, <4>2
    <3> QED
      BY <3>1, <3>2 DEF TInv, StoreTypes
  <2> QED
    BY <1>2, <1>3, <1>k, <1>10, <2>1, <2>2, <2>3 DEF TInv
<1>11. CASE ReceiveReset(i)
  <2>1. CallTypes'
    BY <1>11, CallsEnd DEF ReceiveReset, TInv
  <2>2. StoreTypes' /\ PageTypes'
    BY <1>1, <1>11 DEF ReceiveReset, Kept, TInv, StoreTypes, PageTypes, stores
  <2>3. CacheTypes'
    <3>1. units \in SUBSET Units /\ <<role, units>> \in Tables \X SUBSET Units
      BY DEF TInv, BackendTypes
    <3> QED
      BY <1>11, <1>k, <3>1 DEF ReceiveReset, CacheTypes, Payloads
  <2> QED
    BY <1>2, <1>3, <2>1, <2>2, <2>3 DEF TInv
<1> QED
  BY <1>6, <1>7, <1>8, <1>9, <1>10, <1>11 DEF Receive

LEMMA TypesInit == Init => TInv
<1> SUFFICES ASSUME Init PROVE TInv
  OBVIOUS
<1>1. units \in SUBSET Units /\ units # {}
  BY OwnerAssumption DEF Init
<1>2. role \in Tables /\ chat \in [Cells -> Members \cup {"none"}]
  BY DEF Init, Tables, Roles, Given, Members
<1>3. BackendTypes
  BY <1>1, <1>2 DEF BackendTypes, Init
<1>4. view \in Views /\ sel \in Units \cup {None}
  BY <1>1 DEF Init, Views
<1>5. staff \in Tables /\ staffBus \subseteq Units /\ bus \subseteq Units
  BY <1>1, <1>2 DEF Init, Tables, Roles
<1>6. members \in [Units -> Listings \cup {None}]
  BY <1>3, MembersType DEF Init
<1>7. StoreTypes /\ PageTypes
  <2>1. persons = {} /\ modals = {} /\ spin = None /\ added = None
    BY DEF Init
  <2> QED
    BY <1>4, <1>5, <1>6, <2>1 DEF StoreTypes, PageTypes
<1>8. CallTypes /\ NoteTypes
  BY BoundAssumption DEF Init, CallTypes, NoteTypes
<1>9. CacheTypes
  BY <1>1, <1>2 DEF Init, CacheTypes, Payloads
<1> QED
  BY <1>3, <1>7, <1>8, <1>9 DEF TInv

LEMMA TypesNext == TInv /\ [Next]_vars => TInv'
<1> SUFFICES ASSUME TInv, [Next]_vars PROVE TInv'
  OBVIOUS
<1>1. CASE UNCHANGED vars
  <2> USE <1>1 DEF vars, backend, stores, page
  <2>1. BackendTypes' /\ StoreTypes' /\ CallTypes'
    BY DEF TInv, BackendTypes, StoreTypes, CallTypes
  <2>2. PageTypes' /\ NoteTypes' /\ CacheTypes'
    BY DEF TInv, PageTypes, NoteTypes, CacheTypes
  <2> QED
    BY <2>1, <2>2 DEF TInv
<1>2. ASSUME NEW i \in DOMAIN calls, Serve(i) \/ Receive(i) \/ Arrive(i) PROVE TInv'
  BY <1>2, TypesServe, TypesReceive, TypesArrive DEF Serve, Receive, Arrive
<1> QED
  BY <1>1, <1>2, TypesGo, TypesBack, TypesAccess, TypesActing, TypesReset, TypesOthers DEF Next

(* The three pages, their stores and the calls keep their types: what a     *)
(* call that failed brings is never put in a store.                         *)
THEOREM TypeCorrect == Spec => []TypeOK
<1>1. TInv => TypeOK
  <2> SUFFICES ASSUME TInv PROVE TypeOK
    OBVIOUS
  <2>1. \A i \in Pending : calls[i] \in Calls
    BY PendingCall DEF TInv, GoodCalls
  <2> QED
    BY <2>1 DEF TInv, BackendTypes, StoreTypes, PageTypes, CacheTypes, NoteTypes, TypeOK
<1> QED
  BY <1>1, TypesInit, TypesNext, PTL DEF Spec
-----------------------------------------------------------------------------
(* Overlaps.  Two calls that touch the same rows while both are in          *)
(* progress leave those rows among what the tab may lag behind in; a reset  *)
(* leaves everything there.                                                 *)
NoClash == /\ \A i, j \in Pending : i # j => Clash(calls[i], calls[j]) \subseteq stale
           /\ \A i \in Pending : calls[i].op = "reset" => All \subseteq stale

(* What a call touches does not grow while it is in progress.               *)
Narrows(d, c) == /\ Touches(d) \subseteq Touches(c)
                 /\ c.op \in {"role", "access"} => d.op = c.op /\ d.p = c.p
                 /\ d.op = "reset" => c.op = "reset"
Forgets == \A x \in stale \ stale' : ~Moving(x)

LEMMA TouchesWhat ==
    ASSUME NEW c \in GoodCalls
    PROVE  /\ "staff" \in Touches(c) <=>
                Enrols(c) \/ c.op \in {"role", "unit", "staff_list", "staff_page", "reset"}
           /\ "bus" \in Touches(c) <=> c.op \in {"unit", "bus_list", "units_page", "reset"}
           /\ \A u \in Units : u \in Touches(c) <=>
                c.op = "reset" \/ (c.u = u /\ (Enrols(c) \/ c.op \in {"workspace", "access"}))
<1>1. /\ Enrols(c) \/ c.op \in {"workspace", "access"} => c.u \in Units
      /\ c.op \in Writes \cup Pages \cup {"persons", "workspace", "reset"} => c.for = "none"
      /\ c.op = "staff_list" => c.for \in {"create", "enroll"}
      /\ c.op = "bus_list" => c.for \in {"none", "unit"}
      /\ c.op \in Reads \cup Writes \cup {"reset"}
  BY DEF GoodCalls, Calls
<1>2. \A u \in Units : u # "staff" /\ u # "bus"
  BY NameAssumption
<1> QED
  BY <1>1, <1>2 DEF Touches, Enrols, Reads, Writes, Pages, All

LEMMA NarrowClash ==
    ASSUME NEW c, NEW d, NEW e, NEW f, Narrows(d, c), Narrows(e, f)
    PROVE  Clash(d, e) \subseteq Clash(c, f)
  BY DEF Narrows, Clash

LEMMA AlikeNarrows == ASSUME NEW c, NEW d, Alike(d, c) \/ SameRow(d, c) PROVE Narrows(d, c)
  BY DEF Alike, SameRow, Narrows, Touches

LEMMA ClashSym == ASSUME NEW c, NEW d PROVE Clash(c, d) = Clash(d, c)
  BY DEF Clash

LEMMA ResetKept ==
    ASSUME NoClash, Forgets, NEW i \in Pending, calls[i].op = "reset" PROVE All \subseteq stale'
<1>1. Touches(calls[i]) = All
  BY DEF Touches, Pages
<1>2. \A x \in All : Moving(x)
  BY <1>1 DEF Moving
<1> QED
  BY <1>2 DEF NoClash, Forgets

LEMMA ClashKept ==
    ASSUME NoClash, Pending' \subseteq Pending, Forgets,
           \A i \in Pending' : Narrows(calls'[i], calls[i])
    PROVE  NoClash'
<1>1. ASSUME NEW i \in Pending', NEW j \in Pending', i # j,
             NEW x \in Clash(calls'[i], calls'[j])
      PROVE  x \in stale'
  <2>1. x \in Clash(calls[i], calls[j])
    BY <1>1, NarrowClash
  <2>2. x \in stale /\ x \in Touches(calls[i])
    BY <1>1, <2>1 DEF NoClash, Clash
  <2>3. Moving(x)
    BY <1>1, <2>2 DEF Moving
  <2> QED
    BY <2>2, <2>3 DEF Forgets
<1>2. \A i \in Pending' : calls'[i].op = "reset" => All' \subseteq stale'
  BY ResetKept DEF Narrows, All
<1> QED
  BY <1>1, <1>2 DEF NoClash

LEMMA ClashSent ==
    ASSUME NoClash, NEW k, NEW c, k \notin Pending, Pending' \subseteq Pending \cup {k}, calls'[k] = c,
           \A i \in Pending' \cap Pending : Narrows(calls'[i], calls[i]), Forgets,
           \A i \in Pending : Clash(c, calls[i]) \subseteq stale',
           c.op = "reset" => All \subseteq stale'
    PROVE  NoClash'
<1>1. ASSUME NEW i \in Pending' \cap Pending, NEW j \in Pending' \cap Pending, i # j,
             NEW x \in Clash(calls'[i], calls'[j])
      PROVE  x \in stale'
  <2>1. x \in Clash(calls[i], calls[j])
    BY <1>1, NarrowClash
  <2>2. x \in stale /\ x \in Touches(calls[i])
    BY <1>1, <2>1 DEF NoClash, Clash
  <2>3. Moving(x)
    BY <1>1, <2>2 DEF Moving
  <2> QED
    BY <2>2, <2>3 DEF Forgets
<1>2. ASSUME NEW i \in Pending' \cap Pending
      PROVE  Clash(c, calls'[i]) \subseteq stale' /\ Clash(calls'[i], c) \subseteq stale'
  <2>1. Narrows(c, c)
    BY DEF Narrows
  <2>2. Clash(c, calls'[i]) \subseteq Clash(c, calls[i])
    BY <2>1, NarrowClash
  <2> QED
    BY <2>2, ClashSym
<1>3. \A i \in Pending' : calls'[i].op = "reset" => All' \subseteq stale'
  BY ResetKept DEF Narrows, All
<1> QED
  BY <1>1, <1>2, <1>3 DEF NoClash

LEMMA RenewedForgets == ASSUME NEW x, stale' = Renewed(x) PROVE Forgets /\ (Moving(x) => x \in stale')
  BY DEF Renewed, Forgets

LEMMA ClashInit == Init => NoClash
  BY DEF Init, NoClash, Pending

LEMMA SendsClash ==
    ASSUME TInv, NoClash, NEW c \in GoodCalls, Send(c), c.op # "reset" PROVE NoClash'
<1>1. PICK k \in 1..AtOnce : k \notin Pending /\ Pending' = Pending \cup {k} /\ calls'[k] = c
  BY CallsSent DEF Send, TInv
<1>2. \A i \in Pending : Narrows(calls'[i], calls[i])
  BY CallsSent DEF Send, TInv, Narrows
<1>3. Forgets /\ \A i \in Pending : Clash(c, calls[i]) \subseteq stale'
  BY DEF Send, Forgets, Clashes
<1> QED
  BY <1>1, <1>2, <1>3, ClashSent

(* What each action of a page does, by the call it sends.                   *)
Asked(c) ==
    /\ c.state = "sent" /\ c.for = "none" /\ c.table = None /\ c.list = None /\ c.who = None
    /\ c.op \in Writes \cup {"persons"}
    /\ c.op \in {"create", "enroll", "role"} => view = "staff"
    /\ c.op = "role" => staff[<<c.p, c.u>>] # "none"
    /\ c.op = "unit" => /\ view = "units" /\ c.u \notin Founded
                        /\ \A i \in Pending : calls[i].op = "unit" => calls[i].u # c.u
    /\ c.op = "access" => /\ view = "access" /\ sel # None /\ c.u = sel /\ members[sel] # None
                          /\ members[sel][c.p] # "none"

LEMMA ActingMoves ==
    ASSUME TInv, Acting
    PROVE  /\ UNCHANGED <<backend, stores, kept, view, others>>
           /\ added' \in {added, None}
           /\ \/ UNCHANGED <<calls, stale, sel>>
              \/ \E c \in GoodCalls : Asked(c) /\ Send(c) /\ sel' = sel
              \/ \E u \in Units : SelectUnit(u)
<1>u. UNCHANGED <<backend, stores, kept, view, others>> /\ added' \in {added, None}
  BY DEF Acting, OpenDialog, Cancel, Dismiss, SubmitCreate, SubmitEnroll, ChangeRole, SubmitUnit,
         SelectUnit, Toggle, Acts, page
<1> USE DEF Plain, Asked, Writes, Reads
<1>1. ASSUME NEW d \in Dialogs, OpenDialog(d) \/ Cancel(d) \/ Dismiss
      PROVE  UNCHANGED <<calls, stale, sel>> \/ \E c \in GoodCalls : Asked(c) /\ Send(c) /\ sel' = sel
  <2>1. CASE OpenDialog(d) /\ d = "enroll"
    <3> DEFINE c == Plain("persons")
    <3>1. Send(c) /\ sel' = sel
      BY <2>1 DEF OpenDialog
    <3>2. c \in GoodCalls
      BY ReadsAreGood
    <3>3. Asked(c)
      OBVIOUS
    <3> HIDE DEF c
    <3> QED
      BY <3>1, <3>2, <3>3
  <2> QED
    BY <1>1, <2>1 DEF OpenDialog, Cancel, Dismiss
<1>2. ASSUME NEW p \in Persons, NEW u \in Units, NEW v \in Given, SubmitCreate(p, u, v)
      PROVE  \E c \in GoodCalls : Asked(c) /\ Send(c) /\ sel' = sel
  <2> DEFINE c == [Plain("create") EXCEPT !.p = p, !.u = u, !.v = v]
  <2>1. c \in GoodCalls
    BY WritesAreGood, OwnerAssumption
  <2>2. Send(c) /\ sel' = sel /\ view = "staff"
    BY <1>2 DEF SubmitCreate, Acts
  <2>3. Asked(c)
    BY <2>2
  <2> HIDE DEF c
  <2> QED
    BY <2>1, <2>2, <2>3
<1>3. ASSUME NEW p \in Persons, NEW u \in Units, NEW v \in Given, SubmitEnroll(p, u, v)
      PROVE  \E c \in GoodCalls : Asked(c) /\ Send(c) /\ sel' = sel
  <2> DEFINE c == [Plain("enroll") EXCEPT !.p = p, !.u = u, !.v = v]
  <2>1. c \in GoodCalls
    BY WritesAreGood, OwnerAssumption
  <2>2. Send(c) /\ sel' = sel /\ view = "staff"
    BY <1>3 DEF SubmitEnroll, Acts
  <2>3. Asked(c)
    BY <2>2
  <2> HIDE DEF c
  <2> QED
    BY <2>1, <2>2, <2>3
<1>4. ASSUME NEW p \in Persons, NEW row \in Units, NEW v \in Given, ChangeRole(p, row, v)
      PROVE  \E c \in GoodCalls : Asked(c) /\ Send(c) /\ sel' = sel
  <2>1. PICK u \in Units : /\ staff[<<p, u>>] # "none"
                           /\ Send([Plain("role") EXCEPT !.p = p, !.u = u, !.row = row, !.v = v])
    BY <1>4 DEF ChangeRole
  <2> DEFINE c == [Plain("role") EXCEPT !.p = p, !.u = u, !.row = row, !.v = v]
  <2>2. c \in GoodCalls
    BY WritesAreGood, OwnerAssumption
  <2>3. Send(c) /\ sel' = sel /\ view = "staff"
    BY <1>4, <2>1 DEF ChangeRole, Acts
  <2>4. Asked(c)
    BY <2>1, <2>3
  <2> HIDE DEF c
  <2> QED
    BY <2>2, <2>3, <2>4
<1>5. ASSUME NEW u \in Units, SubmitUnit(u)
      PROVE  \E c \in GoodCalls : Asked(c) /\ Send(c) /\ sel' = sel
  <2> DEFINE c == [Plain("unit") EXCEPT !.u = u]
  <2>1. c \in GoodCalls
    BY WritesAreGood, OwnerAssumption DEF Given
  <2>2. Send(c) /\ sel' = sel /\ view = "units" /\ u \notin Founded
    BY <1>5 DEF SubmitUnit, Acts
  <2>3. \A i \in Pending : calls[i].op = "unit" => calls[i].u # u
    BY <1>5 DEF SubmitUnit, InFlight
  <2>4. Asked(c)
    BY <2>2, <2>3
  <2> HIDE DEF c
  <2> QED
    BY <2>1, <2>2, <2>4
<1>6. ASSUME NEW p \in Persons, Toggle(p)
      PROVE  \E c \in GoodCalls : Asked(c) /\ Send(c) /\ sel' = sel
  <2> DEFINE v == IF members[sel][p] = "yes" THEN "no" ELSE "yes"
             c == [Plain("access") EXCEPT !.p = p, !.u = sel, !.v = v]
  <2>1. /\ sel \in Units /\ v \in {"yes", "no"} /\ Send(c) /\ sel' = sel /\ view = "access"
        /\ sel # None /\ members[sel] # None /\ members[sel][p] # "none"
    BY <1>6 DEF Toggle, Acts, TInv, PageTypes
  <2> HIDE DEF v
  <2>2. c \in GoodCalls
    BY <2>1, WritesAreGood, OwnerAssumption DEF Given
  <2>3. Asked(c)
    BY <2>1
  <2> HIDE DEF c
  <2> QED
    BY <2>1, <2>2, <2>3
<1> QED
  BY <1>u, <1>1, <1>2, <1>3, <1>4, <1>5, <1>6 DEF Acting, Dialogs

LEMMA Refetched ==
    ASSUME TInv, NEW i \in Pending, ReceiveWrite(i)
    PROVE  \/ End(i)
           \/ /\ calls[i].state = "ok"
              /\ \E d \in GoodCalls :
                   /\ calls' = [calls EXCEPT ![i] = d]
                   /\ d.op = (IF calls[i].op = "unit" THEN "bus_list" ELSE "staff_list")
                   /\ d.for = calls[i].op /\ d.state = "sent" /\ d.p = calls[i].p /\ d.u = calls[i].u
                   /\ d.table = calls[i].table /\ d.list = calls[i].list /\ d.who = calls[i].who
<1> DEFINE c == calls[i]
<1>1. c \in GoodCalls /\ c.op \in {"create", "enroll", "unit"}
  BY PendingCall DEF TInv, ReceiveWrite
<1>2. ASSUME c.state = "ok", Refetch(i, IF c.op = "unit" THEN "bus_list" ELSE "staff_list")
      PROVE  \E d \in GoodCalls :
                   /\ calls' = [calls EXCEPT ![i] = d]
                   /\ d.op = (IF c.op = "unit" THEN "bus_list" ELSE "staff_list")
                   /\ d.for = c.op /\ d.state = "sent" /\ d.p = c.p /\ d.u = c.u
                   /\ d.table = c.table /\ d.list = c.list /\ d.who = c.who
  <2> DEFINE op == IF c.op = "unit" THEN "bus_list" ELSE "staff_list"
             d == [c EXCEPT !.op = op, !.for = c.op, !.state = "sent"]
  <2>0. \/ c.op \in {"create", "enroll"} /\ op = "staff_list"
        \/ c.op = "unit" /\ op = "bus_list"
    BY <1>1
  <2>1. calls' = [calls EXCEPT ![i] = d]
    BY <1>2 DEF Refetch
  <2>o. op = IF c.op = "unit" THEN "bus_list" ELSE "staff_list"
    OBVIOUS
  <2> HIDE DEF op, c
  <2>2. /\ d \in GoodCalls /\ d.op = op /\ d.for = c.op /\ d.state = "sent" /\ d.p = c.p /\ d.u = c.u
        /\ d.table = c.table /\ d.list = c.list /\ d.who = c.who
    BY <1>1, <2>0, RefetchIsGood
  <2> HIDE DEF d
  <2> QED
    BY <2>1, <2>2, <2>o
<1> QED
  BY <1>2 DEF ReceiveWrite

LEMMA ReceivedCalls ==
    ASSUME TInv, NEW i \in Pending, Receive(i)
    PROVE  \/ End(i)
           \/ /\ calls[i].state = "ok" /\ calls[i].op \in {"create", "enroll", "unit"}
              /\ \E d \in GoodCalls :
                   /\ calls' = [calls EXCEPT ![i] = d]
                   /\ d.op = (IF calls[i].op = "unit" THEN "bus_list" ELSE "staff_list")
                   /\ d.for = calls[i].op /\ d.state = "sent" /\ d.p = calls[i].p /\ d.u = calls[i].u
                   /\ d.table = calls[i].table /\ d.list = calls[i].list /\ d.who = calls[i].who
<1>1. CASE ReceiveWrite(i)
  BY <1>1, Refetched DEF ReceiveWrite
<1> QED
  BY <1>1 DEF Receive, ReceiveStaffList, ReceiveBusList, ReceivePersons, ReceiveWorkspace,
              ReceiveRole, ReceiveAccess, ReceiveReset

LEMMA ClashNext == TInv /\ NoClash /\ [Next]_vars => NoClash'
<1> SUFFICES ASSUME TInv, NoClash, [Next]_vars PROVE NoClash'
  OBVIOUS
<1>0. \A c : Narrows(c, c)
  BY DEF Narrows
<1>1. CASE UNCHANGED <<calls, stale>>
  BY <1>1 DEF NoClash, Pending
<1>2. ASSUME NEW v \in {"staff", "units"}, Go(v) PROVE NoClash'
  <2> DEFINE c == Plain(PageOf(v))
  <2>1. Adds(Turned, c) /\ stale' = Renewed(Shows(v))
    BY <1>2 DEF Go
  <2>2. c \in GoodCalls /\ Touches(c) = {Shows(v)} /\ c.op # "reset"
    <3>1. c \in GoodCalls
      BY ReadsAreGood
    <3>2. c.op = PageOf(v) /\ c.for = "none"
      BY DEF Plain
    <3> HIDE DEF c
    <3> QED
      BY <3>1, <3>2 DEF Touches, PageOf, Shows
  <2> HIDE DEF c
  <2>3. PICK k \in 1..AtOnce : /\ k \notin Pending /\ Pending' \subseteq Pending \cup {k}
                              /\ calls'[k] = c
    BY <2>1, <2>2, CallsAdded DEF TInv
  <2>4. \A i \in Pending' \cap Pending : Narrows(calls'[i], calls[i])
    BY <2>1, <2>2, CallsAdded, AlikeNarrows DEF TInv, Onward
  <2>5. Forgets /\ (Moving(Shows(v)) => Shows(v) \in stale')
    BY <2>1, RenewedForgets
  <2>6. \A i \in Pending : Clash(c, calls[i]) \subseteq stale'
    BY <2>2, <2>5 DEF Clash, Moving
  <2> QED
    BY <2>2, <2>3, <2>4, <2>5, <2>6, ClashSent
<1>9. ASSUME calls' = Left, stale \subseteq stale' PROVE NoClash'
  <2>1. Pending' \subseteq Pending /\ \A i \in Pending' : Narrows(calls'[i], calls[i])
    BY <1>9, CallsLeft, AlikeNarrows DEF TInv, Onward
  <2>2. Forgets
    BY <1>9 DEF Forgets
  <2> QED
    BY <2>1, <2>2, ClashKept
<1>3. CASE OpenAccess
  <2>1. CASE bus # {}
    BY <1>3, <1>9, <2>1 DEF OpenAccess
  <2>2. CASE bus = {}
    <3> DEFINE c == Plain("bus_list")
    <3>1. Adds(Left, c) /\ stale' = stale \cup Clashes(c)
      BY <1>3, <2>2 DEF OpenAccess
    <3>2. c \in GoodCalls /\ c.op # "reset"
      BY ReadsAreGood DEF Plain
    <3> HIDE DEF c
    <3>3. PICK k \in 1..AtOnce : /\ k \notin Pending /\ Pending' \subseteq Pending \cup {k}
                                /\ calls'[k] = c
      BY <3>1, <3>2, CallsAdded DEF TInv
    <3>4. \A i \in Pending' \cap Pending : Narrows(calls'[i], calls[i])
      BY <3>1, <3>2, CallsAdded, AlikeNarrows DEF TInv, Onward
    <3>5. Forgets /\ \A i \in Pending : Clash(c, calls[i]) \subseteq stale'
      BY <3>1 DEF Forgets, Clashes
    <3> QED
      BY <3>2, <3>3, <3>4, <3>5, ClashSent
  <2> QED
    BY <2>1, <2>2
<1>10. ASSUME NEW v \in {"staff", "units"}, Back(v) PROVE NoClash'
  BY <1>9, <1>10 DEF Back
<1>11. ASSUME NEW i \in DOMAIN calls, Arrive(i) PROVE NoClash'
  BY <1>9, <1>11 DEF Arrive
<1>12. CASE Reset
  <2> DEFINE c == Plain("reset")
  <2>1. Adds(calls, c) /\ stale' = All
    BY <1>12 DEF Reset
  <2>2. c \in GoodCalls /\ Touches(c) = All
    <3>1. c \in GoodCalls
      BY ReadsAreGood
    <3>2. c.op = "reset" /\ c.for = "none"
      BY DEF Plain
    <3> HIDE DEF c
    <3> QED
      BY <3>1, <3>2 DEF Touches, Pages
  <2> HIDE DEF c
  <2>3. PICK k \in 1..AtOnce : k \notin Pending /\ Pending' = Pending \cup {k} /\ calls'[k] = c
    BY <2>1, <2>2, CallsSent DEF TInv
  <2>4. \A i \in Pending : Narrows(calls'[i], calls[i])
    BY <1>0, <2>1, <2>2, CallsSent DEF TInv
  <2>5. Forgets
    BY <2>1 DEF Forgets, TInv, NoteTypes
  <2>6. \A i \in Pending : Clash(c, calls[i]) \subseteq stale'
    BY <2>1, <2>2 DEF Clash
  <2> QED
    BY <2>1, <2>3, <2>4, <2>5, <2>6, ClashSent
<1>4. CASE Acting
  <2>1. ASSUME NEW u \in Units, SelectUnit(u) PROVE NoClash'
    <3> DEFINE c == [Plain("workspace") EXCEPT !.u = u]
    <3>1. Adds(calls, c) /\ stale' = Renewed(u)
      BY <2>1 DEF SelectUnit
    <3>2. c \in GoodCalls /\ Touches(c) = {u} /\ c.op # "reset"
      <4>1. c \in GoodCalls
        BY ReadsAreGood
      <4>2. c.op = "workspace" /\ c.u = u /\ c.for = "none"
        BY DEF Plain
      <4> HIDE DEF c
      <4> QED
        BY <4>1, <4>2 DEF Touches, Pages
    <3> HIDE DEF c
    <3>3. PICK k \in 1..AtOnce : k \notin Pending /\ Pending' = Pending \cup {k} /\ calls'[k] = c
      BY <3>1, <3>2, CallsSent DEF TInv
    <3>4. \A i \in Pending : Narrows(calls'[i], calls[i])
      BY <1>0, <3>1, <3>2, CallsSent DEF TInv
    <3>5. Forgets /\ (Moving(u) => u \in stale')
      BY <3>1, RenewedForgets
    <3>6. \A i \in Pending : Clash(c, calls[i]) \subseteq stale'
      BY <3>2, <3>5 DEF Clash, Moving
    <3> QED
      BY <3>2, <3>3, <3>4, <3>5, <3>6, ClashSent
  <2>2. \A c : Asked(c) => c.op # "reset"
    BY DEF Asked, Writes
  <2> QED
    BY <1>1, <1>4, <2>1, <2>2, ActingMoves, SendsClash
<1>5. ASSUME NEW i \in Pending, Serve(i) PROVE NoClash'
  <2>1. PICK d \in GoodCalls : calls' = [calls EXCEPT ![i] = d] /\ SameRow(d, calls[i])
    BY <1>5, Served
  <2>2. /\ Pending' = Pending /\ calls'[i] = d
        /\ \A j \in Pending \ {i} : calls'[j] = calls[j]
    BY <2>1, CallsPut DEF TInv
  <2>3. \A j \in Pending : Narrows(calls'[j], calls[j])
    BY <1>0, <2>1, <2>2, AlikeNarrows
  <2>4. Forgets
    BY <1>5 DEF Serve, Forgets
  <2> QED
    BY <2>2, <2>3, <2>4, ClashKept
<1>6. ASSUME NEW i \in Pending, Receive(i) PROVE NoClash'
  <2>1. Forgets
    BY <1>6 DEF Receive, Forgets
  <2>2. CASE End(i)
    <3>1. Pending' \subseteq Pending /\ \A j \in Pending' : Narrows(calls'[j], calls[j])
      BY <1>0, <2>2, CallsEnd DEF TInv
    <3> QED
      BY <2>1, <3>1, ClashKept
  <2>3. ASSUME NEW d \in GoodCalls, calls' = [calls EXCEPT ![i] = d],
               calls[i].op \in {"create", "enroll", "unit"},
               d.op = (IF calls[i].op = "unit" THEN "bus_list" ELSE "staff_list"),
               d.for = calls[i].op, d.u = calls[i].u
        PROVE  NoClash'
    <3>1. /\ Pending' = Pending /\ calls'[i] = d
          /\ \A j \in Pending \ {i} : calls'[j] = calls[j]
      BY <2>3, CallsPut DEF TInv
    <3>2. Narrows(d, calls[i])
      <4>1. calls[i].for = "none"
        BY <2>3, PendingCall DEF TInv, GoodCalls, Writes
      <4> QED
        BY <2>3, <4>1 DEF Narrows, Touches, Pages
    <3> QED
      BY <1>0, <2>1, <3>1, <3>2, ClashKept
  <2> QED
    BY <1>6, <2>2, <2>3, ReceivedCalls
<1>7. CASE OthersChange
  <2>1. calls' = calls /\ Forgets
    BY <1>7 DEF OthersChange, Forgets, TInv, NoteTypes
  <2>2. Pending' = Pending
    BY <2>1 DEF Pending
  <2> QED
    BY <1>0, <2>1, <2>2, ClashKept
<1>8. ASSUME NEW i \in DOMAIN calls, Serve(i) \/ Receive(i) PROVE NoClash'
  BY <1>5, <1>6, <1>8 DEF Serve, Receive
<1> QED
  BY <1>1, <1>2, <1>3, <1>4, <1>7, <1>8, <1>10, <1>11, <1>12 DEF Next, vars
-----------------------------------------------------------------------------
(* Rows.  A profile a call has added is in the backend unless a reset has   *)
(* removed it, a unit the page shows is one there has been, and a unit that *)
(* is asked for is not.                                                     *)
There == {x \in Cells : role[x] # "none"} \cup lost
RowIn(c, r, th, bn, st) ==
    /\ (c.op \in {"create", "enroll"} /\ c.state = "ok") \/ c.for \in {"create", "enroll"} =>
         <<c.p, c.u>> \in th /\ ("staff" \in st \/ r[<<c.p, c.u>>] # "none")
    /\ c.for \in {"create", "enroll"} /\ c.table # None => "staff" \in st \/ c.table[<<c.p, c.u>>] # "none"
    /\ c.list # None => c.list \subseteq bn
    /\ c.op = "unit" /\ c.state = "sent" => c.u \notin bn
    /\ c.op \in Writes \cup {"reset"} => c.table = None /\ c.list = None /\ c.who = None

UnitsThere == /\ units \subseteq Founded /\ bus \subseteq Founded /\ Home \in Founded
              /\ sel # None => sel \in Founded
              /\ kept.units # None => kept.units \subseteq Founded
CallRows   == \A i \in Pending : RowIn(calls[i], role, There, Founded, stale)
UnitsOnce  == \A i, j \in Pending : i # j /\ calls[i].op = "unit" /\ calls[j].op = "unit"
                                    => calls[i].u # calls[j].u
RInv == UnitsThere /\ CallRows /\ UnitsOnce
KInv == TInv /\ NoClash /\ RInv

RolesGrow == \A x \in Cells : role[x] # "none" => role'[x] # "none"
Grows == There \subseteq There' /\ Founded \subseteq Founded' /\ ("staff" \in stale' \/ RolesGrow)

LEMMA RowAlike ==
    ASSUME NEW c, NEW d, NEW r, NEW th, NEW bn, NEW st, Alike(d, c), RowIn(c, r, th, bn, st)
    PROVE  RowIn(d, r, th, bn, st)
  BY DEF Alike, RowIn

LEMMA CellOf == ASSUME NEW c \in GoodCalls
                PROVE  Enrols(c) \/ c.op \in {"role", "access"} => <<c.p, c.u>> \in Cells
  BY DEF GoodCalls, Cells

LEMMA RowGrows ==
    ASSUME NEW c \in GoodCalls, NEW r, NEW r2, NEW th, NEW th2, NEW bn, NEW bn2, NEW st, NEW st2,
           RowIn(c, r, th, bn, st), th \subseteq th2, bn \subseteq bn2,
           "staff" \in st2 \/ \A x \in Cells : r[x] # "none" => r2[x] # "none",
           Enrols(c) /\ "staff" \in st => "staff" \in st2,
           c.op = "unit" /\ c.state = "sent" => c.u \notin bn2
    PROVE  RowIn(c, r2, th2, bn2, st2)
<1>1. Enrols(c) => <<c.p, c.u>> \in Cells
  BY CellOf
<1> QED
  BY <1>1 DEF RowIn, Enrols

LEMMA RowsInit == Init => RInv
<1> SUFFICES ASSUME Init PROVE RInv
  OBVIOUS
<1>1. Pending = {}
  BY DEF Init, Pending
<1>2. units \subseteq Units /\ Home \in units
  BY OwnerAssumption DEF Init
<1>3. chat = [c \in Cells |-> IF c = <<Owner, Home>> THEN "admin"
                              ELSE IF ~(units = Units) THEN "none"
                              ELSE IF c[1] = Owner THEN "yes" ELSE "no"]
  BY DEF Init
<1>4. ASSUME NEW u \in units PROVE u \in Founded
  <2>1. u \in Units /\ <<Owner, u>> \in Cells /\ (u = Home \/ units = Units)
    BY <1>2, OwnerAssumption DEF Init, Cells
  <2>2. chat[<<Owner, u>>] # "none"
    BY <1>3, <2>1
  <2> QED
    BY <2>1, <2>2 DEF Founded
<1>5. bus \subseteq units /\ (sel # None => sel \in units) /\ kept.units = None
  BY NoneAssumption DEF Init
<1> QED
  BY <1>1, <1>2, <1>4, <1>5 DEF RInv, UnitsThere, CallRows, UnitsOnce

(* The calls in progress keep their rows when the backend's tables grow.    *)
LEMMA RowKept ==
    ASSUME TInv, CallRows, Grows, Forgets, NEW i \in Pending,
           calls[i].op = "unit" /\ calls[i].state = "sent" => calls[i].u \notin Founded'
    PROVE  RowIn(calls[i], role', There', Founded', stale')
<1> DEFINE c == calls[i]
<1>1. c \in GoodCalls /\ RowIn(c, role, There, Founded, stale)
  BY PendingCall DEF TInv, CallRows
<1>2. Enrols(c) /\ "staff" \in stale => "staff" \in stale'
  BY <1>1, TouchesWhat DEF Forgets, Moving
<1> HIDE DEF c
<1>3. c.op = "unit" /\ c.state = "sent" => c.u \notin Founded'
  BY DEF c
<1>4. RowIn(c, role', There', Founded', stale')
  BY <1>1, <1>2, <1>3, RowGrows DEF Grows, RolesGrow
<1> QED
  BY <1>4 DEF c

LEMMA CallRowsKept ==
    ASSUME TInv, CallRows, Grows, Forgets, Pending' \subseteq Pending,
           \A i \in Pending' : Alike(calls'[i], calls[i]),
           \A i \in Pending : calls[i].op = "unit" /\ calls[i].state = "sent" => calls[i].u \notin Founded'
    PROVE  CallRows'
<1>1. ASSUME NEW i \in Pending' PROVE RowIn(calls'[i], role', There', Founded', stale')
  <2>1. RowIn(calls[i], role', There', Founded', stale')
    BY <1>1, RowKept
  <2> QED
    BY <1>1, <2>1, RowAlike
<1> QED
  BY <1>1 DEF CallRows

LEMMA OnceKept ==
    ASSUME UnitsOnce, Pending' \subseteq Pending,
           \A i \in Pending' : calls'[i].op = "unit" => calls[i].op = "unit" /\ calls'[i].u = calls[i].u
    PROVE  UnitsOnce'
  BY DEF UnitsOnce

LEMMA AlikeItself == \A c : Alike(c, c)
  BY DEF Alike

(* Where the backend does not change, a call may be added.                  *)
LEMMA BackendSame ==
    ASSUME UNCHANGED backend
    PROVE  /\ There' = There /\ Founded' = Founded /\ Grows /\ role' = role /\ units' = units
           /\ \A u : MembersOf(u)' = MembersOf(u)
  BY DEF backend, There, Founded, Grows, RolesGrow, MembersOf, Seen, Profiles

LEMMA CallsGoOn ==
    ASSUME TInv, RInv, UNCHANGED backend, Forgets, Pending' \subseteq Pending,
           \A i \in Pending' : Alike(calls'[i], calls[i])
    PROVE  CallRows' /\ UnitsOnce'
<1>1. Founded' = Founded /\ Grows
  BY BackendSame
<1>2. \A i \in Pending : calls[i].op = "unit" /\ calls[i].state = "sent" => calls[i].u \notin Founded'
  BY <1>1 DEF RInv, CallRows, RowIn
<1> QED
  BY <1>1, <1>2, CallRowsKept, OnceKept DEF RInv, Alike

LEMMA CallJoins ==
    ASSUME TInv, RInv, UNCHANGED backend, Forgets, NEW k, NEW c,
           k \notin Pending, Pending' \subseteq Pending \cup {k}, calls'[k] = c,
           \A i \in Pending' \cap Pending : Alike(calls'[i], calls[i]),
           c.state = "sent", c.for = "none", c.table = None, c.list = None, c.who = None,
           c.op = "unit" => /\ c.u \notin Founded
                            /\ \A i \in Pending : calls[i].op = "unit" => calls[i].u # c.u
    PROVE  CallRows' /\ UnitsOnce'
<1>1. Founded' = Founded /\ Grows
  BY BackendSame
<1>2. RowIn(c, role', There', Founded', stale')
  BY <1>1 DEF RowIn
<1>3. ASSUME NEW i \in Pending' \cap Pending PROVE RowIn(calls'[i], role', There', Founded', stale')
  <2>1. calls[i].op = "unit" /\ calls[i].state = "sent" => calls[i].u \notin Founded'
    BY <1>1 DEF RInv, CallRows, RowIn
  <2>2. RowIn(calls[i], role', There', Founded', stale')
    BY <1>1, <2>1, RowKept DEF RInv
  <2> QED
    BY <2>2, RowAlike
<1>4. CallRows'
  BY <1>2, <1>3 DEF CallRows
<1>5. UnitsOnce'
  BY DEF RInv, UnitsOnce, Alike
<1> QED
  BY <1>4, <1>5

(* Turning to a page.                                                       *)
LEMMA RowsGo == ASSUME KInv, NEW v \in {"staff", "units"}, Go(v) PROVE RInv'
<1> DEFINE c == Plain(PageOf(v))
<1>1. UNCHANGED <<backend, stores, page, kept>> /\ Adds(Turned, c) /\ Forgets
  BY RenewedForgets DEF Go
<1>2. /\ c \in GoodCalls /\ c.op \in Pages /\ c.for = "none" /\ c.list = None
      /\ c.table = None /\ c.who = None /\ c.state = "sent"
  BY ReadsAreGood DEF Plain, PageOf, Pages
<1> HIDE DEF c
<1>3. PICK k \in 1..AtOnce : k \notin Pending /\ Pending' \subseteq Pending \cup {k} /\ calls'[k] = c
  BY <1>1, <1>2, CallsAdded DEF KInv, TInv
<1>4. \A i \in Pending' \cap Pending : Alike(calls'[i], calls[i])
  BY <1>1, <1>2, CallsAdded DEF KInv, TInv, Onward
<1>5. CallRows' /\ UnitsOnce'
  BY <1>1, <1>2, <1>3, <1>4, CallJoins DEF KInv, Pages
<1>6. UnitsThere'
  BY <1>1, BackendSame DEF UnitsThere, KInv, RInv, stores, page
<1> QED
  BY <1>5, <1>6 DEF RInv

LEMMA RowsLeft ==
    ASSUME KInv, calls' = Left, UNCHANGED backend, Forgets PROVE CallRows' /\ UnitsOnce'
<1>1. Pending' \subseteq Pending /\ \A i \in Pending' : Alike(calls'[i], calls[i])
  BY CallsLeft DEF KInv, TInv, Onward
<1> QED
  BY <1>1, CallsGoOn DEF KInv

LEMMA RowsBack == ASSUME KInv, NEW v \in {"staff", "units"}, Back(v) PROVE RInv'
<1>1. UNCHANGED <<backend, kept>> /\ sel' = None /\ calls' = Left /\ Forgets
  BY DEF Back, Mounts, Forgets
<1>2. bus' = bus \/ (kept.units # None /\ bus' = kept.units)
  BY DEF Back, HydrateStaff, HydrateUnits
<1>3. CallRows' /\ UnitsOnce'
  BY <1>1, RowsLeft
<1>4. UnitsThere'
  BY <1>1, <1>2, BackendSame DEF UnitsThere, KInv, RInv
<1> QED
  BY <1>3, <1>4 DEF RInv

LEMMA RowsArrive == ASSUME KInv, NEW i \in Pending, Arrive(i) PROVE RInv'
<1> DEFINE c == calls[i]
<1>1. UNCHANGED backend /\ sel' = None /\ calls' = Left /\ Forgets
  BY DEF Arrive, Mounts, Forgets
<1>2. c.list # None => c.list \subseteq Founded
  BY DEF KInv, RInv, CallRows, RowIn
<1>3. /\ bus' = bus \/ (c.op \in Pages /\ c.state = "ok" /\ bus' = c.list)
      /\ kept'.units = kept.units \/ (c.op \in Pages /\ c.state = "ok" /\ kept'.units = c.list)
  BY DEF Arrive, HydrateStaff, HydrateUnits, KInv, TInv, CacheTypes, Payloads
<1>4. c.op \in Pages /\ c.state = "ok" => c.list # None
  BY PendingCall DEF KInv, TInv, GoodCalls, Brought
<1>5. CallRows' /\ UnitsOnce'
  BY <1>1, RowsLeft
<1>6. UnitsThere'
  BY <1>1, <1>2, <1>3, <1>4, BackendSame DEF UnitsThere, KInv, RInv
<1> QED
  BY <1>5, <1>6 DEF RInv

LEMMA RowsAccess == ASSUME KInv, OpenAccess PROVE RInv'
<1>1. UNCHANGED <<backend, bus, kept>> /\ sel' = None /\ Forgets
  BY DEF OpenAccess, Mounts, Forgets
<1>2. UnitsThere'
  BY <1>1, BackendSame DEF UnitsThere, KInv, RInv
<1>3. CASE calls' = Left
  BY <1>1, <1>2, <1>3, RowsLeft DEF RInv
<1>4. CASE Adds(Left, Plain("bus_list"))
  <2> DEFINE c == Plain("bus_list")
  <2>1. /\ c \in GoodCalls /\ c.op = "bus_list" /\ c.for = "none" /\ c.list = None
        /\ c.table = None /\ c.who = None /\ c.state = "sent" /\ Adds(Left, c)
    BY <1>4, ReadsAreGood DEF Plain
  <2> HIDE DEF c
  <2>2. PICK k \in 1..AtOnce : k \notin Pending /\ Pending' \subseteq Pending \cup {k} /\ calls'[k] = c
    BY <2>1, CallsAdded DEF KInv, TInv
  <2>3. \A i \in Pending' \cap Pending : Alike(calls'[i], calls[i])
    BY <2>1, CallsAdded DEF KInv, TInv, Onward
  <2>4. CallRows' /\ UnitsOnce'
    BY <1>1, <2>1, <2>2, <2>3, CallJoins DEF KInv
  <2> QED
    BY <1>2, <2>4 DEF RInv
<1> QED
  BY <1>3, <1>4 DEF OpenAccess

(* What the owner does on a page.                                           *)
LEMMA RowsSent ==
    ASSUME KInv, UNCHANGED backend, Forgets, NEW c \in GoodCalls, Adds(calls, c),
           c.state = "sent", c.for = "none", c.table = None, c.list = None, c.who = None,
           c.op = "unit" => /\ c.u \notin Founded
                            /\ \A i \in Pending : calls[i].op = "unit" => calls[i].u # c.u
    PROVE  CallRows' /\ UnitsOnce'
<1>1. PICK k \in 1..AtOnce : k \notin Pending /\ Pending' = Pending \cup {k} /\ calls'[k] = c
  BY CallsSent DEF KInv, TInv
<1>2. \A i \in Pending' \cap Pending : Alike(calls'[i], calls[i])
  BY CallsSent, AlikeItself DEF KInv, TInv
<1> QED
  BY <1>1, <1>2, CallJoins DEF KInv

LEMMA RowsReset == KInv /\ Reset => RInv'
<1> SUFFICES ASSUME KInv, Reset PROVE RInv'
  OBVIOUS
<1> DEFINE c == Plain("reset")
<1>1. /\ c \in GoodCalls /\ c.op = "reset" /\ c.for = "none" /\ c.list = None
      /\ c.table = None /\ c.who = None /\ c.state = "sent"
  BY ReadsAreGood DEF Plain
<1>2. Adds(calls, c) /\ UNCHANGED <<backend, stores, page, kept>> /\ Forgets
  BY DEF Reset, Forgets, KInv, TInv, NoteTypes
<1> HIDE DEF c
<1>3. CallRows' /\ UnitsOnce'
  BY <1>1, <1>2, RowsSent
<1>4. UnitsThere'
  BY <1>2, BackendSame DEF UnitsThere, KInv, RInv, stores, page
<1> QED
  BY <1>3, <1>4 DEF RInv

LEMMA RowsActing == ASSUME KInv, Acting PROVE RInv'
<1>1. UNCHANGED <<backend, stores, kept>>
  BY ActingMoves DEF KInv
<1>2. Founded' = Founded /\ units' = units /\ UNCHANGED <<bus, kept>>
  BY <1>1, BackendSame DEF stores
<1>3. CASE UNCHANGED <<calls, stale, sel>>
  <2>1. Pending' = Pending /\ Forgets
    BY <1>3 DEF Pending, Forgets
  <2>2. CallRows' /\ UnitsOnce'
    BY <1>1, <1>3, <2>1, AlikeItself, CallsGoOn DEF KInv
  <2> QED
    BY <1>2, <1>3, <2>2 DEF KInv, RInv, UnitsThere
<1>5. ASSUME NEW c \in GoodCalls, Asked(c), Send(c), sel' = sel PROVE RInv'
  <2>1. CallRows' /\ UnitsOnce'
    BY <1>1, <1>5, RowsSent DEF Asked, Send, Forgets
  <2> QED
    BY <1>2, <1>5, <2>1 DEF KInv, RInv, UnitsThere
<1>6. ASSUME NEW u \in Units, SelectUnit(u) PROVE RInv'
  <2> DEFINE c == [Plain("workspace") EXCEPT !.u = u]
  <2>1. /\ c \in GoodCalls /\ c.op = "workspace" /\ c.for = "none" /\ c.list = None
        /\ c.table = None /\ c.who = None /\ c.state = "sent"
    BY ReadsAreGood DEF Plain
  <2>2. Adds(calls, c) /\ sel' = u /\ u \in bus /\ Forgets
    BY <1>6, RenewedForgets DEF SelectUnit
  <2> HIDE DEF c
  <2>3. CallRows' /\ UnitsOnce'
    BY <1>1, <2>1, <2>2, RowsSent
  <2> QED
    BY <1>2, <2>2, <2>3 DEF KInv, RInv, UnitsThere
<1> QED
  BY <1>3, <1>5, <1>6, ActingMoves DEF KInv

(* What a write changes in the backend.                                     *)
LEMMA EffectMoves ==
    ASSUME BackendTypes, units \subseteq Founded, NEW c \in GoodCalls, Effect(c)
    PROVE  /\ c.op \in Writes /\ lost' = lost
           /\ c.op \in {"create", "enroll", "role"} => role'[<<c.p, c.u>>] = c.v /\ c.v # "none"
           /\ \A x \in Cells : c.op \notin {"create", "enroll", "role"} \/ x # <<c.p, c.u>>
                               => role'[x] = role[x]
           /\ units' = IF c.op = "unit" THEN units \cup {c.u} ELSE units
           /\ Founded' = IF c.op = "unit" THEN Founded \cup {c.u} ELSE Founded
<1> DEFINE x == <<c.p, c.u>>
<1>1. /\ c.op \in {"create", "enroll", "role"} => x \in Cells /\ c.v # "none"
      /\ c.op = "access" => x \in Cells /\ c.v \in {"yes", "no"}
      /\ c.op = "unit" => <<Owner, c.u>> \in Cells /\ c.u \in Units
      /\ role \in [Cells -> Roles \cup {"none"}] /\ chat \in [Cells -> Members \cup {"none"}]
  <2>1. c.op = "unit" => <<Owner, c.u>> \in Cells /\ c.u \in Units
    BY OwnerAssumption DEF GoodCalls, Cells
  <2>2. /\ c.op \in {"create", "enroll", "role"} => c.v # "none"
        /\ c.op = "access" => c.v \in {"yes", "no"}
    BY DEF GoodCalls, Given
  <2> QED
    BY <2>1, <2>2, CellOf DEF Enrols, BackendTypes, Tables
<1>2. \A u \in Units : <<Owner, u>> \in Cells
  BY OwnerAssumption DEF Cells
<1>3. CASE c.op \in {"create", "enroll"} /\ c.u \in units /\ Enrolled(c.p, c.u, c.v)
  <2>1. c.u \in Founded /\ \A old : old # "none" => Upsert(old) # "none"
    BY <1>3 DEF Upsert
  <2>2. ASSUME NEW u \in Units PROVE u \in Founded' <=> u \in Founded
    <3>1. <<Owner, u>> # x => chat'[<<Owner, u>>] = chat[<<Owner, u>>]
      BY <1>1, <1>2, <1>3 DEF Enrolled
    <3>2. <<Owner, u>> = x => u \in Founded /\ chat'[x] # "none"
      BY <1>1, <1>2, <1>3, <2>1 DEF Enrolled, Founded
    <3> QED
      BY <3>1, <3>2 DEF Founded
  <2>3. Founded' = Founded
    BY <2>2 DEF Founded
  <2> QED
    BY <1>1, <1>3, <2>3 DEF Enrolled, Writes
<1>4. CASE c.op = "role" /\ RoleGiven(c.p, c.u, c.v)
  BY <1>1, <1>4 DEF RoleGiven, Writes, Founded
<1>5. CASE c.op = "unit" /\ UnitMade(c.u)
  <2>1. Founded' = Founded \cup {c.u}
    BY <1>1, <1>2, <1>5 DEF UnitMade, Founded
  <2> QED
    BY <1>1, <1>5, <2>1 DEF UnitMade, Writes
<1>6. CASE c.op = "access" /\ c.u \in units /\ AccessGiven(c.p, c.u, c.v)
  <2>2. ASSUME NEW u \in Units PROVE u \in Founded' <=> u \in Founded
    <3>1. <<Owner, u>> # x => chat'[<<Owner, u>>] = chat[<<Owner, u>>]
      BY <1>1, <1>2, <1>6 DEF AccessGiven
    <3>2. <<Owner, u>> = x => u \in Founded /\ chat'[x] # "none"
      BY <1>1, <1>2, <1>6 DEF AccessGiven
    <3> QED
      BY <3>1, <3>2 DEF Founded
  <2>3. Founded' = Founded
    BY <2>2 DEF Founded
  <2> QED
    BY <1>1, <1>6, <2>3 DEF AccessGiven, Writes
<1>7. \/ c.op \in {"create", "enroll"} /\ c.u \in units /\ Enrolled(c.p, c.u, c.v)
      \/ c.op = "role" /\ RoleGiven(c.p, c.u, c.v)
      \/ c.op = "unit" /\ UnitMade(c.u)
      \/ c.op = "access" /\ c.u \in units /\ AccessGiven(c.p, c.u, c.v)
  BY DEF Effect, Enrollable
<1> QED
  BY <1>3, <1>4, <1>5, <1>6, <1>7

(* A reset moves the profiles it removes to those lost.                     *)
LEMMA WipedMoves ==
    ASSUME BackendTypes, NEW k \in 0..3, Wiped(k)
    PROVE  There \subseteq There' /\ Founded' = Founded /\ units' \subseteq {Home}
  BY DEF Wiped, There, Founded

LEMMA StatementMoves ==
    ASSUME BackendTypes, NEW k, Statement(k)
    PROVE  There \subseteq There' /\ Founded' = Founded /\ units' \subseteq units \cup {Home}
<1>1. ASSUME Inserted(k), UNCHANGED <<chat, lost>>
      PROVE  There \subseteq There' /\ Founded' = Founded /\ units' \subseteq units \cup {Home}
  <2>1. Founded' = Founded
    BY <1>1 DEF Founded
  <2>2. /\ units' \subseteq units \cup {Home}
        /\ \A x \in Cells : role[x] # "none" => role'[x] # "none"
    BY <1>1, OwnerAssumption DEF Inserted, BackendTypes, Tables, Cells
  <2> QED
    BY <1>1, <2>1, <2>2 DEF There
<1> QED
  BY <1>1, WipedMoves, BackendSame DEF Statement

LEMMA GivenGrows ==
    ASSUME BackendTypes, NEW p \in Persons, NEW u \in Founded,
           \/ \E v \in Given : Enrolled(p, u, v) \/ RoleGiven(p, u, v)
           \/ \E v \in {"yes", "no"} : AccessGiven(p, u, v)
    PROVE  There \subseteq There' /\ Founded' = Founded /\ units' = units /\ RolesGrow
<1>1. /\ <<p, u>> \in Cells /\ \A v \in Given : v # "none"
      /\ role \in [Cells -> Roles \cup {"none"}] /\ chat \in [Cells -> Members \cup {"none"}]
      /\ \A w \in Units : <<Owner, w>> \in Cells
      /\ \A old : old # "none" => Upsert(old) # "none"
  BY OwnerAssumption DEF Given, Founded, Cells, BackendTypes, Tables, Upsert
<1>2. units' = units /\ lost' = lost /\ RolesGrow
  BY <1>1 DEF Enrolled, RoleGiven, AccessGiven, RolesGrow
<1>3. ASSUME NEW w \in Units PROVE w \in Founded' <=> w \in Founded
  <2>1. <<Owner, w>> # <<p, u>> => chat'[<<Owner, w>>] = chat[<<Owner, w>>]
    BY <1>1 DEF Enrolled, RoleGiven, AccessGiven
  <2>2. <<Owner, w>> = <<p, u>> => w \in Founded /\ chat'[<<p, u>>] # "none"
    BY <1>1 DEF Enrolled, RoleGiven, AccessGiven, Founded
  <2> QED
    BY <2>1, <2>2 DEF Founded
<1>4. Founded' = Founded
  BY <1>3 DEF Founded
<1> QED
  BY <1>2, <1>4 DEF There, RolesGrow

(* What other owners do leaves the tab behind in what it touches.           *)
LEMMA OthersMoves ==
    ASSUME TInv, RInv, OthersChange
    PROVE  /\ There \subseteq There' /\ Founded' = Founded /\ units' \subseteq Founded
           /\ UNCHANGED <<stores, page, kept, calls>> /\ stale \subseteq stale'
           /\ \/ stale' = All
              \/ /\ RolesGrow /\ units' = units
                 /\ \E p \in Persons, u \in units :
                      \/ /\ Enrollable(p, u) \/ Unnamed(p) \/ role[<<p, u>>] # "none"
                         /\ \E v \in Given : Enrolled(p, u, v) \/ RoleGiven(p, u, v)
                         /\ stale' = stale \cup {"staff", u}
                      \/ /\ Profiles(p) # {} /\ \E v \in {"yes", "no"} : AccessGiven(p, u, v)
                         /\ stale' = stale \cup {u}
<1>0. UNCHANGED <<stores, page, kept, calls>>
  BY DEF OthersChange
<1>1. ASSUME NEW k \in 0..3, Wiped(k), stale' = All
      PROVE  /\ There \subseteq There' /\ Founded' = Founded /\ units' \subseteq Founded
             /\ stale \subseteq stale'
  BY <1>1, WipedMoves DEF TInv, NoteTypes, RInv, UnitsThere
<1>2. ASSUME NEW p \in Persons, NEW u \in units,
             \/ /\ Enrollable(p, u) \/ Unnamed(p) \/ role[<<p, u>>] # "none"
                /\ \E v \in Given : Enrolled(p, u, v) \/ RoleGiven(p, u, v)
                /\ stale' = stale \cup {"staff", u}
             \/ /\ Profiles(p) # {} /\ \E v \in {"yes", "no"} : AccessGiven(p, u, v)
                /\ stale' = stale \cup {u}
      PROVE  /\ There \subseteq There' /\ Founded' = Founded /\ units' = units /\ RolesGrow
             /\ stale \subseteq stale' /\ units' \subseteq Founded
  <2>1. u \in Founded
    BY DEF RInv, UnitsThere
  <2>2. There \subseteq There' /\ Founded' = Founded /\ units' = units /\ RolesGrow
    BY <1>2, <2>1, GivenGrows DEF TInv
  <2> QED
    BY <1>2, <2>2 DEF RInv, UnitsThere
<1>3. \A v \in Given : v # "none"
  BY DEF Given
<1>4. \/ \E k \in 0..3 : Wiped(k) /\ stale' = All
      \/ \E p \in Persons, u \in units :
            \/ /\ Enrollable(p, u) \/ Unnamed(p) \/ role[<<p, u>>] # "none"
               /\ \E v \in Given : Enrolled(p, u, v) \/ RoleGiven(p, u, v)
               /\ stale' = stale \cup {"staff", u}
            \/ /\ Profiles(p) # {} /\ \E v \in {"yes", "no"} : AccessGiven(p, u, v)
               /\ stale' = stale \cup {u}
  BY <1>3 DEF OthersChange
<1> QED
  BY <1>0, <1>1, <1>2, <1>4

LEMMA RowsServe == ASSUME KInv, NEW i \in Pending, Serve(i) PROVE RInv' /\ Grows
<1> DEFINE c == calls[i]
<1>1. PICK d \in GoodCalls :
        /\ calls' = [calls EXCEPT ![i] = d]
        /\ SameRow(d, c) /\ c.state = "sent"
        /\ Wrote(c, d) \/ Copied(c, d) \/ Restarted(c, d)
  BY Served DEF KInv
<1>2. /\ Pending' = Pending /\ calls'[i] = d
      /\ \A j \in Pending \ {i} : calls'[j] = calls[j]
  BY <1>1, CallsPut DEF KInv, TInv
<1>3. /\ c \in GoodCalls /\ c \in Calls /\ BackendTypes /\ RowIn(c, role, There, Founded, stale)
      /\ units \subseteq Founded /\ Home \in Founded
      /\ c.op = "reset" => All \subseteq stale
      /\ Enrols(c) => <<c.p, c.u>> \in Cells
  BY PendingCall, CellOf DEF KInv, TInv, NoClash, RInv, UnitsThere, CallRows, GoodCalls
<1>4. UNCHANGED <<stores, page, kept, stale>> /\ Forgets
  BY DEF Serve, Forgets
<1>5. UnitsOnce'
  BY <1>1, <1>2, OnceKept DEF SameRow, KInv, RInv
<1>o. \A j \in Pending : j # i /\ c.op = "unit" /\ calls[j].op = "unit" => calls[j].u # c.u
  BY DEF KInv, RInv, UnitsOnce
<1>6. /\ Grows /\ units' \subseteq Founded'
      /\ Founded' = (IF c.op = "unit" /\ Wrote(c, d) THEN Founded \cup {c.u} ELSE Founded)
  <2> HIDE DEF c
  <2>1. CASE Wrote(c, d)
    <3>1. /\ \A x \in Cells : role[x] # "none" => role'[x] # "none"
          /\ lost' = lost
          /\ units' = IF c.op = "unit" THEN units \cup {c.u} ELSE units
          /\ Founded' = IF c.op = "unit" THEN Founded \cup {c.u} ELSE Founded
      BY <1>3, <2>1, EffectMoves DEF Wrote
    <3> QED
      BY <1>3, <2>1, <3>1 DEF Grows, There, RolesGrow
  <2>2. CASE Copied(c, d)
    <3>1. ~(c.op = "unit" /\ Wrote(c, d)) \/ Founded' = Founded \cup {c.u}
      BY <1>3, EffectMoves DEF Wrote
    <3> QED
      BY <1>3, <2>2, <3>1, BackendSame DEF Copied
  <2>3. CASE Restarted(c, d)
    <3>1. c.op = "reset" /\ "staff" \in stale'
      BY <1>3, <1>4, <2>3 DEF Restarted, All
    <3> QED
      BY <1>3, <2>3, <3>1, StatementMoves DEF Restarted, Grows, c
  <2> QED
    BY <1>1, <2>1, <2>2, <2>3 DEF c
<1>7. ASSUME NEW j \in Pending, j # i PROVE RowIn(calls'[j], role', There', Founded', stale')
  <2>1. calls[j].op = "unit" /\ calls[j].state = "sent" => calls[j].u \notin Founded'
    BY <1>6, <1>7, <1>o DEF KInv, RInv, CallRows, RowIn
  <2> QED
    BY <1>2, <1>4, <1>6, <1>7, <2>1, RowKept DEF KInv, RInv
<1>8. RowIn(d, role', There', Founded', stale')
  <2> HIDE DEF c
  <2>1. CASE Wrote(c, d)
    <3>1. /\ c.op \in {"create", "enroll"} => role'[<<c.p, c.u>>] # "none" /\ <<c.p, c.u>> \in There'
          /\ c.for = "none" /\ d.state # "sent"
      <4>1. c.op \in {"create", "enroll"} => role'[<<c.p, c.u>>] # "none"
        BY <1>3, <2>1, EffectMoves DEF Wrote
      <4> QED
        BY <1>3, <2>1, <4>1 DEF Wrote, There, GoodCalls, Enrols, Writes
    <3> QED
      BY <1>1, <1>3, <2>1, <3>1 DEF RowIn, SameRow, Wrote
  <2>2. CASE Copied(c, d)
    <3>1. There' = There /\ Founded' = Founded /\ role' = role
      BY <2>2, BackendSame DEF Copied
    <3>2. c.op \in Writes \cup {"reset"} => d.table = c.table /\ d.list = c.list /\ d.who = c.who
      BY <2>2 DEF Copied, Writes, Pages
    <3>3. c.op \in {"create", "enroll"} => d.state = "failed"
      BY <2>2 DEF Copied, Writes
    <3>4. c.for \in {"create", "enroll"} => "staff" \in stale \/ role[<<c.p, c.u>>] # "none"
      BY <1>3 DEF RowIn
    <3> QED
      BY <1>1, <1>3, <1>4, <2>2, <3>1, <3>2, <3>3, <3>4 DEF RowIn, SameRow, Copied
  <2>3. CASE Restarted(c, d)
    <3>1. c.op = "reset" /\ c.for = "none"
      BY <1>3, <2>3 DEF Restarted, GoodCalls
    <3> QED
      BY <1>1, <1>3, <2>3, <3>1 DEF RowIn, SameRow, Restarted
  <2> QED
    BY <1>1, <2>1, <2>2, <2>3 DEF c
<1>9. CallRows'
  BY <1>2, <1>7, <1>8 DEF CallRows
<1>10. UnitsThere'
  BY <1>4, <1>6 DEF stores, page, UnitsThere, KInv, RInv, Grows
<1> QED
  BY <1>5, <1>6, <1>9, <1>10 DEF RInv

(* What an answer changes in the stores and the page.                       *)
LEMMA ReceiveMoves ==
    ASSUME TInv, NEW i \in Pending, Receive(i)
    PROVE  /\ UNCHANGED <<backend, view, sel>> /\ calls[i].state \in {"ok", "failed"}
           /\ stale' = IF calls[i].state = "failed" THEN stale \cup Touches(calls[i]) ELSE stale
           /\ calls[i].op = "staff_list" /\ calls[i].state = "ok" =>
                staff' = calls[i].table /\ staffBus' = calls[i].list
           /\ calls[i].op # "staff_list" \/ calls[i].state # "ok" => staffBus' = staffBus
           /\ calls[i].op = "role" /\ calls[i].state = "ok" =>
                \A x \in Cells : staff'[x] = IF x[1] = calls[i].p /\ staff[x] # "none"
                                             THEN calls[i].v ELSE staff[x]
           /\ calls[i].op \notin {"staff_list", "role"} \/ calls[i].state # "ok" => staff' = staff
           /\ bus' = IF calls[i].op = "bus_list" /\ calls[i].state = "ok" THEN calls[i].list ELSE bus
           /\ calls[i].op = "workspace" /\ calls[i].state = "ok" =>
                members' = [members EXCEPT ![calls[i].u] = calls[i].who]
           /\ calls[i].op = "access" /\ calls[i].state = "ok" /\ members[calls[i].u] # None =>
                members' = [members EXCEPT ![calls[i].u][calls[i].p] =
                              IF @ = "none" THEN @ ELSE calls[i].v]
           /\ calls[i].op \notin {"workspace", "access"} \/ calls[i].state # "ok"
                \/ (calls[i].op = "access" /\ members[calls[i].u] = None) => members' = members
           /\ added' = added \/ (calls[i].op = "staff_list" /\ calls[i].here /\ added' = <<calls[i].p, calls[i].u>>)
           /\ kept'.units \in {kept.units, units, None}
<1> DEFINE c == calls[i]
<1>1. c \in GoodCalls /\ c.state \in {"ok", "failed"} /\ c.for \in Writes \cup {"none"}
  <2>1. c \in GoodCalls /\ c.state # "sent"
    BY PendingCall DEF TInv, Receive
  <2> HIDE DEF c
  <2> QED
    BY <2>1 DEF GoodCalls, Calls
<1>2. /\ UNCHANGED <<backend, view>>
      /\ stale' = IF c.state = "failed" THEN stale \cup Touches(c) ELSE stale
  BY DEF Receive
<1>f. c.op = "bus_list" => c.for \notin {"create", "enroll"}
  BY <1>1 DEF GoodCalls
<1>3. ASSUME ReceiveStaffList(i)
      PROVE  /\ c.op = "staff_list" /\ UNCHANGED <<sel, bus, members>>
             /\ IF c.state = "ok" THEN staff' = c.table /\ staffBus' = c.list
                ELSE UNCHANGED <<staff, staffBus>>
             /\ added' = added \/ (c.here /\ added' = <<c.p, c.u>>)
  BY <1>3 DEF ReceiveStaffList, Fetched
<1>4. ASSUME ReceiveBusList(i)
      PROVE  /\ c.op = "bus_list" /\ UNCHANGED <<sel, staff, staffBus, members>>
             /\ bus' = IF c.state = "ok" THEN c.list ELSE bus
             /\ added' = added
  BY <1>4, <1>f DEF ReceiveBusList, Fetched
<1>5. ASSUME ReceivePersons(i) PROVE c.op = "persons" /\ UNCHANGED <<sel, staff, staffBus, bus, members, added>>
  BY <1>5 DEF ReceivePersons
<1>6. ASSUME ReceiveWorkspace(i)
      PROVE  /\ c.op = "workspace" /\ UNCHANGED <<sel, staff, staffBus, bus, added>>
             /\ members' = IF c.state = "ok" THEN [members EXCEPT ![c.u] = c.who] ELSE members
  BY <1>6 DEF ReceiveWorkspace, Kept
<1>7. ASSUME ReceiveWrite(i)
      PROVE  /\ c.op \in {"create", "enroll", "unit"}
             /\ UNCHANGED <<sel, staff, staffBus, bus, members, added>>
  BY <1>7 DEF ReceiveWrite, Refetch, Kept, stores
<1>8. ASSUME ReceiveRole(i)
      PROVE  /\ c.op = "role" /\ UNCHANGED <<sel, staffBus, bus, members, added>>
             /\ staff' = IF c.state = "failed" THEN staff
                    ELSE [x \in Cells |-> IF x[1] = c.p /\ staff[x] # "none" THEN c.v ELSE staff[x]]
  BY <1>8 DEF ReceiveRole
<1>9. ASSUME ReceiveAccess(i)
      PROVE  /\ c.op = "access" /\ UNCHANGED <<sel, staff, staffBus, bus, added>>
             /\ members' = IF c.state = "failed" \/ members[c.u] = None THEN members
                      ELSE [members EXCEPT ![c.u][c.p] = IF @ = "none" THEN @ ELSE c.v]
  BY <1>9 DEF ReceiveAccess
<1>r. ASSUME ReceiveReset(i)
      PROVE  c.op = "reset" /\ UNCHANGED <<sel, staff, staffBus, bus, members, added>>
  BY <1>r DEF ReceiveReset, Kept, stores
<1>k. kept'.units \in {kept.units, units, None}
  BY DEF Receive, ReceiveReset, TInv, CacheTypes, Payloads
<1>10. \/ ReceiveStaffList(i) \/ ReceiveBusList(i) \/ ReceivePersons(i) \/ ReceiveWorkspace(i)
       \/ ReceiveWrite(i) \/ ReceiveRole(i) \/ ReceiveAccess(i) \/ ReceiveReset(i)
  BY DEF Receive
<1> HIDE DEF c
<1>11. CASE ReceiveStaffList(i)
  BY <1>1, <1>2, <1>3, <1>11, <1>k DEF c
<1>12. CASE ReceiveBusList(i) \/ ReceivePersons(i) \/ ReceiveWrite(i) \/ ReceiveReset(i)
  BY <1>1, <1>2, <1>4, <1>5, <1>7, <1>r, <1>12, <1>k DEF c
<1>13. CASE ReceiveWorkspace(i)
  BY <1>1, <1>2, <1>6, <1>13, <1>k DEF c
<1>14. CASE ReceiveRole(i)
  BY <1>1, <1>2, <1>8, <1>14, <1>k DEF c
<1>15. CASE ReceiveAccess(i)
  BY <1>1, <1>2, <1>9, <1>15, <1>k DEF c
<1> QED
  BY <1>10, <1>11, <1>12, <1>13, <1>14, <1>15

LEMMA RowsReceive == ASSUME KInv, NEW i \in Pending, Receive(i) PROVE RInv' /\ Grows
<1> DEFINE c == calls[i]
<1>1. c \in GoodCalls /\ RowIn(c, role, There, Founded, stale)
  BY PendingCall DEF KInv, TInv, RInv, CallRows
<1>2. /\ UNCHANGED <<backend, sel>> /\ Forgets /\ Grows
      /\ Founded' = Founded /\ units' = units
      /\ There' = There /\ role' = role /\ stale \subseteq stale'
  BY ReceiveMoves, BackendSame DEF KInv, Forgets
<1>3. UnitsThere'
  <2>1. bus' = bus \/ (c.list # None /\ bus' = c.list)
    BY <1>1, ReceiveMoves DEF KInv, GoodCalls, Brought
  <2>2. kept'.units \in {kept.units, units, None}
    BY ReceiveMoves DEF KInv
  <2> HIDE DEF c
  <2> QED
    BY <1>1, <1>2, <2>1, <2>2 DEF RowIn, UnitsThere, KInv, RInv
<1>5. CASE End(i)
  <2>1. Pending' \subseteq Pending /\ \A j \in Pending' : calls'[j] = calls[j]
    BY <1>5, CallsEnd DEF KInv, TInv
  <2>2. CallRows' /\ UnitsOnce'
    BY <1>2, <2>1, AlikeItself, CallsGoOn DEF KInv
  <2> QED
    BY <1>2, <1>3, <2>2 DEF RInv
<1>6. ASSUME NEW d \in GoodCalls, calls' = [calls EXCEPT ![i] = d], c.state = "ok",
             c.op \in {"create", "enroll", "unit"},
             d.op = (IF c.op = "unit" THEN "bus_list" ELSE "staff_list"),
             d.for = c.op, d.state = "sent", d.p = c.p, d.u = c.u, d.table = c.table, d.list = c.list
      PROVE  CallRows' /\ UnitsOnce'
  <2>1. /\ Pending' = Pending /\ calls'[i] = d
        /\ \A j \in Pending \ {i} : calls'[j] = calls[j]
    BY <1>6, CallsPut DEF KInv, TInv
  <2>3. UnitsOnce'
    BY <1>6, <2>1, OnceKept DEF KInv, RInv
  <2>4. ASSUME NEW j \in Pending, j # i PROVE RowIn(calls'[j], role', There', Founded', stale')
    <3>1. calls[j].op = "unit" /\ calls[j].state = "sent" => calls[j].u \notin Founded'
      BY <1>2 DEF KInv, RInv, CallRows, RowIn
    <3> QED
      BY <1>2, <2>1, <2>4, <3>1, RowKept DEF KInv, RInv
  <2> HIDE DEF c
  <2>2. RowIn(d, role', There', Founded', stale')
    BY <1>1, <1>2, <1>6 DEF RowIn, Writes
  <2>5. CallRows'
    BY <2>1, <2>2, <2>4 DEF CallRows
  <2> QED
    BY <2>3, <2>5
<1> QED
  BY <1>2, <1>3, <1>5, <1>6, ReceivedCalls DEF KInv, RInv

LEMMA RowsOthers == ASSUME KInv, OthersChange PROVE RInv' /\ Grows
<1>1. /\ UNCHANGED <<stores, page, kept, calls>> /\ Founded' = Founded /\ units' \subseteq Founded
      /\ stale \subseteq stale' /\ There \subseteq There'
      /\ stale' = All \/ RolesGrow
  BY OthersMoves DEF KInv
<1>2. Pending' = Pending /\ Forgets
  BY <1>1, CallsSame DEF KInv, TInv, Forgets
<1>3. Grows
  BY <1>1 DEF Grows, All
<1>4. \A j \in Pending : calls[j].op = "unit" /\ calls[j].state = "sent" => calls[j].u \notin Founded'
  BY <1>1 DEF KInv, RInv, CallRows, RowIn
<1>5. CallRows' /\ UnitsOnce'
  BY <1>1, <1>2, <1>3, <1>4, AlikeItself, CallRowsKept, OnceKept DEF KInv, RInv
<1>6. UnitsThere'
  BY <1>1 DEF stores, page, UnitsThere, KInv, RInv
<1> QED
  BY <1>3, <1>5, <1>6 DEF RInv

LEMMA KnownInit == Init => KInv
  BY TypesInit, ClashInit, RowsInit DEF KInv

LEMMA KnownNext == KInv /\ [Next]_vars => KInv' /\ Grows
<1> SUFFICES ASSUME KInv, [Next]_vars PROVE KInv' /\ Grows
  OBVIOUS
<1>1. TInv' /\ NoClash'
  BY TypesNext, ClashNext DEF KInv
<1>2. CASE UNCHANGED vars
  <2>1. Grows /\ Founded' = Founded /\ units' = units /\ Forgets
    BY <1>2, BackendSame DEF vars, Forgets
  <2>2. UnitsThere'
    BY <1>2, <2>1 DEF vars, stores, page, UnitsThere, KInv, RInv
  <2>3. CallRows' /\ UnitsOnce'
    BY <1>2, <2>1, AlikeItself, CallsGoOn DEF vars, Pending, KInv
  <2> QED
    BY <1>1, <2>1, <2>2, <2>3 DEF KInv, RInv
<1>3. ASSUME NEW v \in {"staff", "units"}, Go(v) \/ Back(v) PROVE RInv' /\ Grows
  BY <1>3, RowsGo, RowsBack, BackendSame DEF Go, Back, Mounts
<1>4. CASE OpenAccess \/ Acting \/ Reset
  <2>1. UNCHANGED backend
    BY <1>4, ActingMoves DEF KInv, OpenAccess, Mounts, Reset
  <2> QED
    BY <1>1, <1>4, <2>1, RowsAccess, RowsActing, RowsReset, BackendSame DEF KInv
<1>5. ASSUME NEW i \in DOMAIN calls, Serve(i) \/ Receive(i) \/ Arrive(i) PROVE RInv' /\ Grows
  <2>1. i \in Pending
    BY <1>5 DEF Serve, Receive, Arrive
  <2>2. CASE Arrive(i)
    BY <2>1, <2>2, RowsArrive, BackendSame DEF Arrive, Mounts
  <2> QED
    BY <1>5, <2>1, <2>2, RowsServe, RowsReceive
<1>6. CASE OthersChange
  BY <1>1, <1>6, RowsOthers DEF KInv
<1> QED
  BY <1>1, <1>2, <1>3, <1>4, <1>5, <1>6 DEF Next, KInv

-----------------------------------------------------------------------------
(* The profile the password dialog announces is a row of the backend, of    *)
(* the table behind the dialog, and of every list that may yet replace it.  *)
(* The dialog is open on the staff page only, where no page is waited for.  *)
HInv == /\ \A i \in Pending : Enrols(calls[i]) /\ calls[i].here => view = "staff"
        /\ added # None => view = "staff"
        /\ \A i \in Pending : calls[i].op = "staff_page" => view # "staff"
AInv ==
    added # None =>
      /\ added \in There
      /\ "staff" \notin stale =>
           /\ role[added] # "none" /\ staff[added] # "none"
           /\ \A i \in Pending : calls[i].op = "staff_list" /\ calls[i].table # None =>
                calls[i].table[added] # "none"

LEMMA HereKept ==
    ASSUME TInv, NEW i \in Pending, Serve(i) \/ Receive(i), i \in Pending'
    PROVE  calls'[i].here = calls[i].here
<1> DEFINE c == calls[i]
           d == calls'[i]
<1>1. c \in Calls /\ i \in DOMAIN calls
  BY PendingCall DEF TInv, CallTypes, GoodCalls, Pending
<1>2. ASSUME NEW x, calls' = [calls EXCEPT ![i].state = x]
      PROVE  d.here = c.here
  <2>1. d = [c EXCEPT !.state = x]
    BY <1>1, <1>2
  <2> HIDE DEF c, d
  <2> QED
    BY <1>1, <2>1 DEF Calls
<1>3. ASSUME NEW x, NEW y, calls' = [calls EXCEPT ![i].ran = y, ![i].state = x]
      PROVE  d.here = c.here
  <2>1. d = [c EXCEPT !.ran = y, !.state = x]
    BY <1>1, <1>3
  <2> HIDE DEF c, d
  <2> QED
    BY <1>1, <2>1 DEF Calls
<1>4. ASSUME NEW x, NEW y, calls' = [calls EXCEPT ![i].table = y, ![i].state = x]
      PROVE  d.here = c.here
  <2>1. d = [c EXCEPT !.table = y, !.state = x]
    BY <1>1, <1>4
  <2> HIDE DEF c, d
  <2> QED
    BY <1>1, <2>1 DEF Calls
<1>5. ASSUME NEW x, NEW y, calls' = [calls EXCEPT ![i].list = y, ![i].state = x]
      PROVE  d.here = c.here
  <2>1. d = [c EXCEPT !.list = y, !.state = x]
    BY <1>1, <1>5
  <2> HIDE DEF c, d
  <2> QED
    BY <1>1, <2>1 DEF Calls
<1>6. ASSUME NEW x, NEW y, calls' = [calls EXCEPT ![i].who = y, ![i].state = x]
      PROVE  d.here = c.here
  <2>1. d = [c EXCEPT !.who = y, !.state = x]
    BY <1>1, <1>6
  <2> HIDE DEF c, d
  <2> QED
    BY <1>1, <2>1 DEF Calls
<1>7. CASE Serve(i)
  <2>1. CASE ServeWrite(i) \/ Refused(i)
    BY <1>2, <2>1 DEF ServeWrite, Refused
  <2>2. CASE ServeReset(i)
    BY <1>3, <2>2 DEF ServeReset
  <2>3. CASE ServeRead(i)
    BY <1>4, <1>5, <1>6, <2>3 DEF ServeRead
  <2> QED
    BY <1>7, <2>1, <2>2, <2>3 DEF Serve
<1>8. CASE Receive(i)
  <2>1. ~End(i)
    BY <1>1 DEF End, Pending
  <2>2. PICK op : Refetch(i, op)
    BY <1>8, <2>1 DEF Receive, ReceiveStaffList, ReceiveBusList, ReceivePersons, ReceiveWorkspace,
              ReceiveWrite, ReceiveRole, ReceiveAccess, ReceiveReset
  <2>3. d = [c EXCEPT !.op = op, !.for = c.op, !.state = "sent"]
    BY <1>1, <2>2 DEF Refetch
  <2>4. d.here = c.here
    <3> HIDE DEF c, d
    <3> QED
      BY <1>1, <2>3 DEF Calls
  <2> QED
    BY <2>4
<1> QED
  BY <1>7, <1>8

LEMMA HereInit == Init => HInv
  BY DEF Init, HInv, Pending

LEMMA HereLeft ==
    ASSUME TInv, HInv, added' = None, NEW c \in GoodCalls, c.op = "bus_list", c.for = "none",
           calls' = Left \/ Adds(Left, c)
    PROVE  HInv'
<1>1. CASE calls' = Left
  <2>1. \A i \in Pending' : ~calls'[i].here /\ calls'[i].op # "staff_page"
    BY <1>1, CallsLeft DEF TInv, Onward, Alike, Pages
  <2> QED
    BY <2>1 DEF HInv
<1>2. CASE Adds(Left, c)
  <2>1. PICK k \in 1..AtOnce : k \notin Pending /\ Pending' \subseteq Pending \cup {k} /\ calls'[k] = c
    BY <1>2, CallsAdded DEF TInv
  <2>2. \A i \in Pending' \cap Pending : ~calls'[i].here /\ calls'[i].op # "staff_page"
    BY <1>2, CallsAdded DEF TInv, Onward, Alike, Pages
  <2>3. ~Enrols(c) /\ c.op # "staff_page"
    BY DEF Enrols
  <2> QED
    BY <2>1, <2>2, <2>3 DEF HInv
<1> QED
  BY <1>1, <1>2

LEMMA HereSent ==
    ASSUME TInv, HInv, UNCHANGED view, added' \in {added, None}, NEW k, NEW c, k \notin Pending,
           Pending' \subseteq Pending \cup {k}, calls'[k] = c,
           \A i \in Pending' \cap Pending : calls'[i] = calls[i],
           Enrols(c) => view = "staff", c.op = "staff_page" => view # "staff"
    PROVE  HInv'
<1>1. ASSUME NEW i \in Pending'
      PROVE  /\ Enrols(calls'[i]) /\ calls'[i].here => view = "staff"
             /\ calls'[i].op = "staff_page" => view # "staff"
  BY <1>1 DEF HInv
<1> QED
  BY <1>1 DEF HInv

LEMMA HereNext == TInv /\ HInv /\ [Next]_vars => HInv'
<1> SUFFICES ASSUME TInv, HInv, [Next]_vars PROVE HInv'
  OBVIOUS
<1>p. Plain("bus_list") \in GoodCalls /\ Plain("bus_list").op = "bus_list" /\ Plain("bus_list").for = "none"
  BY ReadsAreGood DEF Plain
<1>1. CASE UNCHANGED <<calls, view>> /\ added' \in {added, None}
  BY <1>1 DEF HInv, Pending
<1>2. ASSUME NEW v \in {"staff", "units"}, Go(v) PROVE HInv'
  <2> DEFINE c == Plain(PageOf(v))
  <2>1. /\ Adds(Turned, c) /\ UNCHANGED <<view, added>> /\ view # v
        /\ c \in GoodCalls /\ ~Enrols(c) /\ (c.op = "staff_page" => v = "staff")
    BY <1>2, ReadsAreGood DEF Go, page, Plain, PageOf, Enrols
  <2> HIDE DEF c
  <2>2. PICK k \in 1..AtOnce : k \notin Pending /\ Pending' \subseteq Pending \cup {k} /\ calls'[k] = c
    BY <2>1, CallsAdded DEF TInv
  <2>3. \A i \in Pending' \cap Pending : calls'[i] = calls[i]
    BY <2>1, CallsAdded DEF TInv
  <2> QED
    BY <2>1, <2>2, <2>3, HereSent
<1>3. ASSUME NEW v \in {"staff", "units"}, Back(v) PROVE HInv'
  BY <1>p, <1>3, HereLeft DEF Back, Mounts
<1>4. CASE OpenAccess
  BY <1>p, <1>4, HereLeft DEF OpenAccess, Mounts
<1>5. ASSUME NEW i \in Pending, Arrive(i) PROVE HInv'
  BY <1>p, <1>5, HereLeft DEF Arrive, Mounts
<1>6. ASSUME NEW c \in GoodCalls, Adds(calls, c), UNCHANGED view, added' \in {added, None},
             Enrols(c) => view = "staff", c.op # "staff_page"
      PROVE  HInv'
  <2>1. PICK k \in 1..AtOnce : k \notin Pending /\ Pending' \subseteq Pending \cup {k} /\ calls'[k] = c
    BY <1>6, CallsSent DEF TInv
  <2>2. \A i \in Pending : calls'[i] = calls[i]
    BY <1>6, CallsSent DEF TInv
  <2> QED
    BY <1>6, <2>1, <2>2, HereSent
<1>7. CASE Reset
  <2> DEFINE c == Plain("reset")
  <2>1. c \in GoodCalls /\ c.op = "reset" /\ c.for = "none" /\ Adds(calls, c) /\ UNCHANGED <<view, added>>
    BY <1>7, ReadsAreGood DEF Reset, page, Plain
  <2> HIDE DEF c
  <2> QED
    BY <1>6, <2>1 DEF Enrols
<1>8. CASE Acting
  <2>1. UNCHANGED view /\ added' \in {added, None}
    BY <1>8, ActingMoves
  <2>2. ASSUME NEW c \in GoodCalls, Asked(c), Send(c) PROVE HInv'
    BY <1>6, <2>1, <2>2 DEF Asked, Send, Enrols, Writes
  <2>3. ASSUME NEW u \in Units, SelectUnit(u) PROVE HInv'
    <3> DEFINE c == [Plain("workspace") EXCEPT !.u = u]
    <3>1. c \in GoodCalls /\ c.op = "workspace" /\ c.for = "none" /\ Adds(calls, c)
      BY <2>3, ReadsAreGood DEF SelectUnit, Plain
    <3> HIDE DEF c
    <3> QED
      BY <1>6, <2>1, <3>1 DEF Enrols
  <2> QED
    BY <1>1, <1>8, <2>1, <2>2, <2>3, ActingMoves
<1>9. ASSUME NEW i \in Pending, Serve(i) PROVE HInv'
  <2>1. PICK d \in GoodCalls : calls' = [calls EXCEPT ![i] = d] /\ SameRow(d, calls[i])
    BY <1>9, Served
  <2>2. /\ Pending' = Pending /\ calls'[i] = d
        /\ \A j \in Pending \ {i} : calls'[j] = calls[j]
    BY <2>1, CallsPut DEF TInv
  <2>3. UNCHANGED <<view, added>> /\ calls'[i].here = calls[i].here
    BY <1>9, <2>2, HereKept DEF Serve, page
  <2>4. \A j \in Pending : /\ Enrols(calls'[j]) => Enrols(calls[j])
                           /\ calls'[j].op = calls[j].op /\ calls'[j].here = calls[j].here
    BY <2>1, <2>2, <2>3 DEF SameRow, Enrols
  <2> QED
    BY <2>2, <2>3, <2>4 DEF HInv
<1>10. ASSUME NEW i \in Pending, Receive(i) PROVE HInv'
  <2>1. /\ UNCHANGED view
        /\ added' = added \/ (calls[i].op = "staff_list" /\ calls[i].here /\ added' = <<calls[i].p, calls[i].u>>)
    BY <1>10, ReceiveMoves
  <2>2. added' # None => view = "staff"
    <3>1. calls[i].op = "staff_list" => Enrols(calls[i])
      BY PendingCall DEF TInv, GoodCalls, Enrols
    <3> QED
      BY <2>1, <3>1 DEF HInv
  <2>3. CASE End(i)
    <3>1. Pending' \subseteq Pending /\ \A j \in Pending' : calls'[j] = calls[j]
      BY <2>3, CallsEnd DEF TInv
    <3> QED
      BY <2>1, <2>2, <3>1 DEF HInv
  <2>4. ASSUME NEW d \in GoodCalls, calls' = [calls EXCEPT ![i] = d],
               calls[i].op \in {"create", "enroll", "unit"}, d.for = calls[i].op,
               d.op = (IF calls[i].op = "unit" THEN "bus_list" ELSE "staff_list")
        PROVE  HInv'
    <3>1. /\ Pending' = Pending /\ calls'[i] = d
          /\ \A j \in Pending \ {i} : calls'[j] = calls[j]
      BY <2>4, CallsPut DEF TInv
    <3>2. calls'[i].here = calls[i].here /\ (Enrols(d) => Enrols(calls[i])) /\ d.op # "staff_page"
      BY <1>10, <2>4, <3>1, HereKept DEF Enrols
    <3> QED
      BY <2>1, <2>2, <3>1, <3>2 DEF HInv
  <2> QED
    BY <1>10, <2>3, <2>4, ReceivedCalls
<1>11. CASE OthersChange
  BY <1>1, <1>11 DEF OthersChange, page
<1>12. ASSUME NEW i \in DOMAIN calls, Serve(i) \/ Receive(i) \/ Arrive(i) PROVE HInv'
  BY <1>5, <1>9, <1>10, <1>12 DEF Serve, Receive, Arrive
<1> QED
  BY <1>1, <1>2, <1>3, <1>4, <1>7, <1>8, <1>11, <1>12 DEF Next, vars, page

LEMMA AddedReceive == ASSUME KInv, HInv, AInv, NEW i \in Pending, Receive(i) PROVE AInv'
<1> DEFINE c == calls[i]
<1>1. c \in GoodCalls /\ RowIn(c, role, There, Founded, stale)
  BY PendingCall DEF KInv, TInv, RInv, CallRows
<1>0. UNCHANGED backend
  BY ReceiveMoves DEF KInv
<1>2. /\ There' = There /\ role' = role /\ c.state \in {"ok", "failed"}
      /\ stale' = IF c.state = "failed" THEN stale \cup Touches(c) ELSE stale
      /\ added' = added \/ (c.op = "staff_list" /\ added' = <<c.p, c.u>>)
  BY <1>0, ReceiveMoves, BackendSame DEF KInv
<1>3. c.op = "staff_list" => "staff" \in Touches(c) /\ c.for \in {"create", "enroll"}
  <2> HIDE DEF c
  <2> QED
    BY <1>1, TouchesWhat DEF GoodCalls
<1>4. /\ Pending' \subseteq Pending
      /\ \A j \in Pending' : \/ calls'[j] = calls[j]
                             \/ calls'[j].table = None
  <2>1. CASE End(i)
    BY <2>1, CallsEnd DEF KInv, TInv
  <2>2. ASSUME NEW d \in GoodCalls, calls' = [calls EXCEPT ![i] = d], c.op \in {"create", "enroll", "unit"},
               d.table = c.table
        PROVE  /\ Pending' \subseteq Pending
               /\ \A j \in Pending' : \/ calls'[j] = calls[j]
                                      \/ calls'[j].table = None
    BY <1>1, <2>2, CallsPut DEF KInv, TInv, RowIn, Writes
  <2> QED
    BY <2>1, <2>2, ReceivedCalls DEF KInv
<1>5. CASE c.op = "staff_list"
  <2>1. End(i)
    BY <1>5, ReceivedCalls DEF KInv
  <2>2. Pending' = Pending \ {i} /\ \A j \in Pending' : calls'[j] = calls[j]
    BY <2>1, CallsEnd DEF KInv, TInv
  <2>3. ASSUME "staff" \notin stale'
        PROVE  /\ c.state = "ok" /\ "staff" \notin stale /\ staff' = c.table /\ c.table # None
               /\ \A j \in Pending' : calls'[j].op # "staff_list"
    <3>1. c.state = "ok" /\ "staff" \notin stale
      BY <1>2, <1>3, <1>5, <2>3
    <3>2. staff' = c.table /\ c.table # None
      BY <1>1, <1>5, <3>1, ReceiveMoves DEF KInv, GoodCalls, Brought
    <3>3. ASSUME NEW j \in Pending', calls'[j].op = "staff_list" PROVE FALSE
      <4>1. j \in Pending /\ j # i /\ calls[j] \in GoodCalls /\ calls[j].op = "staff_list"
        BY <2>2, <3>3, PendingCall DEF KInv, TInv
      <4>2. "staff" \in Touches(calls[j])
        BY <4>1, TouchesWhat
      <4>3. "staff" \in Clash(c, calls[j])
        BY <1>3, <1>5, <4>1, <4>2 DEF Clash
      <4> QED
        BY <3>1, <4>1, <4>3 DEF KInv, NoClash
    <3> QED
      BY <3>1, <3>2, <3>3
  <2> HIDE DEF c
  <2>4. CASE added' = <<c.p, c.u>>
    BY <1>1, <1>2, <1>3, <1>5, <2>3, <2>4 DEF AInv, RowIn
  <2>5. CASE added' = added
    <3>1. added # None /\ "staff" \notin stale' => c.table[added] # "none"
      BY <1>5, <2>3 DEF AInv, c
    <3> QED
      BY <1>2, <2>3, <2>5, <3>1 DEF AInv
  <2> QED
    BY <1>2, <1>5, <2>4, <2>5
<1>6. CASE c.op # "staff_list"
  <2>1. added' = added /\ stale \subseteq stale'
    BY <1>2, <1>6
  <2>2. \A x \in Cells : staff[x] # "none" => staff'[x] # "none"
    <3>1. CASE c.op = "role" /\ c.state = "ok"
      <4>1. \A x \in Cells : staff'[x] = staff[x] \/ staff'[x] = c.v
        BY <3>1, ReceiveMoves DEF KInv
      <4>2. c.v # "none"
        BY <1>1, <3>1 DEF GoodCalls, Given
      <4> QED
        BY <4>1, <4>2
    <3>2. CASE ~(c.op = "role" /\ c.state = "ok")
      BY <1>6, <3>2, ReceiveMoves DEF KInv
    <3> QED
      BY <3>1, <3>2
  <2>3. added # None => added \in Cells
    BY DEF KInv, TInv, PageTypes
  <2> QED
    BY <1>2, <1>4, <2>1, <2>2, <2>3 DEF AInv
<1> QED
  BY <1>5, <1>6

LEMMA AddedServe == ASSUME KInv, AInv, NEW i \in Pending, Serve(i) PROVE AInv'
<1>1. PICK d \in GoodCalls :
        /\ calls' = [calls EXCEPT ![i] = d]
        /\ SameRow(d, calls[i]) /\ calls[i].state = "sent"
        /\ Wrote(calls[i], d) \/ Copied(calls[i], d) \/ Restarted(calls[i], d)
  BY Served DEF KInv
<1>2. /\ Pending' = Pending /\ calls'[i] = d
      /\ \A j \in Pending \ {i} : calls'[j] = calls[j]
  BY <1>1, CallsPut DEF KInv, TInv
<1>3. d.table = calls[i].table \/ d.table = role
  BY <1>1 DEF Wrote, Copied, Restarted
<1>4. UNCHANGED <<staff, added, stale>> /\ Grows
  BY RowsServe DEF Serve, stores, page
<1>5. added # None => added \in Cells
  BY DEF KInv, TInv, PageTypes
<1> QED
  BY <1>1, <1>2, <1>3, <1>4, <1>5 DEF AInv, SameRow, Grows, RolesGrow

(* A call that brings no list yet is sent while the dialog is open.         *)
LEMMA AddedSent ==
    ASSUME KInv, AInv, UNCHANGED backend, UNCHANGED staff, added' \in {added, None},
           added # None /\ "staff" \in stale => "staff" \in stale',
           NEW k, NEW c, Pending' \subseteq Pending \cup {k}, calls'[k] = c, c.table = None,
           \A i \in Pending' \cap Pending : calls'[i] = calls[i]
    PROVE  AInv'
<1>1. There' = There /\ role' = role
  BY BackendSame
<1>2. ASSUME NEW i \in Pending', calls'[i].table # None PROVE i \in Pending /\ calls'[i] = calls[i]
  BY <1>2
<1> QED
  BY <1>1, <1>2 DEF AInv

LEMMA AddedNext == KInv /\ HInv /\ AInv /\ [Next]_vars => AInv'
<1> SUFFICES ASSUME KInv, HInv, AInv, [Next]_vars PROVE AInv'
  OBVIOUS
<1>n. added' = None => AInv'
  BY DEF AInv
<1>1. CASE UNCHANGED <<backend, staff, calls, stale>> /\ added' \in {added, None}
  <2>1. Pending' = Pending /\ There' = There /\ role' = role
    BY <1>1, BackendSame DEF Pending
  <2> QED
    BY <1>1, <2>1 DEF AInv
<1>2. ASSUME NEW v \in {"staff", "units"}, Go(v) PROVE AInv'
  <2> DEFINE c == Plain(PageOf(v))
  <2>1. /\ Adds(Turned, c) /\ UNCHANGED <<backend, staff, added, view>> /\ view # v
        /\ stale' = Renewed(Shows(v)) /\ c \in GoodCalls /\ c.table = None
    BY <1>2, ReadsAreGood DEF Go, stores, page, Plain, PageOf
  <2> HIDE DEF c
  <2>2. added # None /\ "staff" \in stale => "staff" \in stale'
    <3>1. added # None => Shows(v) = "bus"
      BY <2>1 DEF HInv, Shows
    <3> QED
      BY <2>1, <3>1 DEF Renewed
  <2>3. PICK k \in 1..AtOnce : k \notin Pending /\ Pending' \subseteq Pending \cup {k} /\ calls'[k] = c
    BY <2>1, CallsAdded DEF KInv, TInv
  <2>4. \A i \in Pending' \cap Pending : calls'[i] = calls[i]
    BY <2>1, CallsAdded DEF KInv, TInv
  <2> QED
    BY <2>1, <2>2, <2>3, <2>4, AddedSent
<1>3. ASSUME NEW v \in {"staff", "units"}, Back(v) PROVE AInv'
  BY <1>n, <1>3 DEF Back, Mounts
<1>4. CASE OpenAccess
  BY <1>n, <1>4 DEF OpenAccess, Mounts
<1>5. ASSUME NEW i \in Pending, Arrive(i) PROVE AInv'
  BY <1>n, <1>5 DEF Arrive, Mounts
<1>6. CASE Reset
  <2>1. UNCHANGED <<backend, added>> /\ "staff" \in stale'
    BY <1>6 DEF Reset, page, All
  <2> QED
    BY <2>1, BackendSame DEF AInv
<1>7. CASE Acting
  <2>1. UNCHANGED <<backend, stores, view>> /\ added' \in {added, None}
    BY <1>7, ActingMoves DEF KInv
  <2>2. ASSUME NEW c \in GoodCalls, Asked(c), Send(c) PROVE AInv'
    <3>1. PICK k \in 1..AtOnce : k \notin Pending /\ Pending' = Pending \cup {k} /\ calls'[k] = c
      BY <2>2, CallsSent DEF KInv, TInv, Send
    <3>2. \A i \in Pending : calls'[i] = calls[i]
      BY <2>2, CallsSent DEF KInv, TInv, Send
    <3> QED
      BY <2>1, <2>2, <3>1, <3>2, AddedSent DEF Asked, Send, stores
  <2>3. ASSUME NEW u \in Units, SelectUnit(u) PROVE AInv'
    <3>1. added = None
      BY <2>3 DEF SelectUnit, Acts, HInv
    <3> QED
      BY <1>n, <2>1, <3>1
  <2> QED
    BY <1>1, <1>7, <2>1, <2>2, <2>3, ActingMoves DEF KInv, stores
<1>8. ASSUME NEW i \in DOMAIN calls, Serve(i) \/ Receive(i) \/ Arrive(i) PROVE AInv'
  BY <1>5, <1>8, AddedServe, AddedReceive DEF Serve, Receive, Arrive
<1>9. CASE OthersChange
  <2>1. UNCHANGED <<stores, page, calls>> /\ Grows /\ stale \subseteq stale'
    BY <1>9, RowsOthers, OthersMoves DEF KInv
  <2>2. added # None => added \in Cells
    BY DEF KInv, TInv, PageTypes
  <2> QED
    BY <2>1, <2>2 DEF stores, page, AInv, Pending, Grows, RolesGrow
<1> QED
  BY <1>1, <1>2, <1>3, <1>4, <1>6, <1>7, <1>8, <1>9 DEF Next, vars, stores, page

(* When the password dialog says that somebody has been added, the profile  *)
(* is in the backend unless a reset has removed it since, whatever was      *)
(* answered in between, and the table behind the dialog lists it unless the *)
(* page may lag: create and enrollExisting announce it after the refetch    *)
(* that should bring it.                                                    *)
THEOREM AnnouncedAreThere == Spec => []AddedIsThere
<1>1. Init => KInv /\ HInv /\ AInv
  BY KnownInit, HereInit DEF AInv, Init
<1>2. KInv /\ HInv /\ AInv /\ [Next]_vars => KInv' /\ HInv' /\ AInv'
  BY KnownNext, HereNext, AddedNext DEF KInv
<1>3. AInv => AddedIsThere
  BY DEF AInv, AddedIsThere, There
<1> QED
  BY <1>1, <1>2, <1>3, PTL DEF Spec

-----------------------------------------------------------------------------
(* The pages waited for.  While what a page will show does not lag, the     *)
(* lists read for it are those of the backend.                              *)
NInv == \A i \in Pending :
          /\ calls[i].op = "staff_page" /\ "staff" \notin stale =>
               calls[i].table \in {None, role} /\ calls[i].list \in {None, units}
          /\ calls[i].op = "units_page" /\ "bus" \notin stale => calls[i].list \in {None, units}

(* Of the calls that touch rows which do not lag, two only ever change the  *)
(* roles, or the access, of different persons.                              *)
LEMMA Alone ==
    ASSUME KInv, NEW i \in Pending, NEW j \in Pending, i # j, NEW x,
           x \in Touches(calls[i]), x \in Touches(calls[j]), x \notin stale
    PROVE  /\ calls[i].op = calls[j].op /\ calls[i].op \in {"role", "access"}
           /\ calls[i].p # calls[j].p
  BY DEF KInv, NoClash, Clash

(* A call that does not touch the tables leaves them, where they do not lag.*)
LEMMA ServedRows ==
    ASSUME KInv, NEW i \in Pending, Serve(i)
    PROVE  /\ "staff" \notin stale /\ "staff" \notin Touches(calls[i]) => role' = role /\ units' = units
           /\ "bus" \notin stale /\ "bus" \notin Touches(calls[i]) => units' = units
<1> DEFINE c == calls[i]
<1>1. PICK d \in GoodCalls :
        /\ SameRow(d, c)
        /\ Wrote(c, d) \/ Copied(c, d) \/ Restarted(c, d)
  BY Served DEF KInv
<1>2. /\ c \in GoodCalls /\ BackendTypes /\ units \subseteq Founded
      /\ c.op = "reset" => All \subseteq stale
  BY PendingCall DEF KInv, TInv, NoClash, RInv, UnitsThere
<1> HIDE DEF c
<1>3. /\ "staff" \notin Touches(c) => c.op \notin {"create", "enroll", "role", "unit"}
      /\ "bus" \notin Touches(c) => c.op # "unit"
  BY <1>2, TouchesWhat DEF Enrols
<1>4. CASE Wrote(c, d)
  <2>1. /\ c.op \notin {"create", "enroll", "role", "unit"} => role' = role
        /\ units' = IF c.op = "unit" THEN units \cup {c.u} ELSE units
    <3>1. c.op \notin {"create", "enroll", "role", "unit"} => c.op = "access"
      BY <1>4 DEF Wrote, Writes
    <3> QED
      BY <1>2, <1>4, <3>1, EffectMoves DEF Wrote, Effect, AccessGiven
  <2> QED
    BY <1>3, <2>1 DEF c
<1>5. CASE Copied(c, d)
  BY <1>5, BackendSame DEF Copied
<1>6. CASE Restarted(c, d)
  BY <1>2, <1>6 DEF Restarted, All
<1> QED
  BY <1>1, <1>4, <1>5, <1>6 DEF c

LEMMA OthersRows ==
    ASSUME KInv, OthersChange
    PROVE  /\ "staff" \notin stale' => role' = role /\ units' = units
           /\ "bus" \notin stale' => units' = units
  BY OthersMoves DEF KInv, All, AccessGiven

LEMMA PageSent ==
    ASSUME KInv, NInv, UNCHANGED <<role, units>>, {"staff", "bus"} \cap stale \subseteq stale',
           NEW k, NEW c, Pending' \subseteq Pending \cup {k}, calls'[k] = c, c.op \notin Pages,
           \A i \in Pending' \cap Pending : calls'[i] = calls[i]
    PROVE  NInv'
<1>1. ASSUME NEW i \in Pending', calls'[i].op \in Pages PROVE i \in Pending /\ calls'[i] = calls[i]
  BY <1>1
<1> QED
  BY <1>1 DEF NInv, Pages

LEMMA PageNext == KInv /\ NInv /\ [Next]_vars => NInv'
<1> SUFFICES ASSUME KInv, NInv, [Next]_vars PROVE NInv'
  OBVIOUS
<1>1. CASE UNCHANGED <<backend, calls, stale>>
  <2>1. Pending' = Pending /\ role' = role /\ units' = units
    BY <1>1, BackendSame DEF Pending
  <2> QED
    BY <1>1, <2>1 DEF NInv
<1>2. ASSUME NEW v \in {"staff", "units"}, Go(v) PROVE NInv'
  <2> DEFINE c == Plain(PageOf(v))
  <2>1. Adds(Turned, c) /\ c \in GoodCalls /\ c.table = None /\ c.list = None
    BY <1>2, ReadsAreGood DEF Go, Plain, PageOf
  <2> HIDE DEF c
  <2>2. PICK k \in 1..AtOnce : k \notin Pending /\ Pending' \subseteq Pending \cup {k} /\ calls'[k] = c
    BY <2>1, CallsAdded DEF KInv, TInv
  <2>3. \A i \in Pending' \cap Pending : calls'[i].op \notin Pages
    BY <2>1, CallsAdded DEF KInv, TInv, Onward, Alike
  <2> QED
    BY <2>1, <2>2, <2>3 DEF NInv, Pages
<1>3. ASSUME calls' = Left PROVE NInv'
  BY <1>3, CallsLeft DEF KInv, TInv, Onward, Alike, NInv, Pages
<1>4. ASSUME NEW v \in {"staff", "units"}, Back(v) PROVE NInv'
  BY <1>3, <1>4 DEF Back
<1>5. CASE OpenAccess
  <2>1. CASE Adds(Left, Plain("bus_list"))
    <3> DEFINE c == Plain("bus_list")
    <3>1. c \in GoodCalls /\ c.op \notin Pages /\ Adds(Left, c)
      BY <2>1, ReadsAreGood DEF Plain, Pages
    <3> HIDE DEF c
    <3>2. PICK k \in 1..AtOnce : k \notin Pending /\ Pending' \subseteq Pending \cup {k} /\ calls'[k] = c
      BY <3>1, CallsAdded DEF KInv, TInv
    <3>3. \A i \in Pending' \cap Pending : calls'[i].op \notin Pages
      BY <3>1, CallsAdded DEF KInv, TInv, Onward, Alike
    <3> QED
      BY <3>1, <3>2, <3>3 DEF NInv, Pages
  <2> QED
    BY <1>3, <1>5, <2>1 DEF OpenAccess
<1>6. ASSUME NEW i \in Pending, Arrive(i) PROVE NInv'
  BY <1>3, <1>6 DEF Arrive
<1>7. CASE Reset
  BY <1>7 DEF Reset, NInv, All
<1>8. CASE Acting
  <2>1. UNCHANGED backend /\ role' = role /\ units' = units
    BY <1>8, ActingMoves, BackendSame DEF KInv
  <2>2. ASSUME NEW c \in GoodCalls, Adds(calls, c), c.op \notin Pages, {"staff", "bus"} \cap stale \subseteq stale'
        PROVE  NInv'
    <3>1. PICK k \in 1..AtOnce : k \notin Pending /\ Pending' = Pending \cup {k} /\ calls'[k] = c
      BY <2>2, CallsSent DEF KInv, TInv
    <3>2. \A i \in Pending : calls'[i] = calls[i]
      BY <2>2, CallsSent DEF KInv, TInv
    <3> QED
      BY <2>1, <2>2, <3>1, <3>2, PageSent
  <2>3. ASSUME NEW c \in GoodCalls, Asked(c), Send(c) PROVE NInv'
    BY <2>2, <2>3 DEF Asked, Send, Writes, Pages
  <2>4. ASSUME NEW u \in Units, SelectUnit(u) PROVE NInv'
    <3> DEFINE c == [Plain("workspace") EXCEPT !.u = u]
    <3>1. c \in GoodCalls /\ c.op = "workspace" /\ Adds(calls, c) /\ stale' = Renewed(u)
      BY <2>4, ReadsAreGood DEF SelectUnit, Plain
    <3> HIDE DEF c
    <3> QED
      BY <2>2, <3>1, NameAssumption DEF Pages, Renewed
  <2> QED
    BY <1>1, <1>8, <2>1, <2>3, <2>4, ActingMoves DEF KInv
<1>9. ASSUME NEW i \in Pending, Serve(i) PROVE NInv'
  <2> DEFINE c == calls[i]
  <2>1. PICK d \in GoodCalls :
          /\ calls' = [calls EXCEPT ![i] = d] /\ SameRow(d, c)
          /\ Wrote(c, d) \/ Copied(c, d) \/ Restarted(c, d)
    BY <1>9, Served DEF KInv
  <2>2. /\ Pending' = Pending /\ calls'[i] = d /\ stale' = stale
        /\ \A j \in Pending \ {i} : calls'[j] = calls[j]
    BY <1>9, <2>1, CallsPut DEF KInv, TInv, Serve
  <2>3. ASSUME NEW j \in Pending, j # i
        PROVE  /\ calls[j].op = "staff_page" /\ "staff" \notin stale => role' = role /\ units' = units
               /\ calls[j].op = "units_page" /\ "bus" \notin stale => units' = units
    <3>1. /\ calls[j].op = "staff_page" => "staff" \in Touches(calls[j])
          /\ calls[j].op = "units_page" => "bus" \in Touches(calls[j])
      BY PendingCall, TouchesWhat DEF KInv, TInv
    <3>2. /\ calls[j].op = "staff_page" /\ "staff" \notin stale => "staff" \notin Touches(c)
          /\ calls[j].op = "units_page" /\ "bus" \notin stale => "bus" \notin Touches(c)
      BY <2>3, <3>1, Alone
    <3> QED
      BY <1>9, <3>2, ServedRows
  <2>4. ASSUME d.op \in Pages
        PROVE  /\ role' = role /\ units' = units
               /\ d.table \in {c.table, role} /\ d.list \in {c.list, units}
    <3>1. c.op = d.op /\ Copied(c, d)
      BY <2>1, <2>4 DEF SameRow, Wrote, Restarted, Writes, Pages
    <3> QED
      BY <3>1, BackendSame DEF Copied
  <2> QED
    BY <2>1, <2>2, <2>3, <2>4 DEF NInv, SameRow, Pages
<1>10. ASSUME NEW i \in Pending, Receive(i) PROVE NInv'
  <2>1. role' = role /\ units' = units /\ stale \subseteq stale'
    BY <1>10, ReceiveMoves, BackendSame DEF KInv
  <2>2. CASE End(i)
    <3>1. Pending' \subseteq Pending /\ \A j \in Pending' : calls'[j] = calls[j]
      BY <2>2, CallsEnd DEF KInv, TInv
    <3> QED
      BY <2>1, <3>1 DEF NInv
  <2>3. ASSUME NEW d \in GoodCalls, calls' = [calls EXCEPT ![i] = d],
               d.op = (IF calls[i].op = "unit" THEN "bus_list" ELSE "staff_list")
        PROVE  NInv'
    <3>1. /\ Pending' = Pending /\ calls'[i] = d
          /\ \A j \in Pending \ {i} : calls'[j] = calls[j]
      BY <2>3, CallsPut DEF KInv, TInv
    <3> QED
      BY <2>1, <2>3, <3>1 DEF NInv
  <2> QED
    BY <1>10, <2>2, <2>3, ReceivedCalls DEF KInv
<1>11. CASE OthersChange
  <2>1. UNCHANGED calls /\ stale \subseteq stale'
    BY <1>11, OthersMoves DEF KInv
  <2>2. Pending' = Pending
    BY <2>1 DEF Pending
  <2> QED
    BY <1>11, <2>1, <2>2, OthersRows DEF NInv
<1>12. ASSUME NEW i \in DOMAIN calls, Serve(i) \/ Receive(i) \/ Arrive(i) PROVE NInv'
  BY <1>6, <1>9, <1>10, <1>12 DEF Serve, Receive, Arrive
<1> QED
  BY <1>1, <1>2, <1>4, <1>5, <1>7, <1>8, <1>11, <1>12 DEF Next, vars

-----------------------------------------------------------------------------
(* The staff page.  While it does not lag, what it shows is what the        *)
(* backend holds, or is about to be replaced by that: by a list that is     *)
(* being fetched or will be, or by the answer to a change of a role.        *)
StaffCall(c, s, r, us) ==
    /\ c.op # "unit"
    /\ c.op = "staff_list" => (c.table # None => c.table = r) /\ (c.list # None => c.list = us)
    /\ c.op = "role" => s[<<c.p, c.u>>] # "none" /\ (c.state = "ok" => r[<<c.p, c.u>>] = c.v)
WillShow(c, p) ==
    \/ c.op \in {"create", "enroll"} /\ c.state # "sent"
    \/ c.op = "staff_list"
    \/ c.op = "role" /\ c.p = p /\ c.state # "sent"
Lone(r, p) == \A u, w \in Units : r[<<p, u>>] # "none" /\ r[<<p, w>>] # "none" => u = w
StaffShown ==
    /\ staffBus = units
    /\ \A x \in Cells : staff[x] # "none" => role[x] # "none"
    /\ \A i \in Pending : StaffCall(calls[i], staff, role, units)
    /\ \A p \in Persons : Lone(role, p) =>
         \A u \in Units : \/ staff[<<p, u>>] = role[<<p, u>>]
                          \/ \E i \in Pending : WillShow(calls[i], p)
SInv == view = "staff" /\ "staff" \notin stale => StaffShown

LEMMA ShownArrive ==
    ASSUME KInv, NInv, NEW i \in Pending, Arrive(i), view' = "staff", "staff" \notin stale'
    PROVE  StaffShown'
<1> DEFINE c == calls[i]
<1>1. /\ c.op = "staff_page" /\ c.state = "ok" /\ staff' = c.table /\ staffBus' = c.list
      /\ UNCHANGED backend /\ calls' = Left /\ stale' = stale
  BY DEF Arrive, Mounts, HydrateStaff
<1>2. c \in GoodCalls /\ "staff" \in Touches(c) /\ c.table # None /\ c.list # None
  BY <1>1, PendingCall, TouchesWhat DEF KInv, TInv, GoodCalls, Brought, Pages
<1>3. staff' = role /\ staffBus' = units /\ role' = role /\ units' = units
  BY <1>1, <1>2, BackendSame DEF NInv
<1>4. ASSUME NEW j \in Pending'
      PROVE  Alike(calls'[j], calls[j]) /\ calls[j].op \notin {"unit", "staff_list", "role"}
  <2>1. j \in Pending /\ Alike(calls'[j], calls[j]) /\ calls[j].op \notin Pages
    BY <1>1, CallsLeft DEF KInv, TInv, Onward
  <2>2. calls[j] \in GoodCalls /\ j # i
    BY <1>1, <2>1, PendingCall DEF KInv, TInv, Pages
  <2>3. "staff" \notin Touches(calls[j])
    BY <1>1, <1>2, <2>1, <2>2, Alone
  <2> QED
    BY <2>1, <2>2, <2>3, TouchesWhat
<1> QED
  BY <1>3, <1>4 DEF StaffShown, StaffCall, Alike

(* Turning to another page leaves the staff page as it is until it arrives. *)
LEMMA ShownGo ==
    ASSUME KInv, StaffShown, Go("units") PROVE StaffShown'
<1> DEFINE c == Plain("units_page")
<1>1. /\ UNCHANGED <<backend, staff, staffBus>> /\ Adds(Turned, c) /\ c \in GoodCalls
      /\ c.op = "units_page"
  BY ReadsAreGood DEF Go, PageOf, stores, Plain
<1> HIDE DEF c
<1>2. PICK k \in 1..AtOnce : /\ k \notin Pending /\ Pending' \subseteq Pending \cup {k}
                             /\ calls'[k] = c
  BY <1>1, CallsAdded DEF KInv, TInv
<1>3. /\ \A i \in Pending' \cap Pending : calls'[i] = calls[i]
      /\ \A i \in Pending : calls[i].op \notin Pages => i \in Pending'
  BY <1>1, CallsAdded DEF KInv, TInv, Onward
<1>4. StaffCall(c, staff, role, units)
  BY <1>1 DEF StaffCall
<1>5. \A i \in Pending' : StaffCall(calls'[i], staff, role, units)
  BY <1>2, <1>3, <1>4 DEF StaffShown
<1>6. \A i \in Pending, p \in Persons :
         WillShow(calls[i], p) => i \in Pending' /\ WillShow(calls'[i], p)
  <2>1. \A i \in Pending, p \in Persons : WillShow(calls[i], p) => calls[i].op \notin Pages
    BY DEF WillShow, Pages
  <2> QED
    BY <1>3, <2>1
<1>7. role' = role /\ units' = units
  BY <1>1, BackendSame
<1> QED
  BY <1>1, <1>5, <1>6, <1>7 DEF StaffShown

LEMMA ShownActing ==
    ASSUME KInv, StaffShown, Acting, view = "staff" PROVE StaffShown'
<1>1. UNCHANGED <<backend, stores, view>>
  BY ActingMoves DEF KInv
<1>2. CASE UNCHANGED <<calls, stale, sel>>
  BY <1>1, <1>2 DEF StaffShown, backend, stores, Pending
<1>3. ASSUME NEW c \in GoodCalls, Asked(c), Send(c) PROVE StaffShown'
  <2>1. PICK k \in 1..AtOnce : k \notin Pending /\ Pending' = Pending \cup {k} /\ calls'[k] = c
    BY <1>3, CallsSent DEF KInv, TInv, Send
  <2>2. \A i \in Pending : calls'[i] = calls[i]
    BY <1>3, CallsSent DEF KInv, TInv, Send
  <2>3. StaffCall(c, staff, role, units)
    BY <1>3 DEF Asked, StaffCall, Writes
  <2> QED
    BY <1>1, <2>1, <2>2, <2>3 DEF StaffShown, backend, stores
<1>4. ASSUME NEW u \in Units, SelectUnit(u) PROVE FALSE
  BY <1>4 DEF SelectUnit, Acts
<1> QED
  BY <1>2, <1>3, <1>4, ActingMoves DEF KInv

LEMMA ShownServe ==
    ASSUME KInv, StaffShown, "staff" \notin stale, NEW i \in Pending, Serve(i) PROVE StaffShown'
<1> DEFINE c == calls[i]
<1>1. PICK d \in GoodCalls :
        /\ calls' = [calls EXCEPT ![i] = d]
        /\ SameRow(d, c) /\ c.state = "sent"
        /\ Wrote(c, d) \/ Copied(c, d) \/ Restarted(c, d)
  BY Served DEF KInv
<1>2. /\ Pending' = Pending /\ calls'[i] = d
      /\ \A j \in Pending \ {i} : calls'[j] = calls[j]
  BY <1>1, CallsPut DEF KInv, TInv
<1>3. /\ c \in GoodCalls /\ BackendTypes /\ units \subseteq Founded
      /\ StaffCall(c, staff, role, units)
  BY PendingCall DEF KInv, TInv, RInv, UnitsThere, StaffShown
<1>4. UNCHANGED <<staff, staffBus>>
  BY DEF Serve, stores
<1>5. \A p : \A j \in Pending : WillShow(calls[j], p) => WillShow(calls'[j], p)
  BY <1>1, <1>2 DEF WillShow, SameRow
<1>r. RolesGrow /\ ~Restarted(c, d)
  <2>1. RolesGrow
    BY RowsServe DEF Grows, Serve
  <2>2. c.op = "reset" => All \subseteq stale
    BY DEF KInv, NoClash
  <2> QED
    BY <2>1, <2>2 DEF Restarted, All
<1>s. \A x \in Cells : staff'[x] # "none" => role'[x] # "none"
  BY <1>4, <1>r DEF RolesGrow, StaffShown
<1>6. ASSUME role' = role, units' = units, StaffCall(d, staff, role, units) PROVE StaffShown'
  BY <1>2, <1>4, <1>5, <1>6, <1>s DEF StaffShown
<1>j. ASSUME NEW j \in Pending, j # i, "staff" \in Touches(c)
      PROVE  /\ calls[j].op # "staff_list"
             /\ calls[j].op = "role" => c.op = "role" /\ calls[j].p # c.p
  <2>1. calls[j].op \in {"staff_list", "role"} => "staff" \in Touches(calls[j])
    BY PendingCall, TouchesWhat DEF KInv, TInv
  <2> QED
    BY <1>j, <2>1, Alone
<1>7. CASE Copied(c, d)
  <2>1. role' = role /\ units' = units
    BY <1>7 DEF Copied, backend
  <2>2. StaffCall(d, staff, role, units)
    <3> HIDE DEF c
    <3> QED
      BY <1>1, <1>3, <1>7 DEF StaffCall, SameRow, Copied, Writes
  <2> QED
    BY <1>6, <2>1, <2>2
<1>8. CASE Wrote(c, d)
  <2>1. /\ c.op \in Writes /\ c.op # "unit" /\ d.state # "sent"
        /\ c.op \in {"create", "enroll", "role"} => role'[<<c.p, c.u>>] = c.v
        /\ \A x \in Cells : c.op \notin {"create", "enroll", "role"} \/ x # <<c.p, c.u>>
                            => role'[x] = role[x]
        /\ units' = units
    <3> HIDE DEF c
    <3> QED
      BY <1>3, <1>8, EffectMoves DEF Wrote, StaffCall
  <2>2. CASE c.op \in {"create", "enroll"}
    <3>1. "staff" \in Touches(c)
      BY <1>3, <2>2, TouchesWhat DEF Enrols
    <3>2. \A j \in Pending : j # i => StaffCall(calls'[j], staff, role', units)
      BY <1>2, <1>j, <2>2, <3>1 DEF StaffCall, StaffShown
    <3>3. StaffCall(d, staff, role', units) /\ \A p : WillShow(d, p)
      <4> HIDE DEF c
      <4> QED
        BY <1>1, <2>1, <2>2 DEF StaffCall, WillShow, SameRow
    <3> QED
      BY <1>2, <1>4, <1>s, <2>1, <3>2, <3>3 DEF StaffShown
  <2>3. CASE c.op = "role"
    <3>1. "staff" \in Touches(c) /\ <<c.p, c.u>> \in Cells
      BY <1>3, <2>3, TouchesWhat, CellOf
    <3>2. ASSUME NEW j \in Pending, j # i PROVE StaffCall(calls'[j], staff, role', units)
      <4>1. calls[j] \in GoodCalls
        BY PendingCall DEF KInv, TInv
      <4>2. calls[j].op = "role" => <<calls[j].p, calls[j].u>> \in Cells /\ calls[j].p # c.p
        BY <1>j, <3>1, <3>2, <4>1, CellOf
      <4> QED
        BY <1>2, <1>j, <2>1, <3>1, <3>2, <4>2 DEF StaffCall, StaffShown
    <3>3. StaffCall(d, staff, role', units) /\ WillShow(d, c.p)
      <4> HIDE DEF c
      <4> QED
        BY <1>1, <1>3, <2>1, <2>3 DEF StaffCall, WillShow, SameRow
    <3>4. ASSUME NEW p \in Persons, Lone(role', p), NEW u \in Units
          PROVE  \/ staff'[<<p, u>>] = role'[<<p, u>>]
                 \/ \E j \in Pending' : WillShow(calls'[j], p)
      <4>1. CASE p = c.p
        BY <1>2, <3>3, <4>1
      <4>2. CASE p # c.p
        <5>1. \A w \in Units : <<p, w>> \in Cells /\ role'[<<p, w>>] = role[<<p, w>>]
          BY <2>1, <4>2 DEF Cells
        <5>2. Lone(role, p)
          BY <3>4, <5>1 DEF Lone
        <5> QED
          BY <1>2, <1>4, <1>5, <5>1, <5>2 DEF StaffShown
      <4> QED
        BY <4>1, <4>2
    <3> QED
      BY <1>2, <1>4, <1>s, <2>1, <3>2, <3>3, <3>4 DEF StaffShown
  <2>4. CASE c.op = "access"
    <3>1. role' = role
      BY <1>8, <2>4 DEF Wrote, Effect, AccessGiven
    <3>2. StaffCall(d, staff, role, units)
      <4> HIDE DEF c
      <4> QED
        BY <1>1, <2>4 DEF StaffCall, SameRow
    <3> QED
      BY <1>6, <2>1, <3>1, <3>2
  <2> QED
    BY <2>1, <2>2, <2>3, <2>4 DEF Writes
<1> QED
  BY <1>1, <1>r, <1>7, <1>8

LEMMA ShownReceive ==
    ASSUME KInv, StaffShown, "staff" \notin stale', NEW i \in Pending, Receive(i) PROVE StaffShown'
<1> DEFINE c == calls[i]
<1>1. /\ c \in GoodCalls /\ RowIn(c, role, There, Founded, stale)
      /\ StaffCall(c, staff, role, units)
  BY PendingCall DEF KInv, TInv, RInv, CallRows, StaffShown
<1>2. /\ units' = units /\ role' = role /\ c.state \in {"ok", "failed"}
      /\ stale' = IF c.state = "failed" THEN stale \cup Touches(c) ELSE stale
  BY ReceiveMoves, BackendSame DEF KInv
<1>3. "staff" \notin stale /\ ("staff" \in Touches(c) => c.state = "ok")
  BY <1>2
<1>s. \A x \in Cells : staff[x] # "none" => role[x] # "none"
  BY DEF StaffShown
<1>j. ASSUME NEW j \in Pending, j # i, "staff" \in Touches(c)
      PROVE  /\ calls[j].op # "staff_list"
             /\ calls[j].op = "role" => c.op = "role" /\ calls[j].p # c.p
  <2>1. calls[j].op \in {"staff_list", "role"} => "staff" \in Touches(calls[j])
    BY PendingCall, TouchesWhat DEF KInv, TInv
  <2> QED
    BY <1>3, <1>j, <2>1, Alone
<1>4. CASE c.op \in {"create", "enroll"}
  <2>1. "staff" \in Touches(c) /\ staff' = staff /\ staffBus' = staffBus
    BY <1>1, <1>4, TouchesWhat, ReceiveMoves DEF KInv, Enrols
  <2>3. ReceiveWrite(i)
    BY <1>4 DEF Receive, ReceiveStaffList, ReceiveBusList, ReceivePersons, ReceiveWorkspace,
              ReceiveRole, ReceiveAccess, ReceiveReset
  <2>4. Refetch(i, "staff_list")
    BY <1>3, <1>4, <2>1, <2>3 DEF ReceiveWrite
  <2>5. calls' = [calls EXCEPT ![i] = [c EXCEPT !.op = "staff_list", !.for = c.op, !.state = "sent"]]
    BY <2>4 DEF Refetch
  <2> DEFINE d == [c EXCEPT !.op = "staff_list", !.for = c.op, !.state = "sent"]
  <2> HIDE DEF c
  <2>6. /\ d \in GoodCalls /\ d.op = "staff_list" /\ d.table = c.table /\ d.list = c.list
    BY <1>1, <1>4, RefetchIsGood
  <2>7. calls' = [calls EXCEPT ![i] = d]
    BY <2>5
  <2> HIDE DEF d
  <2>8. /\ Pending' = Pending /\ calls'[i] = d
        /\ \A j \in Pending \ {i} : calls'[j] = calls[j]
    BY <2>6, <2>7, CallsPut DEF KInv, TInv
  <2>9. StaffCall(d, staff, role, units) /\ \A p : WillShow(d, p)
    BY <1>1, <1>4, <2>6 DEF StaffCall, WillShow, RowIn, Writes
  <2> QED
    BY <1>2, <1>s, <2>1, <2>8, <2>9 DEF StaffShown
<1>5. CASE c.op \notin {"create", "enroll"}
  <2>1. End(i)
    BY <1>1, <1>5, ReceivedCalls DEF KInv, StaffCall
  <2>2. Pending' = Pending \ {i} /\ \A j \in Pending' : calls'[j] = calls[j]
    BY <2>1, CallsEnd DEF KInv, TInv
  <2>3. CASE c.op = "staff_list"
    <3>1. "staff" \in Touches(c)
      BY <1>1, <2>3, TouchesWhat
    <3>2. staff' = role /\ staffBus' = units
      <4>1. c.state = "ok" /\ c.table # None /\ c.list # None
        BY <1>1, <1>3, <2>3, <3>1 DEF GoodCalls, Brought
      <4> QED
        BY <1>1, <2>3, <4>1, ReceiveMoves DEF KInv, StaffCall
    <3>3. \A j \in Pending' : StaffCall(calls'[j], staff', role, units)
      BY <1>j, <2>2, <2>3, <3>1 DEF StaffCall, StaffShown
    <3> QED
      BY <1>2, <3>2, <3>3 DEF StaffShown
  <2>4. CASE c.op = "role"
    <3>1. "staff" \in Touches(c) /\ c.state = "ok" /\ <<c.p, c.u>> \in Cells
      BY <1>1, <1>3, <2>4, TouchesWhat, CellOf
    <3>2. /\ staffBus' = staffBus
          /\ \A x \in Cells : staff'[x] = IF x[1] = c.p /\ staff[x] # "none" THEN c.v ELSE staff[x]
      BY <2>4, <3>1, ReceiveMoves DEF KInv
    <3>3. ASSUME NEW j \in Pending' PROVE StaffCall(calls'[j], staff', role, units)
      <4>1. calls[j] \in GoodCalls /\ j \in Pending /\ j # i
        BY <2>2, PendingCall DEF KInv, TInv
      <4>2. /\ calls[j].op # "staff_list"
            /\ calls[j].op = "role" => /\ <<calls[j].p, calls[j].u>> \in Cells
                                       /\ calls[j].p # c.p
        BY <1>j, <3>1, <4>1, CellOf
      <4> QED
        BY <2>2, <3>2, <4>1, <4>2 DEF StaffCall, StaffShown
    <3>4. ASSUME NEW p \in Persons, Lone(role, p), NEW u \in Units
          PROVE  \/ staff'[<<p, u>>] = role[<<p, u>>]
                 \/ \E j \in Pending' : WillShow(calls'[j], p)
      <4>0. <<p, u>> \in Cells
        BY DEF Cells
      <4>1. CASE p = c.p
        <5>1. role[<<p, c.u>>] = c.v /\ staff[<<p, c.u>>] # "none" /\ c.v # "none" /\ c.u \in Units
          <6> HIDE DEF c
          <6> QED
            BY <1>1, <2>4, <3>1, <4>1 DEF StaffCall, GoodCalls, Given
        <5>2. u # c.u => role[<<p, u>>] = "none"
          BY <3>4, <5>1 DEF Lone
        <5>3. u # c.u => staff[<<p, u>>] = "none"
          BY <4>0, <5>2 DEF StaffShown
        <5> QED
          BY <3>2, <4>0, <4>1, <5>1, <5>2, <5>3
      <4>2. CASE p # c.p
        <5>1. staff'[<<p, u>>] = staff[<<p, u>>]
          BY <3>2, <4>0, <4>2
        <5>2. ~WillShow(c, p)
          BY <2>4, <4>2 DEF WillShow
        <5> QED
          BY <2>2, <3>4, <5>1, <5>2 DEF StaffShown
      <4> QED
        BY <4>1, <4>2
    <3>5. \A x \in Cells : staff'[x] # "none" => staff[x] # "none"
      BY <3>2
    <3> QED
      BY <1>2, <1>s, <3>2, <3>3, <3>4, <3>5 DEF StaffShown
  <2>5. CASE c.op \notin {"staff_list", "role"}
    <3>1. staff' = staff /\ staffBus' = staffBus
      BY <2>5, ReceiveMoves DEF KInv
    <3>2. \A p : ~WillShow(c, p)
      BY <1>5, <2>5 DEF WillShow
    <3> QED
      BY <1>2, <1>s, <2>2, <3>1, <3>2 DEF StaffShown
  <2> QED
    BY <2>3, <2>4, <2>5
<1> QED
  BY <1>4, <1>5

LEMMA ShownNext == KInv /\ NInv /\ SInv /\ [Next]_vars => SInv'
<1> SUFFICES ASSUME KInv, NInv, SInv, [Next]_vars, view' = "staff", "staff" \notin stale' PROVE StaffShown'
  BY DEF SInv
<1>1. CASE UNCHANGED vars
  BY <1>1 DEF vars, backend, stores, page, SInv, StaffShown, Pending
<1>2. ASSUME NEW v \in {"staff", "units"}, Go(v) PROVE StaffShown'
  <2>1. view = "staff" /\ v = "units" /\ stale' = Renewed("bus")
    BY <1>2 DEF Go, page, Shows
  <2>2. "staff" \notin stale
    BY <2>1 DEF Renewed
  <2> QED
    BY <1>2, <2>1, <2>2, ShownGo DEF SInv
<1>3. ASSUME NEW v \in {"staff", "units"}, Back(v) PROVE FALSE
  BY <1>3 DEF Back, Mounts, Shows
<1>4. CASE OpenAccess \/ Reset
  BY <1>4 DEF OpenAccess, Mounts, Reset, All
<1>5. CASE Acting
  <2>1. view = "staff"
    BY <1>5, ActingMoves DEF KInv
  <2>2. "staff" \notin stale
    <3>1. CASE UNCHANGED <<calls, stale, sel>>
      BY <3>1
    <3>2. ASSUME NEW c \in GoodCalls, Send(c) PROVE "staff" \notin stale
      BY <3>2 DEF Send
    <3>3. ASSUME NEW u \in Units, SelectUnit(u) PROVE FALSE
      BY <2>1, <3>3 DEF SelectUnit, Acts
    <3> QED
      BY <1>5, <3>1, <3>2, <3>3, ActingMoves DEF KInv
  <2> QED
    BY <1>5, <2>1, <2>2, ShownActing DEF SInv
<1>6. ASSUME NEW i \in Pending, Serve(i) PROVE StaffShown'
  BY <1>6, ShownServe DEF SInv, Serve, page
<1>7. ASSUME NEW i \in Pending, Receive(i) PROVE StaffShown'
  <2>1. view = "staff" /\ "staff" \notin stale
    BY <1>7 DEF Receive
  <2> QED
    BY <1>7, <2>1, ShownReceive DEF SInv
<1>8. CASE OthersChange
  <2>1. UNCHANGED <<calls, staff, staffBus, view>> /\ role' = role /\ units' = units /\ stale \subseteq stale'
    BY <1>8, OthersMoves, OthersRows DEF KInv, stores, page
  <2> QED
    BY <2>1 DEF SInv, StaffShown, Pending
<1>9. ASSUME NEW i \in DOMAIN calls, Serve(i) \/ Receive(i) \/ Arrive(i) PROVE StaffShown'
  BY <1>6, <1>7, <1>9, ShownArrive DEF Serve, Receive, Arrive
<1> QED
  BY <1>1, <1>2, <1>3, <1>4, <1>5, <1>8, <1>9 DEF Next

-----------------------------------------------------------------------------
(* The unit page, in the same way.                                          *)
ListCall(c, us) == c.op = "bus_list" /\ c.list # None => c.list = us
WillList(c) == c.op = "bus_list" \/ (c.op = "unit" /\ c.state # "sent")
UnitsShown ==
    /\ \A i \in Pending : ListCall(calls[i], units)
    /\ bus = units \/ \E i \in Pending : WillList(calls[i])
BInv == view = "units" /\ "bus" \notin stale => UnitsShown

LEMMA ListedArrive ==
    ASSUME KInv, NInv, NEW i \in Pending, Arrive(i), view' = "units", "bus" \notin stale'
    PROVE  UnitsShown'
<1> DEFINE c == calls[i]
<1>1. /\ c.op = "units_page" /\ c.state = "ok" /\ bus' = c.list
      /\ UNCHANGED backend /\ calls' = Left /\ stale' = stale
  BY DEF Arrive, Mounts, HydrateUnits
<1>2. c \in GoodCalls /\ "bus" \in Touches(c) /\ c.list # None
  BY <1>1, PendingCall, TouchesWhat DEF KInv, TInv, GoodCalls, Brought, Pages
<1>3. bus' = units /\ units' = units
  BY <1>1, <1>2, BackendSame DEF NInv
<1>4. ASSUME NEW j \in Pending'
      PROVE  Alike(calls'[j], calls[j]) /\ calls[j].op # "bus_list"
  <2>1. j \in Pending /\ Alike(calls'[j], calls[j]) /\ calls[j].op \notin Pages
    BY <1>1, CallsLeft DEF KInv, TInv, Onward
  <2>2. calls[j] \in GoodCalls /\ j # i
    BY <1>1, <2>1, PendingCall DEF KInv, TInv, Pages
  <2>3. "bus" \notin Touches(calls[j])
    BY <1>1, <1>2, <2>1, <2>2, Alone
  <2> QED
    BY <2>1, <2>2, <2>3, TouchesWhat
<1> QED
  BY <1>3, <1>4 DEF UnitsShown, ListCall, Alike

LEMMA ListedGo ==
    ASSUME KInv, UnitsShown, Go("staff") PROVE UnitsShown'
<1> DEFINE c == Plain("staff_page")
<1>1. /\ UNCHANGED <<backend, bus>> /\ Adds(Turned, c) /\ c \in GoodCalls /\ c.op = "staff_page"
  BY ReadsAreGood DEF Go, PageOf, stores, Plain
<1> HIDE DEF c
<1>2. PICK k \in 1..AtOnce : /\ k \notin Pending /\ Pending' \subseteq Pending \cup {k}
                             /\ calls'[k] = c
  BY <1>1, CallsAdded DEF KInv, TInv
<1>3. /\ \A i \in Pending' \cap Pending : calls'[i] = calls[i]
      /\ \A i \in Pending : calls[i].op \notin Pages => i \in Pending'
  BY <1>1, CallsAdded DEF KInv, TInv, Onward
<1>4. \A i \in Pending' : ListCall(calls'[i], units)
  BY <1>1, <1>2, <1>3 DEF UnitsShown, ListCall
<1>5. \A i \in Pending : WillList(calls[i]) => i \in Pending' /\ WillList(calls'[i])
  <2>1. \A i \in Pending : WillList(calls[i]) => calls[i].op \notin Pages
    BY DEF WillList, Pages
  <2> QED
    BY <1>3, <2>1
<1>6. units' = units
  BY <1>1, BackendSame
<1> QED
  BY <1>1, <1>4, <1>5, <1>6 DEF UnitsShown

LEMMA ListedActing ==
    ASSUME KInv, UnitsShown, Acting, view = "units" PROVE UnitsShown'
<1>1. UNCHANGED <<backend, stores, view>>
  BY ActingMoves DEF KInv
<1>2. CASE UNCHANGED <<calls, stale, sel>>
  BY <1>1, <1>2 DEF UnitsShown, backend, stores, Pending
<1>3. ASSUME NEW c \in GoodCalls, Asked(c), Send(c) PROVE UnitsShown'
  <2>1. PICK k \in 1..AtOnce : k \notin Pending /\ Pending' = Pending \cup {k} /\ calls'[k] = c
    BY <1>3, CallsSent DEF KInv, TInv, Send
  <2>2. \A i \in Pending : calls'[i] = calls[i]
    BY <1>3, CallsSent DEF KInv, TInv, Send
  <2>3. ListCall(c, units)
    BY <1>3 DEF Asked, ListCall
  <2> QED
    BY <1>1, <2>1, <2>2, <2>3 DEF UnitsShown, backend, stores
<1>4. ASSUME NEW u \in Units, SelectUnit(u) PROVE FALSE
  BY <1>4 DEF SelectUnit, Acts
<1> QED
  BY <1>2, <1>3, <1>4, ActingMoves DEF KInv

LEMMA ListedServe ==
    ASSUME KInv, UnitsShown, "bus" \notin stale, NEW i \in Pending, Serve(i) PROVE UnitsShown'
<1> DEFINE c == calls[i]
<1>1. PICK d \in GoodCalls :
        /\ calls' = [calls EXCEPT ![i] = d]
        /\ SameRow(d, c) /\ c.state = "sent"
        /\ Wrote(c, d) \/ Copied(c, d) \/ Restarted(c, d)
  BY Served DEF KInv
<1>2. /\ Pending' = Pending /\ calls'[i] = d
      /\ \A j \in Pending \ {i} : calls'[j] = calls[j]
  BY <1>1, CallsPut DEF KInv, TInv
<1>3. /\ c \in GoodCalls /\ BackendTypes /\ ListCall(c, units) /\ units \subseteq Founded
      /\ ~Restarted(c, d)
  <2>1. c.op = "reset" => All \subseteq stale
    BY DEF KInv, NoClash
  <2>2. ~Restarted(c, d)
    BY <2>1 DEF Restarted, All
  <2> QED
    BY <2>2, PendingCall DEF KInv, TInv, UnitsShown, RInv, UnitsThere
<1>4. bus' = bus
  BY DEF Serve, stores
<1>5. \A j \in Pending : WillList(calls[j]) => WillList(calls'[j])
  BY <1>1, <1>2 DEF WillList, SameRow
<1>6. CASE units' = units
  <2>1. ListCall(d, units)
    <3> HIDE DEF c
    <3> QED
      BY <1>1, <1>3 DEF ListCall, SameRow, Wrote, Copied
  <2> QED
    BY <1>2, <1>4, <1>5, <1>6, <2>1 DEF UnitsShown
<1>7. CASE c.op = "unit" /\ Wrote(c, d)
  <2>1. "bus" \in Touches(c)
    BY <1>3, <1>7, TouchesWhat
  <2>2. ASSUME NEW j \in Pending, j # i PROVE calls[j].op # "bus_list"
    <3>1. calls[j].op = "bus_list" => "bus" \in Touches(calls[j])
      BY PendingCall, TouchesWhat DEF KInv, TInv
    <3> QED
      BY <1>7, <2>1, <2>2, <3>1, Alone
  <2>3. d.op = "unit" /\ d.state # "sent"
    <3> HIDE DEF c
    <3> QED
      BY <1>1, <1>7 DEF SameRow, Wrote
  <2> QED
    BY <1>2, <2>2, <2>3 DEF UnitsShown, ListCall, WillList
<1>8. units' = units \/ (c.op = "unit" /\ Wrote(c, d))
  <2> HIDE DEF c
  <2> QED
    BY <1>1, <1>3, EffectMoves DEF Wrote, Copied, backend
<1> QED
  BY <1>6, <1>7, <1>8

LEMMA ListedReceive ==
    ASSUME KInv, UnitsShown, "bus" \notin stale', NEW i \in Pending, Receive(i) PROVE UnitsShown'
<1> DEFINE c == calls[i]
<1>1. c \in GoodCalls /\ RowIn(c, role, There, Founded, stale) /\ ListCall(c, units)
  BY PendingCall DEF KInv, TInv, RInv, CallRows, UnitsShown
<1>2. /\ units' = units /\ c.state \in {"ok", "failed"}
      /\ stale' = IF c.state = "failed" THEN stale \cup Touches(c) ELSE stale
      /\ bus' = IF c.op = "bus_list" /\ c.state = "ok" THEN c.list ELSE bus
  BY ReceiveMoves, BackendSame DEF KInv
<1>3. c.op \in {"unit", "bus_list"} => c.state = "ok"
  BY <1>1, <1>2, TouchesWhat
<1>4. CASE End(i) /\ c.op # "unit"
  <2>1. Pending' = Pending \ {i} /\ \A j \in Pending' : calls'[j] = calls[j]
    BY <1>4, CallsEnd DEF KInv, TInv
  <2>2. CASE c.op = "bus_list"
    <3>1. bus' = units
      <4> HIDE DEF c
      <4> QED
        BY <1>1, <1>2, <1>3, <2>2 DEF ListCall, GoodCalls, Brought
    <3> QED
      BY <1>2, <2>1, <3>1 DEF UnitsShown
  <2>3. CASE c.op # "bus_list"
    <3>1. ~WillList(c) /\ bus' = bus
      BY <1>2, <1>4, <2>3 DEF WillList
    <3> QED
      BY <1>2, <2>1, <3>1 DEF UnitsShown
  <2> QED
    BY <2>2, <2>3
<1>5. CASE End(i) /\ c.op = "unit"
  <2>1. ReceiveWrite(i) /\ c.state = "ok"
    BY <1>3, <1>5 DEF Receive, ReceiveStaffList, ReceiveBusList, ReceivePersons, ReceiveWorkspace,
              ReceiveRole, ReceiveAccess, ReceiveReset
  <2>2. Refetch(i, "bus_list")
    BY <1>5, <2>1 DEF ReceiveWrite
  <2>3. calls'[i] # None
    <3> DEFINE d == [c EXCEPT !.op = "bus_list", !.for = c.op, !.state = "sent"]
    <3>1. d \in GoodCalls
      BY <1>1, <1>5, RefetchIsGood
    <3>2. calls' = [calls EXCEPT ![i] = d] /\ i \in DOMAIN calls
      BY <2>2 DEF Refetch, Pending
    <3> HIDE DEF d
    <3> QED
      BY <3>1, <3>2, GoodIsSome
  <2>4. calls'[i] = None
    BY <1>5 DEF End, Pending
  <2> QED
    BY <2>3, <2>4
<1>6. ASSUME NEW d \in GoodCalls, calls' = [calls EXCEPT ![i] = d],
             c.op \in {"create", "enroll", "unit"},
             d.op = (IF c.op = "unit" THEN "bus_list" ELSE "staff_list"), d.list = c.list
      PROVE  UnitsShown'
  <2>1. /\ Pending' = Pending /\ calls'[i] = d
        /\ \A j \in Pending \ {i} : calls'[j] = calls[j]
    BY <1>6, CallsPut DEF KInv, TInv
  <2> HIDE DEF c
  <2>2. ListCall(d, units) /\ (WillList(c) => WillList(d)) /\ bus' = bus
    BY <1>1, <1>2, <1>6 DEF ListCall, WillList, RowIn, Writes
  <2> QED
    BY <1>2, <2>1, <2>2 DEF UnitsShown, c
<1> QED
  BY <1>4, <1>5, <1>6, ReceivedCalls DEF KInv

LEMMA ListedNext == KInv /\ NInv /\ BInv /\ [Next]_vars => BInv'
<1> SUFFICES ASSUME KInv, NInv, BInv, [Next]_vars, view' = "units", "bus" \notin stale' PROVE UnitsShown'
  BY DEF BInv
<1>1. CASE UNCHANGED vars
  BY <1>1 DEF vars, backend, stores, page, BInv, UnitsShown, Pending
<1>2. ASSUME NEW v \in {"staff", "units"}, Go(v) PROVE UnitsShown'
  <2>1. view = "units" /\ v = "staff" /\ stale' = Renewed("staff")
    BY <1>2 DEF Go, page, Shows
  <2>2. "bus" \notin stale
    BY <2>1 DEF Renewed
  <2> QED
    BY <1>2, <2>1, <2>2, ListedGo DEF BInv
<1>3. ASSUME NEW v \in {"staff", "units"}, Back(v) PROVE FALSE
  BY <1>3 DEF Back, Mounts, Shows
<1>4. CASE OpenAccess \/ Reset
  BY <1>4 DEF OpenAccess, Mounts, Reset, All
<1>5. CASE Acting
  <2>1. view = "units"
    BY <1>5, ActingMoves DEF KInv
  <2>2. "bus" \notin stale
    <3>1. CASE UNCHANGED <<calls, stale, sel>>
      BY <3>1
    <3>2. ASSUME NEW c \in GoodCalls, Send(c) PROVE "bus" \notin stale
      BY <3>2 DEF Send
    <3>3. ASSUME NEW u \in Units, SelectUnit(u) PROVE FALSE
      BY <2>1, <3>3 DEF SelectUnit, Acts
    <3> QED
      BY <1>5, <3>1, <3>2, <3>3, ActingMoves DEF KInv
  <2> QED
    BY <1>5, <2>1, <2>2, ListedActing DEF BInv
<1>6. ASSUME NEW i \in Pending, Serve(i) PROVE UnitsShown'
  BY <1>6, ListedServe DEF BInv, Serve, page
<1>7. ASSUME NEW i \in Pending, Receive(i) PROVE UnitsShown'
  <2>1. view = "units" /\ "bus" \notin stale
    BY <1>7 DEF Receive
  <2> QED
    BY <1>7, <2>1, ListedReceive DEF BInv
<1>8. CASE OthersChange
  <2>1. UNCHANGED <<calls, bus, view>> /\ units' = units /\ stale \subseteq stale'
    BY <1>8, OthersMoves, OthersRows DEF KInv, stores, page
  <2> QED
    BY <2>1 DEF BInv, UnitsShown, Pending
<1>9. ASSUME NEW i \in DOMAIN calls, Serve(i) \/ Receive(i) \/ Arrive(i) PROVE UnitsShown'
  BY <1>6, <1>7, <1>9, ListedArrive DEF Serve, Receive, Arrive
<1> QED
  BY <1>1, <1>2, <1>3, <1>4, <1>5, <1>8, <1>9 DEF Next

-----------------------------------------------------------------------------
(* The chat access page, for the unit selected.                             *)
Selected == MembersOf(sel)
AccessCall(c, s, m, ms) ==
    /\ Enrols(c) => c.u # s
    /\ c.op = "workspace" /\ c.u = s /\ c.who # None => c.who = ms
    /\ c.op = "access" /\ c.u = s =>
         m # None /\ m[c.p] # "none" /\ (c.state = "ok" => ms[c.p] = c.v)
WillBring(c, s)    == c.op = "workspace" /\ c.u = s
WillSet(c, s, p)   == c.op = "access" /\ c.u = s /\ c.p = p /\ c.state # "sent"
MembersShown ==
    /\ \A i \in Pending : AccessCall(calls[i], sel, members[sel], Selected)
    /\ \/ \E i \in Pending : WillBring(calls[i], sel)
       \/ /\ members[sel] # None
          /\ \A p \in Persons : \/ members[sel][p] = Selected[p]
                                \/ \E i \in Pending : WillSet(calls[i], sel, p)
MInv == view = "access" /\ sel # None /\ sel \notin stale => MembersShown

(* What the backend returns of a unit's members is not changed by what is   *)
(* done in other units: whoever gets a first profile has had no access.     *)
LEMMA SelectedSeen ==
    ASSUME NEW s, sel = s, sel' = s PROVE Selected = MembersOf(s) /\ Selected' = MembersOf(s)'
  BY DEF Selected, MembersOf, Seen, Profiles

LEMMA SeenSame ==
    ASSUME NEW s \in Units,
           \A p \in Persons : chat'[<<p, s>>] = chat[<<p, s>>],
           \A p \in Persons : (Profiles(p)' = {} <=> Profiles(p) = {}) \/ chat[<<p, s>>] = "none"
    PROVE  MembersOf(s)' = MembersOf(s)
<1>1. \A p \in Persons : Seen(p, s)' = Seen(p, s)
  BY DEF Seen
<1> QED
  BY <1>1 DEF MembersOf

LEMMA ProfilesGiven ==
    ASSUME BackendTypes, NEW p \in Persons, NEW u \in Units, NEW v \in Given,
           role' = [role EXCEPT ![<<p, u>>] = v]
    PROVE  /\ Profiles(p)' # {}
           /\ \A q \in Persons : q # p => Profiles(q)' = Profiles(q)
<1>1. /\ <<p, u>> \in Cells /\ v # "none" /\ role \in [Cells -> Roles \cup {"none"}]
      /\ \A q \in Persons, w \in Units : <<q, w>> \in Cells
  BY DEF Cells, Given, BackendTypes, Tables
<1>2. u \in Profiles(p)'
  BY <1>1 DEF Profiles
<1>3. ASSUME NEW q \in Persons, q # p PROVE Profiles(q)' = Profiles(q)
  <2>1. \A w \in Units : role'[<<q, w>>] = role[<<q, w>>]
    BY <1>1, <1>3
  <2> QED
    BY <2>1 DEF Profiles
<1> QED
  BY <1>2, <1>3

LEMMA GivenSeen ==
    ASSUME BackendTypes, NEW p \in Persons, NEW u \in Units, NEW v \in Given, NEW s \in Units,
           Unknown(p) \/ Profiles(p) # {},
           (Enrolled(p, u, v) /\ u # s) \/ RoleGiven(p, u, v)
    PROVE  MembersOf(s)' = MembersOf(s)
<1>1. \A q \in Persons : chat'[<<q, s>>] = chat[<<q, s>>]
  BY DEF Enrolled, RoleGiven, BackendTypes, Cells
<1>2. Profiles(p)' # {} /\ \A q \in Persons : q # p => Profiles(q)' = Profiles(q)
  BY ProfilesGiven DEF Enrolled, RoleGiven
<1>3. Unknown(p) => chat[<<p, s>>] = "none"
  BY DEF Unknown
<1> QED
  BY <1>1, <1>2, <1>3, SeenSame

LEMMA AccessSeen ==
    ASSUME BackendTypes, NEW p \in Persons, NEW u \in Units, NEW v, NEW s \in Units,
           Profiles(p) # {}, AccessGiven(p, u, v)
    PROVE  /\ u # s => MembersOf(s)' = MembersOf(s)
           /\ u = s => \A q \in Persons : MembersOf(s)'[q] = IF q = p THEN v ELSE MembersOf(s)[q]
<1>1. \A q \in Persons : /\ Profiles(q)' = Profiles(q)
                         /\ chat'[<<q, s>>] = IF u = s /\ q = p THEN v ELSE chat[<<q, s>>]
  BY DEF AccessGiven, BackendTypes, Cells, Profiles
<1>2. u # s => MembersOf(s)' = MembersOf(s)
  BY <1>1, SeenSame
<1>3. ASSUME u = s, NEW q \in Persons
      PROVE  MembersOf(s)'[q] = IF q = p THEN v ELSE MembersOf(s)[q]
  <2>1. MembersOf(s)'[q] = Seen(q, s)' /\ MembersOf(s)[q] = Seen(q, s)
    BY DEF MembersOf
  <2> QED
    BY <1>1, <1>3, <2>1 DEF Seen
<1> QED
  BY <1>2, <1>3

LEMMA EffectSeen ==
    ASSUME BackendTypes, NEW c \in GoodCalls, Effect(c), NEW s \in Founded,
           c.op = "unit" => c.u \notin Founded, c.op \in {"create", "enroll"} => c.u # s
    PROVE  /\ ~(c.op = "access" /\ c.u = s) => MembersOf(s)' = MembersOf(s)
           /\ c.op = "access" /\ c.u = s =>
                \A q \in Persons : MembersOf(s)'[q] = IF q = c.p THEN c.v ELSE MembersOf(s)[q]
<1>1. /\ s \in Units
      /\ c.op \in {"create", "enroll", "role", "access"} => c.p \in Persons /\ c.u \in Units
      /\ c.op \in {"create", "enroll", "role"} => c.v \in Given
      /\ c.op = "unit" => c.u \in Units
  BY DEF Founded, GoodCalls, Enrols
<1>2. CASE c.op \in {"create", "enroll"}
  <2>1. Enrolled(c.p, c.u, c.v) /\ (Unknown(c.p) \/ Profiles(c.p) # {})
    BY <1>2 DEF Effect, Enrollable
  <2> QED
    BY <1>1, <1>2, <2>1, GivenSeen DEF Founded
<1>3. CASE c.op = "role"
  <2>1. RoleGiven(c.p, c.u, c.v) /\ role[<<c.p, c.u>>] # "none"
    BY <1>3 DEF Effect
  <2>2. c.u \in Profiles(c.p)
    BY <1>1, <1>3, <2>1 DEF Profiles
  <2> QED
    BY <1>1, <1>3, <2>1, <2>2, GivenSeen DEF Founded
<1>4. CASE c.op = "unit"
  <2>1. UnitMade(c.u) /\ c.u # s
    BY <1>4 DEF Effect
  <2>2. \A p \in Persons : chat'[<<p, s>>] = chat[<<p, s>>] /\ Profiles(p)' = Profiles(p)
    BY <1>1, <1>4, <2>1 DEF UnitMade, BackendTypes, Profiles, Cells, Founded
  <2> QED
    BY <1>4, <2>2, SeenSame DEF Founded
<1>5. CASE c.op = "access"
  <2>1. AccessGiven(c.p, c.u, c.v) /\ Profiles(c.p) # {}
    BY <1>5 DEF Effect
  <2> QED
    BY <1>1, <1>5, <2>1, AccessSeen DEF Founded
<1> QED
  BY <1>2, <1>3, <1>4, <1>5 DEF Effect

LEMMA OthersSeen ==
    ASSUME KInv, OthersChange, NEW s \in Units, s \notin stale' PROVE MembersOf(s)' = MembersOf(s)
<1>1. BackendTypes /\ units \subseteq Units
  BY DEF KInv, TInv, BackendTypes
<1>2. PICK p \in Persons, u \in units :
         \/ /\ Enrollable(p, u) \/ Unnamed(p) \/ role[<<p, u>>] # "none"
            /\ \E v \in Given : Enrolled(p, u, v) \/ RoleGiven(p, u, v)
            /\ stale' = stale \cup {"staff", u}
         \/ /\ Profiles(p) # {} /\ \E v \in {"yes", "no"} : AccessGiven(p, u, v)
            /\ stale' = stale \cup {u}
  BY OthersMoves DEF KInv, All
<1>3. u \in Units /\ u # s
  BY <1>1, <1>2
<1>4. CASE /\ Enrollable(p, u) \/ Unnamed(p) \/ role[<<p, u>>] # "none"
           /\ \E v \in Given : Enrolled(p, u, v) \/ RoleGiven(p, u, v)
  <2>1. Unknown(p) \/ Profiles(p) # {}
    BY <1>3, <1>4 DEF Enrollable, Unnamed, Profiles
  <2> QED
    BY <1>1, <1>3, <1>4, <2>1, GivenSeen
<1>5. CASE Profiles(p) # {} /\ \E v \in {"yes", "no"} : AccessGiven(p, u, v)
  BY <1>1, <1>3, <1>5, AccessSeen
<1> QED
  BY <1>2, <1>4, <1>5

LEMMA BroughtSelect ==
    ASSUME KInv, NEW u \in Units, SelectUnit(u), u \notin stale' PROVE MembersShown'
<1> DEFINE c == [Plain("workspace") EXCEPT !.u = u]
<1>1. /\ c \in GoodCalls /\ c.op = "workspace" /\ c.u = u /\ c.for = "none" /\ c.who = None
  BY ReadsAreGood DEF Plain
<1>2. Adds(calls, c) /\ sel' = u /\ ~Moving(u)
  BY DEF SelectUnit, Renewed
<1> HIDE DEF c
<1>3. PICK k \in 1..AtOnce : k \notin Pending /\ Pending' = Pending \cup {k} /\ calls'[k] = c
  BY <1>1, <1>2, CallsSent DEF KInv, TInv
<1>4. \A i \in Pending : calls'[i] = calls[i]
  BY <1>1, <1>2, CallsSent DEF KInv, TInv
<1>5. ASSUME NEW i \in Pending, NEW m, NEW ms PROVE AccessCall(calls[i], u, m, ms)
  <2>1. calls[i] \in GoodCalls /\ u \notin Touches(calls[i])
    BY <1>2, PendingCall DEF KInv, TInv, Moving
  <2> QED
    BY <2>1, TouchesWhat DEF AccessCall
<1>6. \A m, ms : AccessCall(c, u, m, ms)
  BY <1>1 DEF AccessCall, Enrols
<1>7. WillBring(c, u)
  BY <1>1 DEF WillBring
<1> QED
  BY <1>2, <1>3, <1>4, <1>5, <1>6, <1>7 DEF MembersShown

(* Nothing changes for the unit selected, though a call may be added.       *)
LEMMA BroughtSame ==
    ASSUME MembersShown, sel' = sel, members'[sel] = members[sel], Selected' = Selected,
           \A i \in Pending' : AccessCall(calls'[i], sel, members[sel], Selected),
           \A i \in Pending : WillBring(calls[i], sel) => i \in Pending' /\ WillBring(calls'[i], sel),
           \A i \in Pending, p \in Persons :
             WillSet(calls[i], sel, p) => i \in Pending' /\ WillSet(calls'[i], sel, p)
    PROVE  MembersShown'
  BY DEF MembersShown

LEMMA SelectedSame == UNCHANGED <<backend, sel>> => Selected' = Selected
<1> SUFFICES ASSUME UNCHANGED <<backend, sel>> PROVE Selected' = Selected
  OBVIOUS
<1>1. PICK s : sel = s
  OBVIOUS
<1>2. MembersOf(s)' = MembersOf(s)
  BY BackendSame
<1> QED
  BY <1>1, <1>2, SelectedSeen

LEMMA BroughtAsked ==
    ASSUME KInv, MembersShown, view = "access", Acting, NEW c \in GoodCalls, Asked(c), Send(c), sel' = sel
    PROVE  MembersShown'
<1>1. UNCHANGED <<backend, members>> /\ Selected' = Selected
  BY ActingMoves, SelectedSame DEF KInv, stores
<1>2. PICK k \in 1..AtOnce : k \notin Pending /\ Pending' = Pending \cup {k} /\ calls'[k] = c
  BY CallsSent DEF KInv, TInv, Send
<1>3. \A i \in Pending : calls'[i] = calls[i]
  BY CallsSent DEF KInv, TInv, Send
<1>4. AccessCall(c, sel, members[sel], Selected)
  BY DEF AccessCall, Asked, Enrols
<1> QED
  BY <1>1, <1>2, <1>3, <1>4 DEF MembersShown

LEMMA BroughtGo ==
    ASSUME KInv, MembersShown, NEW v \in {"staff", "units"}, Go(v) PROVE MembersShown'
<1> DEFINE c == Plain(PageOf(v))
<1>1. /\ UNCHANGED <<backend, members, sel>> /\ Adds(Turned, c)
      /\ c \in GoodCalls /\ c.op \in Pages /\ c.for = "none"
  BY ReadsAreGood DEF Go, PageOf, Pages, stores, page, Plain
<1> HIDE DEF c
<1>2. PICK k \in 1..AtOnce : /\ k \notin Pending /\ Pending' \subseteq Pending \cup {k}
                             /\ calls'[k] = c
  BY <1>1, CallsAdded DEF KInv, TInv
<1>3. /\ \A i \in Pending' \cap Pending : calls'[i] = calls[i]
      /\ \A i \in Pending : calls[i].op \notin Pages => i \in Pending'
  BY <1>1, CallsAdded DEF KInv, TInv, Onward
<1>4. AccessCall(c, sel, members[sel], Selected)
  BY <1>1 DEF AccessCall, Enrols, Pages
<1>5. \A i \in Pending' : AccessCall(calls'[i], sel, members[sel], Selected)
  BY <1>2, <1>3, <1>4 DEF MembersShown
<1>6. \A i \in Pending : /\ WillBring(calls[i], sel) => i \in Pending' /\ WillBring(calls'[i], sel)
                         /\ \A p \in Persons : WillSet(calls[i], sel, p) =>
                              i \in Pending' /\ WillSet(calls'[i], sel, p)
  <2>1. ASSUME NEW i \in Pending, NEW p, WillBring(calls[i], sel) \/ WillSet(calls[i], sel, p)
        PROVE  calls[i].op \notin Pages
    BY <2>1 DEF WillBring, WillSet, Pages
  <2> QED
    BY <1>3, <2>1
<1> QED
  BY <1>1, <1>5, <1>6, SelectedSame, BroughtSame

LEMMA BroughtServe ==
    ASSUME KInv, MembersShown, sel \in Units, sel \notin stale, NEW i \in Pending, Serve(i)
    PROVE  MembersShown'
<1> DEFINE c == calls[i]
<1>1. PICK d \in GoodCalls :
        /\ calls' = [calls EXCEPT ![i] = d]
        /\ SameRow(d, c) /\ c.state = "sent"
        /\ Wrote(c, d) \/ Copied(c, d) \/ Restarted(c, d)
  BY Served DEF KInv
<1>2. /\ Pending' = Pending /\ calls'[i] = d
      /\ \A j \in Pending \ {i} : calls'[j] = calls[j]
  BY <1>1, CallsPut DEF KInv, TInv
<1>3. /\ c \in GoodCalls /\ BackendTypes /\ RowIn(c, role, There, Founded, stale)
      /\ AccessCall(c, sel, members[sel], Selected)
  BY PendingCall DEF KInv, TInv, RInv, CallRows, MembersShown
<1>4. sel' = sel /\ members' = members /\ ~Restarted(c, d)
  <2>1. c.op = "reset" => All \subseteq stale
    BY DEF KInv, NoClash
  <2> QED
    BY <2>1 DEF Serve, stores, page, Restarted, All
<1>5. \A j \in Pending : /\ WillBring(calls[j], sel) => WillBring(calls'[j], sel)
                         /\ \A p \in Persons : WillSet(calls[j], sel, p) => WillSet(calls'[j], sel, p)
  BY <1>1, <1>2 DEF WillBring, WillSet, SameRow
<1>s. PICK s \in Founded : sel = s
  BY NoneAssumption DEF KInv, RInv, UnitsThere
<1>S. Selected = MembersOf(s) /\ Selected' = MembersOf(s)'
  BY <1>4, <1>s, SelectedSeen
<1>7. ASSUME AccessCall(d, sel, members[sel], Selected), Selected' = Selected PROVE MembersShown'
  <2>1. \A j \in Pending' : AccessCall(calls'[j], sel, members[sel], Selected)
    BY <1>2, <1>7 DEF MembersShown
  <2> HIDE DEF c
  <2> QED
    BY <1>2, <1>4, <1>5, <1>7, <2>1, BroughtSame
<1>8. CASE Copied(c, d)
  <2>1. AccessCall(d, sel, members[sel], Selected)
    <3> HIDE DEF c
    <3> QED
      BY <1>1, <1>3, <1>8 DEF AccessCall, SameRow, Copied, Enrols, Writes, Selected
  <2> QED
    BY <1>4, <1>7, <1>8, <2>1, SelectedSame DEF Copied
<1>w. ASSUME Wrote(c, d)
      PROVE  /\ ~(c.op = "access" /\ c.u = sel) => Selected' = Selected
             /\ c.op = "access" /\ c.u = sel =>
                  \A q \in Persons : Selected'[q] = IF q = c.p THEN c.v ELSE Selected[q]
  <2>1. /\ c.op = "unit" => c.u \notin Founded
        /\ c.op \in {"create", "enroll"} => c.u # s
    BY <1>1, <1>3, <1>s DEF RowIn, AccessCall, Enrols
  <2> HIDE DEF c
  <2> QED
    BY <1>3, <1>s, <1>S, <1>w, <2>1, EffectSeen DEF Wrote
<1>9. CASE Wrote(c, d) /\ ~(c.op = "access" /\ c.u = sel)
  <2>1. AccessCall(d, sel, members[sel], Selected)
    <3> HIDE DEF c
    <3> QED
      BY <1>1, <1>3, <1>9 DEF AccessCall, SameRow, Enrols, Wrote, Writes
  <2> QED
    BY <1>7, <1>9, <1>w, <2>1
<1>10. CASE Wrote(c, d) /\ c.op = "access" /\ c.u = sel
  <2>1. /\ sel \in Touches(c) /\ c.p \in Persons
        /\ Selected'[c.p] = c.v
        /\ \A p \in Persons : p # c.p => Selected'[p] = Selected[p]
    <3>1. sel \in Touches(c)
      BY <1>3, <1>10, TouchesWhat
    <3>2. c.p \in Persons
      BY <1>3, <1>10 DEF GoodCalls
    <3> QED
      BY <1>10, <1>w, <3>1, <3>2
  <2>2. ASSUME NEW j \in Pending, j # i, sel \in Touches(calls[j])
        PROVE  calls[j].op = "access" /\ calls[j].p # c.p
    BY <1>10, <2>1, <2>2, Alone
  <2>4. ASSUME NEW j \in Pending, j # i
        PROVE  AccessCall(calls'[j], sel, members[sel], Selected') /\ ~WillBring(calls[j], sel)
    <3> DEFINE e == calls[j]
    <3>1. e \in GoodCalls /\ AccessCall(e, sel, members[sel], Selected)
      BY PendingCall DEF KInv, TInv, MembersShown
    <3>2. /\ sel \in Touches(e) => e.op = "access" /\ e.p # c.p
          /\ e.op \in {"workspace", "access"} /\ e.u = sel => sel \in Touches(e)
      BY <2>2, <2>4, <3>1, TouchesWhat
    <3>3. e.op = "access" => e.p \in Persons
      BY <3>1 DEF GoodCalls
    <3> HIDE DEF e
    <3>4. AccessCall(e, sel, members[sel], Selected') /\ ~WillBring(e, sel)
      BY <2>1, <3>1, <3>2, <3>3 DEF AccessCall, WillBring
    <3> QED
      BY <1>2, <2>4, <3>4 DEF e
  <2>5. /\ AccessCall(d, sel, members[sel], Selected') /\ WillSet(d, sel, c.p)
        /\ ~WillBring(c, sel)
    <3> HIDE DEF c
    <3> QED
      BY <1>1, <1>3, <1>10, <2>1 DEF AccessCall, WillSet, WillBring, SameRow, Wrote, Enrols
  <2>6. /\ members[sel] # None
        /\ \A p \in Persons : \/ members[sel][p] = Selected[p]
                              \/ \E j \in Pending : WillSet(calls[j], sel, p)
    BY <2>4, <2>5 DEF MembersShown
  <2>7. \A p \in Persons : \/ members[sel][p] = Selected'[p]
                           \/ \E j \in Pending' : WillSet(calls'[j], sel, p)
    BY <1>2, <1>5, <2>1, <2>5, <2>6
  <2> QED
    BY <1>2, <1>4, <2>4, <2>5, <2>6, <2>7 DEF MembersShown
<1> QED
  BY <1>1, <1>4, <1>8, <1>9, <1>10

LEMMA BroughtReceive ==
    ASSUME KInv, MembersShown, sel \in Units, sel \notin stale', NEW i \in Pending, Receive(i)
    PROVE  MembersShown'
<1> DEFINE c == calls[i]
<1>1. /\ c \in GoodCalls /\ RowIn(c, role, There, Founded, stale)
      /\ AccessCall(c, sel, members[sel], Selected)
      /\ members \in [Units -> Listings \cup {None}]
  BY PendingCall DEF KInv, TInv, StoreTypes, RInv, CallRows, MembersShown
<1>2. /\ Selected' = Selected /\ sel' = sel /\ c.state \in {"ok", "failed"}
      /\ stale' = IF c.state = "failed" THEN stale \cup Touches(c) ELSE stale
  BY ReceiveMoves, SelectedSame DEF KInv
<1>3. /\ c.op \in {"workspace", "access"} /\ c.u = sel =>
           sel \in Touches(c) /\ sel \notin stale /\ c.state = "ok"
      /\ c.op \in {"workspace", "access"} => c.u \in Units
  <2>1. c.op \in {"workspace", "access"} /\ c.u = sel => sel \in Touches(c)
    BY <1>1, TouchesWhat
  <2>2. c.op \in {"workspace", "access"} => c.u \in Units
    BY <1>1 DEF GoodCalls
  <2> QED
    BY <1>2, <2>1, <2>2
<1>6. CASE ~End(i)
  <2>1. PICK d \in GoodCalls :
          /\ calls' = [calls EXCEPT ![i] = d] /\ c.op \in {"create", "enroll", "unit"}
          /\ d.op = (IF c.op = "unit" THEN "bus_list" ELSE "staff_list")
          /\ d.for = c.op /\ d.u = c.u
    BY <1>6, ReceivedCalls DEF KInv
  <2>2. /\ Pending' = Pending /\ calls'[i] = d
        /\ \A j \in Pending \ {i} : calls'[j] = calls[j]
    BY <2>1, CallsPut DEF KInv, TInv
  <2>3. members' = members
    BY <2>1, ReceiveMoves DEF KInv
  <2>s. \A j \in Pending : AccessCall(calls[j], sel, members[sel], Selected)
    BY DEF MembersShown
  <2> HIDE DEF c
  <2>4. /\ AccessCall(d, sel, members[sel], Selected)
        /\ ~WillBring(c, sel) /\ \A p \in Persons : ~WillSet(c, sel, p)
    BY <1>1, <2>1 DEF AccessCall, Enrols, WillBring, WillSet
  <2>5. /\ \A j \in Pending : /\ WillBring(calls[j], sel) => WillBring(calls'[j], sel)
                              /\ \A p \in Persons : WillSet(calls[j], sel, p) => WillSet(calls'[j], sel, p)
        /\ \A j \in Pending' : AccessCall(calls'[j], sel, members[sel], Selected)
    BY <2>2, <2>4, <2>s DEF c
  <2> QED
    BY <1>2, <2>2, <2>3, <2>5, BroughtSame
<1>7. CASE End(i) /\ ~(c.op \in {"workspace", "access"} /\ c.u = sel)
  <2>1. Pending' = Pending \ {i} /\ \A j \in Pending' : calls'[j] = calls[j]
    BY <1>7, CallsEnd DEF KInv, TInv
  <2>2. members'[sel] = members[sel]
    <3>1. CASE c.op = "workspace" /\ c.state = "ok"
      <4>1. members' = [members EXCEPT ![c.u] = c.who]
        BY <3>1, ReceiveMoves DEF KInv
      <4> QED
        BY <1>1, <1>7, <3>1, <4>1
    <3>2. CASE c.op = "access" /\ c.state = "ok" /\ members[c.u] # None
      <4>1. members' = [members EXCEPT ![c.u][c.p] = IF @ = "none" THEN @ ELSE c.v]
        BY <3>2, ReceiveMoves DEF KInv
      <4> QED
        BY <1>1, <1>7, <3>2, <4>1
    <3>3. CASE ~(c.op = "workspace" /\ c.state = "ok")
               /\ ~(c.op = "access" /\ c.state = "ok" /\ members[c.u] # None)
      BY <3>3, ReceiveMoves DEF KInv
    <3> QED
      BY <3>1, <3>2, <3>3
  <2>3. ~WillBring(c, sel) /\ \A p \in Persons : ~WillSet(c, sel, p)
    BY <1>7 DEF WillBring, WillSet
  <2>5. \A j \in Pending' : AccessCall(calls'[j], sel, members[sel], Selected)
    BY <2>1 DEF MembersShown
  <2>6. /\ \A j \in Pending : WillBring(calls[j], sel) => j \in Pending' /\ WillBring(calls'[j], sel)
        /\ \A j \in Pending, p \in Persons :
             WillSet(calls[j], sel, p) => j \in Pending' /\ WillSet(calls'[j], sel, p)
    BY <2>1, <2>3
  <2> QED
    BY <1>2, <2>1, <2>2, <2>5, <2>6, BroughtSame
<1>8. CASE End(i) /\ c.op \in {"workspace", "access"} /\ c.u = sel
  <2>1. Pending' = Pending \ {i} /\ \A j \in Pending' : calls'[j] = calls[j]
    BY <1>8, CallsEnd DEF KInv, TInv
  <2>2. c.state = "ok" /\ sel \notin stale /\ sel \in Touches(c)
    BY <1>3, <1>8
  <2>3. ASSUME NEW j \in Pending', sel \in Touches(calls[j])
        PROVE  calls[j].op = c.op /\ c.op = "access" /\ calls[j].p # c.p
    BY <1>8, <2>1, <2>2, <2>3, Alone
  <2>4. ASSUME NEW j \in Pending'
        PROVE  /\ calls[j] \in GoodCalls /\ AccessCall(calls[j], sel, members[sel], Selected)
               /\ calls[j].op = "access" => calls[j].p \in Persons
               /\ calls[j].op \in {"workspace", "access"} /\ calls[j].u = sel =>
                    calls[j].op = c.op /\ c.op = "access" /\ calls[j].p # c.p
    <3>1. calls[j] \in GoodCalls /\ AccessCall(calls[j], sel, members[sel], Selected)
      BY <2>1, PendingCall DEF KInv, TInv, MembersShown
    <3>2. calls[j].op \in {"workspace", "access"} /\ calls[j].u = sel => sel \in Touches(calls[j])
      BY <3>1, TouchesWhat
    <3> QED
      BY <2>3, <3>1, <3>2 DEF GoodCalls
  <2>5. CASE c.op = "workspace"
    <3>1. members'[sel] = Selected /\ members'[sel] # None
      <4>1. members' = [members EXCEPT ![c.u] = c.who]
        BY <2>2, <2>5, ReceiveMoves DEF KInv
      <4>2. c.who # None
        BY <1>1, <2>2, <2>5 DEF GoodCalls, Brought
      <4> QED
        BY <1>1, <1>8, <2>5, <4>1, <4>2 DEF AccessCall
    <3>2. ASSUME NEW j \in Pending' PROVE AccessCall(calls'[j], sel, members'[sel], Selected)
      <4>1. AccessCall(calls[j], sel, members[sel], Selected)
            /\ ~(calls[j].op \in {"workspace", "access"} /\ calls[j].u = sel)
        BY <2>4, <2>5
      <4>2. AccessCall(calls[j], sel, members'[sel], Selected)
        BY <4>1 DEF AccessCall
      <4> QED
        BY <2>1, <4>2
    <3> QED
      BY <1>2, <3>1, <3>2 DEF MembersShown
  <2>6. CASE c.op = "access"
    <3>1. /\ members[sel] \in Listings /\ members[sel][c.p] # "none" /\ c.p \in Persons
          /\ Selected[c.p] = c.v /\ c.v # "none"
      <4>1. members[sel] # None /\ members[sel][c.p] # "none" /\ Selected[c.p] = c.v
        BY <1>1, <1>8, <2>2, <2>6 DEF AccessCall
      <4>2. c.p \in Persons /\ c.v # "none"
        BY <1>1, <2>6 DEF GoodCalls
      <4> QED
        BY <1>1, <4>1, <4>2
    <3>2. members' = [members EXCEPT ![sel][c.p] = IF @ = "none" THEN @ ELSE c.v]
      <4>1. members[c.u] # None
        BY <1>8, <3>1, AbsentAssumption
      <4> QED
        BY <1>8, <2>2, <2>6, <4>1, ReceiveMoves DEF KInv
    <3>3. members'[sel] = [members[sel] EXCEPT ![c.p] = c.v]
      BY <1>1, <3>1, <3>2
    <3>4. /\ members'[sel] \in [Persons -> Members \cup {"none", c.v}]
          /\ members'[sel][c.p] = c.v
          /\ \A p \in Persons : p # c.p => members'[sel][p] = members[sel][p]
      BY <3>1, <3>3 DEF Listings
    <3>5. members'[sel] # None
      <4>1. members' \in [Units -> Listings \cup {None}] /\ c.v \in Members
        <5>1. c.v \in {"yes", "no"}
          BY <1>1, <2>6 DEF GoodCalls
        <5>2. TInv'
          BY TypesReceive DEF KInv
        <5> QED
          BY <5>1, <5>2 DEF TInv, StoreTypes, Members
      <4>2. members'[sel] \in Listings
        BY <3>4, <4>1 DEF Listings
      <4> QED
        BY <4>2, AbsentAssumption
    <3>6. ASSUME NEW j \in Pending' PROVE AccessCall(calls'[j], sel, members'[sel], Selected)
      <4> DEFINE e == calls[j]
      <4>1. /\ AccessCall(e, sel, members[sel], Selected)
            /\ e.op = "access" => e.p \in Persons
            /\ e.op \in {"workspace", "access"} /\ e.u = sel => e.p # c.p
        BY <2>4
      <4> HIDE DEF e
      <4>2. AccessCall(e, sel, members'[sel], Selected)
        BY <3>4, <3>5, <4>1 DEF AccessCall
      <4> QED
        BY <2>1, <4>2 DEF e
    <3>7. \/ \E j \in Pending' : WillBring(calls'[j], sel)
          \/ \A p \in Persons : \/ members'[sel][p] = Selected[p]
                                \/ \E j \in Pending' : WillSet(calls'[j], sel, p)
      <4>1. ~WillBring(c, sel) /\ \A p \in Persons : WillSet(c, sel, p) => p = c.p
        BY <2>6 DEF WillBring, WillSet
      <4> QED
        BY <2>1, <3>1, <3>4, <4>1 DEF MembersShown
    <3> QED
      BY <1>2, <3>5, <3>6, <3>7 DEF MembersShown
  <2> QED
    BY <1>8, <2>5, <2>6
<1> QED
  BY <1>6, <1>7, <1>8

LEMMA BroughtNext == KInv /\ MInv /\ [Next]_vars => MInv'
<1> SUFFICES ASSUME KInv, MInv, [Next]_vars, view' = "access", sel' # None, sel' \notin stale'
             PROVE  MembersShown'
  BY DEF MInv
<1>0. (sel # None => sel \in Units) /\ \A u \in Units : u # "staff" /\ u # "bus"
  BY NameAssumption DEF KInv, TInv, PageTypes
<1>1. CASE UNCHANGED vars
  <2>1. Selected' = Selected
    BY <1>1, SelectedSame DEF vars, page
  <2> QED
    BY <1>1, <2>1 DEF vars, stores, page, MInv, MembersShown, Pending
<1>2. ASSUME NEW v \in {"staff", "units"}, Go(v) PROVE MembersShown'
  <2>1. UNCHANGED <<view, sel>> /\ stale' = Renewed(Shows(v)) /\ Shows(v) \in {"staff", "bus"}
    BY <1>2 DEF Go, page, Shows
  <2>2. sel \notin stale
    BY <1>0, <2>1 DEF Renewed
  <2> QED
    BY <1>2, <2>1, <2>2, BroughtGo DEF MInv
<1>3. ASSUME NEW v \in {"staff", "units"}, Back(v) PROVE FALSE
  BY <1>3 DEF Back, Mounts
<1>4. CASE OpenAccess
  BY <1>4 DEF OpenAccess, Mounts
<1>5. CASE Reset
  BY <1>0, <1>5 DEF Reset, All, page
<1>6. CASE Acting
  <2>1. view = "access" /\ UNCHANGED <<backend, members>>
    BY <1>6, ActingMoves DEF KInv, stores
  <2>2. CASE UNCHANGED <<calls, stale, sel>>
    <3>1. Selected' = Selected
      BY <2>1, <2>2, SelectedSame
    <3> QED
      BY <2>1, <2>2, <3>1 DEF MInv, MembersShown, Pending
  <2>3. ASSUME NEW c \in GoodCalls, Asked(c), Send(c), sel' = sel PROVE MembersShown'
    <3>1. sel # None /\ sel \notin stale
      BY <2>3 DEF Send
    <3> QED
      BY <1>6, <2>1, <2>3, <3>1, BroughtAsked DEF MInv
  <2>4. ASSUME NEW u \in Units, SelectUnit(u) PROVE MembersShown'
    BY <2>4, BroughtSelect DEF SelectUnit
  <2> QED
    BY <1>6, <2>2, <2>3, <2>4, ActingMoves DEF KInv
<1>7. ASSUME NEW i \in Pending, Serve(i) PROVE MembersShown'
  BY <1>0, <1>7, BroughtServe DEF MInv, Serve, page
<1>8. ASSUME NEW i \in Pending, Receive(i) PROVE MembersShown'
  <2>1. UNCHANGED <<view, sel>> /\ stale \subseteq stale'
    BY <1>8, ReceiveMoves DEF KInv
  <2> QED
    BY <1>0, <1>8, <2>1, BroughtReceive DEF MInv
<1>9. ASSUME NEW i \in Pending, Arrive(i) PROVE FALSE
  BY <1>9 DEF Arrive, Mounts
<1>10. CASE OthersChange
  <2>1. UNCHANGED <<calls, members, view, sel>> /\ stale \subseteq stale'
    BY <1>10, OthersMoves DEF KInv, stores, page
  <2>2. PICK s \in Units : sel = s
    BY <1>0, <2>1
  <2>3. Selected' = Selected
    BY <1>10, <2>1, <2>2, OthersSeen, SelectedSeen
  <2> QED
    BY <2>1, <2>3 DEF MInv, MembersShown, Pending
<1>11. ASSUME NEW i \in DOMAIN calls, Serve(i) \/ Receive(i) \/ Arrive(i) PROVE MembersShown'
  BY <1>7, <1>8, <1>9, <1>11 DEF Serve, Receive, Arrive
<1> QED
  BY <1>1, <1>2, <1>3, <1>4, <1>5, <1>6, <1>10, <1>11 DEF Next

-----------------------------------------------------------------------------
LEMMA ShownInit == Init => NInv /\ SInv /\ BInv /\ MInv
<1> SUFFICES ASSUME Init PROVE NInv /\ SInv /\ BInv /\ MInv
  OBVIOUS
<1>1. Pending = {} /\ view # "units"
  BY DEF Init, Pending
<1>2. NInv /\ SInv
  BY <1>1 DEF Init, NInv, SInv, StaffShown
<1>3. view = "access" => /\ sel \in Units /\ members[sel] = Selected
                         /\ Selected # None
  <2>1. TInv
    BY TypesInit
  <2>2. view = "access" => sel \in units
    BY DEF Init
  <2>3. sel \in Units => members[sel] = MembersOf(sel)
    BY DEF Init
  <2> QED
    BY <2>1, <2>2, <2>3, MembersType, AbsentAssumption DEF TInv, BackendTypes, Selected
<1>4. MInv
  BY <1>1, <1>3 DEF MInv, MembersShown
<1> QED
  BY <1>1, <1>2, <1>4 DEF BInv

LEMMA QuietStaff ==
    ASSUME KInv, SInv, view = "staff", Settled("staff")
    PROVE  /\ staffBus = units
           /\ \A p \in Persons : (\A u, w \in Profiles(p) : u = w) =>
                \A u \in Units : staff[<<p, u>>] = role[<<p, u>>]
<1>1. StaffShown /\ \A i \in Pending : "staff" \notin Touches(calls[i])
  BY DEF SInv, Settled, Moving
<1>2. \A i \in Pending, p \in Persons : ~WillShow(calls[i], p)
  BY <1>1, PendingCall, TouchesWhat DEF KInv, TInv, WillShow, Enrols
<1>3. \A p \in Persons : (\A u, w \in Profiles(p) : u = w) => Lone(role, p)
  BY DEF Profiles, Lone
<1> QED
  BY <1>1, <1>2, <1>3 DEF StaffShown

LEMMA QuietUnits == ASSUME KInv, BInv, view = "units", Settled("bus") PROVE bus = units
<1>1. UnitsShown /\ \A i \in Pending : "bus" \notin Touches(calls[i])
  BY DEF BInv, Settled, Moving
<1>2. \A i \in Pending : ~WillList(calls[i])
  BY <1>1, PendingCall, TouchesWhat DEF KInv, TInv, WillList
<1> QED
  BY <1>1, <1>2 DEF UnitsShown

LEMMA QuietAccess ==
    ASSUME KInv, MInv, view = "access", sel # None, Settled(sel) PROVE members[sel] = MembersOf(sel)
<1>1. /\ MembersShown /\ \A i \in Pending : sel \notin Touches(calls[i])
      /\ sel \in Units /\ members \in [Units -> Listings \cup {None}] /\ BackendTypes
  BY DEF MInv, Settled, Moving, KInv, TInv, PageTypes, StoreTypes
<1>2. \A i \in Pending, p \in Persons : ~WillBring(calls[i], sel) /\ ~WillSet(calls[i], sel, p)
  BY <1>1, PendingCall, TouchesWhat DEF KInv, TInv, WillBring, WillSet
<1>3. ~\E i \in Pending : WillBring(calls[i], sel)
  BY <1>2, OwnerAssumption
<1>4. members[sel] \in Listings /\ \A p \in Persons : members[sel][p] = Selected[p]
  BY <1>1, <1>2, <1>3 DEF MembersShown
<1>5. Selected \in Listings
  BY <1>1, MembersType DEF Selected
<1>6. members[sel] = Selected
  BY <1>4, <1>5 DEF Listings
<1> QED
  BY <1>6 DEF Selected

(* A page at rest is true: once the calls that touch what it shows have     *)
(* been answered, it shows what the backend holds, however the answers came *)
(* in and whatever other pages the calls were made from, unless calls that  *)
(* touch the same rows overlapped, one of them failed, another owner        *)
(* changed something, this owner reset the database, which fills no store   *)
(* again, or the page was gone back to.                                     *)
THEOREM QuietPagesAreTrue == Spec => []QuietIsTrue
<1> DEFINE IInv == KInv /\ NInv /\ SInv /\ BInv /\ MInv
<1>1. Init => IInv
  BY KnownInit, ShownInit
<1>2. IInv /\ [Next]_vars => IInv'
  <2>1. IInv /\ [Next]_vars => KInv' /\ NInv'
    BY KnownNext, PageNext
  <2>2. IInv /\ [Next]_vars => SInv' /\ BInv' /\ MInv'
    BY ShownNext, ListedNext, BroughtNext
  <2> QED
    BY <2>1, <2>2
<1>3. IInv => QuietIsTrue
  BY QuietStaff, QuietUnits, QuietAccess DEF QuietIsTrue
<1> QED
  BY <1>1, <1>2, <1>3, PTL DEF Spec
=============================================================================
