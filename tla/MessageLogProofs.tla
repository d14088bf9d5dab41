-------------------------- MODULE MessageLogProofs --------------------------
(***************************************************************************)
(* Proof that ChatDelivery implements MessageLog, and from the invariant   *)
(* that ties messages to the tables, queues and lists that hold them: what *)
(* may leave a list, in what order the messages of a socket are stored,    *)
(* and where a message is that a session is owed.                          *)
(***************************************************************************)
EXTENDS ChatDeliveryProofs

(* The messages whose row was inserted, whether or not SendMessage learnt it. *)
Saved == {m \in Msgs : st[m] \in {"saved", "unanswered"}}
OneToOne(seq) == \A i, j \in DOMAIN seq : seq[i] = seq[j] => i = j

(* A new element at the end of a sequence without repetitions.              *)
LEMMA AppendOnce ==
    ASSUME NEW S, NEW s \in Seq(S), NEW m \in S
    PROVE  /\ Range(Append(s, m)) = Range(s) \cup {m}
           /\ OneToOne(s) /\ m \notin Range(s) => OneToOne(Append(s, m))
<1>1. /\ Len(Append(s, m)) = Len(s) + 1 /\ DOMAIN Append(s, m) = 1 .. Len(s) + 1
      /\ \A i \in 1 .. Len(s) : Append(s, m)[i] = s[i]
      /\ Append(s, m)[Len(s) + 1] = m
  OBVIOUS
<1>2. DOMAIN s = 1 .. Len(s) /\ Len(s) \in Nat
  OBVIOUS
<1>3. Range(Append(s, m)) = Range(s) \cup {m}
  BY <1>1, <1>2 DEF Range
<1>4. ASSUME OneToOne(s), m \notin Range(s), NEW i \in DOMAIN Append(s, m),
             NEW j \in DOMAIN Append(s, m), Append(s, m)[i] = Append(s, m)[j]
      PROVE  i = j
  BY <1>1, <1>2, <1>4 DEF OneToOne, Range
<1>5. QED
  BY <1>3, <1>4 DEF OneToOne

(* chatStore.appendMessage.                                                 *)
LEMMA AppendMessageOnce ==
    ASSUME NEW s \in Seq(Msgs), NEW m \in Msgs
    PROVE  /\ Range(AppendMessage(s, m)) = Range(s) \cup {m}
           /\ OneToOne(s) => OneToOne(AppendMessage(s, m))
BY AppendOnce DEF AppendMessage

(* What follows the head does not hold it again.                            *)
LEMMA TailOnce ==
    ASSUME NEW s \in Seq(Msgs), s # <<>>, OneToOne(s)
    PROVE  OneToOne(Tail(s)) /\ Range(Tail(s)) \subseteq Range(s) \ {Head(s)}
<1>1. DOMAIN s = 1 .. Len(s) /\ Len(s) \in Nat \ {0} /\ Head(s) = s[1]
  OBVIOUS
<1>2. DOMAIN Tail(s) = 1 .. Len(s) - 1 /\ \A i \in 1 .. Len(s) - 1 : Tail(s)[i] = s[i + 1]
  BY <1>1
<1>3. \A i \in DOMAIN Tail(s) : i + 1 \in DOMAIN s /\ i \in Nat /\ i # 0
  BY <1>1, <1>2
<1>4. ASSUME NEW i \in DOMAIN Tail(s), NEW j \in DOMAIN Tail(s), Tail(s)[i] = Tail(s)[j]
      PROVE  i = j
  <2>1. s[i + 1] = s[j + 1]
    BY <1>2, <1>4
  <2>2. i + 1 = j + 1
    BY <1>3, <2>1 DEF OneToOne
  <2>3. QED
    BY <1>3, <2>2
<1>5. ASSUME NEW i \in DOMAIN Tail(s)
      PROVE  Tail(s)[i] \in Range(s) \ {Head(s)}
  <2>1. Tail(s)[i] = s[i + 1] /\ i + 1 \in DOMAIN s /\ 1 \in DOMAIN s /\ i + 1 # 1
    BY <1>1, <1>2, <1>3
  <2>2. s[i + 1] # s[1]
    BY <2>1 DEF OneToOne
  <2>3. QED
    BY <1>1, <2>1, <2>2 DEF Range
<1>6. QED
  BY <1>4, <1>5 DEF OneToOne, Range

(* Two halves of a sequence without repetitions have nothing in common.     *)
LEMMA CutOnce ==
    ASSUME NEW s \in Seq(Msgs), OneToOne(s), NEW k \in 0 .. Len(s)
    PROVE  /\ OneToOne(SubSeq(s, 1, k))
           /\ Range(SubSeq(s, 1, k)) \cap Range(SubSeq(s, k + 1, Len(s))) = {}
<1>1. DOMAIN s = 1 .. Len(s) /\ Len(s) \in Nat /\ k \in Nat
  OBVIOUS
<1>2. /\ DOMAIN SubSeq(s, 1, k) = 1 .. k
      /\ \A i \in 1 .. k : SubSeq(s, 1, k)[i] = s[i] /\ i \in DOMAIN s
  BY <1>1
<1>3. \A m \in Range(SubSeq(s, k + 1, Len(s))) : \E i \in DOMAIN s : i > k /\ m = s[i]
  <2>1. SUFFICES ASSUME NEW i \in DOMAIN SubSeq(s, k + 1, Len(s))
                 PROVE  \E j \in DOMAIN s : j > k /\ SubSeq(s, k + 1, Len(s))[i] = s[j]
    BY DEF Range
  <2>2. k + i \in DOMAIN s /\ k + i > k /\ SubSeq(s, k + 1, Len(s))[i] = s[k + i]
    BY <1>1, <2>1
  <2>3. QED
    BY <2>2
<1>4. OneToOne(SubSeq(s, 1, k))
  BY <1>2 DEF OneToOne
<1>5. QED
  BY <1>1, <1>2, <1>3, <1>4 DEF OneToOne, Range

(* A page holds elements of its log, each once.                             *)
LEMMA PageOnce ==
    ASSUME NEW s \in Seq(Msgs), NEW n \in 0 .. Len(s), NEW d \in 0 .. n
    PROVE  /\ Range(Log!PageAt(s, d, n)) \subseteq Range(s)
           /\ OneToOne(s) => OneToOne(Log!PageAt(s, d, n))
<1> DEFINE a == IF n > d + Page THEN n - Page + 1 ELSE d + 1
<1>1. a \in Nat \ {0} /\ Len(s) \in Nat
  BY PageAssumption
<1>2. Log!PageAt(s, d, n) = SubSeq(s, a, n)
  BY DEF Log!PageAt
<1> HIDE DEF a
<1>3. Range(SubSeq(s, a, n)) \subseteq Range(s)
  BY <1>1, SubSeqType
<1>4. \A i \in 1 .. Len(s) : s[i] \in Msgs
  OBVIOUS
<1>5. \A i \in a .. n : i \in 1 .. Len(s)
  BY <1>1
<1>6. /\ Len(SubSeq(s, a, n)) = IF a <= n THEN n - a + 1 ELSE 0
      /\ \A i \in 1 .. Len(SubSeq(s, a, n)) : SubSeq(s, a, n)[i] = s[a + i - 1]
      /\ DOMAIN SubSeq(s, a, n) = 1 .. Len(SubSeq(s, a, n))
  BY <1>1, <1>4, <1>5, SubSeqProperties
<1>7. ASSUME OneToOne(s), NEW i \in DOMAIN SubSeq(s, a, n), NEW j \in DOMAIN SubSeq(s, a, n),
             SubSeq(s, a, n)[i] = SubSeq(s, a, n)[j]
      PROVE  i = j
  <2>1. i \in Nat /\ j \in Nat /\ a + i - 1 \in 1 .. Len(s) /\ a + j - 1 \in 1 .. Len(s)
    <3>1. i \in 1 .. Len(SubSeq(s, a, n)) /\ j \in 1 .. Len(SubSeq(s, a, n))
      BY <1>6, Zenon
    <3>2. ASSUME NEW k \in 1 .. (IF a <= n THEN n - a + 1 ELSE 0)
          PROVE  k \in Nat /\ a + k - 1 \in 1 .. Len(s)
      BY <1>1
    <3>3. QED
      BY <1>6, <3>1, <3>2, Zenon
  <2>2. s[a + i - 1] = s[a + j - 1]
    BY <1>6, <1>7
  <2>3. a + i - 1 = a + j - 1
    BY <1>7, <2>1, <2>2 DEF OneToOne
  <2>4. QED
    BY <1>1, <2>1, <2>3
<1>8. QED
  BY <1>2, <1>3, <1>7 DEF OneToOne

(* A page that was read stays what it was when the log grows.               *)
LEMMA PageKept ==
    ASSUME NEW s \in Seq(Msgs), NEW m \in Msgs, NEW n \in 0 .. Len(s), NEW d \in 0 .. n
    PROVE  Log!PageAt(Append(s, m), d, n) = Log!PageAt(s, d, n)
<1> DEFINE a == IF n > d + Page THEN n - Page + 1 ELSE d + 1
           t == Append(s, m)
<1>1. a \in Nat \ {0} /\ Len(s) \in Nat
  BY PageAssumption
<1>2. Log!PageAt(s, d, n) = SubSeq(s, a, n) /\ Log!PageAt(t, d, n) = SubSeq(t, a, n)
  BY DEF Log!PageAt
<1>3. t \in Seq(Msgs) /\ Len(t) = Len(s) + 1 /\ \A i \in 1 .. Len(s) : t[i] = s[i]
  OBVIOUS
<1> HIDE DEF a, t
<1>4. \A i \in a .. n : i \in 1 .. Len(s) /\ i \in 1 .. Len(t)
  BY <1>1, <1>3
<1>5. SubSeq(t, a, n) = SubSeq(s, a, n)
  BY <1>1, <1>3, <1>4
<1>6. QED
  BY <1>2, <1>5 DEF t

(* What ties the stages of a message to the tables, queues and pages that   *)
(* hold it.  A frame on the way holds a message that no call is about yet,  *)
(* and holds it alone.                                                      *)
Placed    == \A m \in Sent : msg[m].conv \in Convs
Afloat    == \A s \in Sessions :
                /\ \A m \in Range(up[s]) : st[m] = "wire" /\ msg[m].via = s
                /\ OneToOne(up[s])
Stored    == \A m \in Msgs, c \in Convs :
                m \in Range(db[c]) <=> m \in Saved /\ msg[m].conv = c
Once      == \A c \in Convs : OneToOne(db[c])
Published == \A m \in Msgs : pub[m] # "none" => m \in Saved
Queued    == \A s \in Sessions : /\ Range(down[s]) \subseteq Saved
                                 /\ \A b \in Subs : Range(inq[s][b]) \subseteq Saved
Wiped     == \A c \in Convs : /\ wiped[c] \in cuts[c] /\ wiped[c] \in 0 .. Len(db[c])
                             /\ \A e \in cuts[c] : e <= wiped[c]
Window(f, c) == /\ snap[f].upto \in 0 .. Len(db[c])
                /\ snap[f].from \in cuts[c] /\ snap[f].from \in 0 .. snap[f].upto
                /\ \A e \in cuts[c] : e <= snap[f].from \/ snap[f].upto <= e
                /\ snap[f].rows = Log!PageAt(db[c], snap[f].from, snap[f].upto)
Copied    == \A f \in Fetches : fetch[f] = "read" => Window(f, fetcher[f].conv)

FrameInv == Placed /\ Afloat
StoreInv == Stored /\ Once /\ Published /\ Queued /\ Wiped /\ Copied
LogInv   == FrameInv /\ StoreInv /\ ShownWasStored /\ NoDuplicates

(* Steps that change neither the tables nor the lists.                      *)
Steady == /\ UNCHANGED <<db, wiped, cuts, list, fetcher, snap>> /\ Saved' = Saved
          /\ \A m \in Saved : msg'[m] = msg[m]
          /\ \A m \in Msgs : pub'[m] # "none" => pub[m] # "none"
          /\ \A s \in Sessions : /\ Range(down'[s]) \subseteq Saved
                                 /\ \A b \in Subs : Range(inq'[s][b]) \subseteq Saved
          /\ \A f \in Fetches : fetch'[f] = "read" => fetch[f] = "read"

LEMMA SteadyKeeps ==
    ASSUME StoreInv, ShownWasStored, NoDuplicates, Steady
    PROVE  StoreInv' /\ ShownWasStored' /\ NoDuplicates'
<1> USE DEF StoreInv, Steady
<1>1. Stored'
  BY DEF Stored, Saved
<1>2. Once' /\ ShownWasStored' /\ NoDuplicates'
  BY DEF Once, ShownWasStored, NoDuplicates
<1>3. Published' /\ Queued'
  BY DEF Published, Queued
<1>4. Wiped' /\ Copied'
  BY DEF Wiped, Copied, Window, Log!PageAt
<1>5. QED
  BY <1>1, <1>2, <1>3, <1>4

(* The actions that touch neither messages nor queues.                      *)
Still == /\ UNCHANGED <<db, wiped, cuts, msg, st, pub, up, inq, down, list, snap>>
         /\ \A f \in Fetches : fetch'[f] = "read" =>
                fetch[f] = "read" /\ fetcher'[f] = fetcher[f]

LEMMA StillActions ==
    ASSUME TypeInv,
           \/ \E c \in Convs : AddConversation(c)
           \/ \E u \in Users : UpdateAccess(u) \/ RestFails(u)
           \/ \E u \in Users, s \in Sessions : Connect(u, s)
           \/ \E s \in Sessions : ListConversations(s) \/ Upgrade(s) \/ ProxyOpen(s)
           \/ \E s \in Sessions, b \in Subs : Confirm(s, b) \/ LoseSubscription(s, b)
           \/ \E u \in Users, c \in Convs, f \in Fetches : SelectConversation(u, c, f)
           \/ \E f \in Fetches : FetchCheck(f) \/ FetchFails(f)
           \/ UNCHANGED vars
    PROVE  Still
BY DEF Still, TypeInv, BrowserTypes, vars, tables, server, wire, session, browser, fetches, history, bounds,
       AddConversation, UpdateAccess, RestFails, Connect, ListConversations, Upgrade,
       ProxyOpen, Confirm, LoseSubscription, SelectConversation, FetchCheck, FetchFails, FetchTo

LEMMA StillKeeps == ASSUME LogInv, Still PROVE LogInv'
<1> USE DEF LogInv, StoreInv, FrameInv, Still
<1>1. Placed' /\ Afloat' /\ Stored' /\ Once' /\ Published' /\ Queued'
  BY DEF Placed, Sent, Afloat, Stored, Saved, Once, Published, Queued
<1>2. Wiped' /\ Copied'
  BY DEF Wiped, Copied, Window, Log!PageAt
<1>3. ShownWasStored' /\ NoDuplicates'
  BY DEF ShownWasStored, NoDuplicates
<1>4. QED
  BY <1>1, <1>2, <1>3

(* A message enters a call or leaves it, or a frame starts its way.         *)
LEMMA ComposeKeeps ==
    ASSUME TypeInv, LogInv, NEW u \in Users, NEW m \in Msgs, NEW via,
           NEW stage \in {"wire", "dropped", "posted"}, CanSend(u, m),
           Compose(u, m, via, stage),
           UNCHANGED <<db, wiped, cuts, list, fetches, pub, inq, down>>,
           \A s \in Sessions : \/ up'[s] = up[s]
                               \/ up'[s] = Append(up[s], m) /\ stage = "wire" /\ via = s
    PROVE  LogInv'
<1>1. msg \in [Msgs -> MsgType] /\ st \in [Msgs -> Stages] /\ up \in [Sessions -> Seq(Msgs)]
  BY DEF TypeInv, ServerTypes, WireTypes
<1>2. st[m] = "none" /\ active[u] \in Convs
  BY DEF CanSend, TypeInv, BrowserTypes
<1>3. /\ msg'[m].conv = active[u] /\ msg'[m].via = via /\ st'[m] = stage
      /\ \A n \in Msgs \ {m} : msg'[n] = msg[n] /\ st'[n] = st[n]
  BY <1>1 DEF Compose
<1>4. Steady
  BY <1>2, <1>3 DEF Steady, Saved, fetches, LogInv, StoreInv, Queued
<1>5. Placed'
  BY <1>2, <1>3 DEF LogInv, FrameInv, Placed, Sent
<1>6. ASSUME NEW s \in Sessions
      PROVE  /\ \A n \in Range(up'[s]) : st'[n] = "wire" /\ msg'[n].via = s
             /\ OneToOne(up'[s])
  <2>1. up[s] \in Seq(Msgs) /\ OneToOne(up[s])
        /\ \A n \in Range(up[s]) : n \in Msgs /\ st[n] = "wire" /\ msg[n].via = s
    BY <1>1 DEF LogInv, FrameInv, Afloat, Range
  <2>2. m \notin Range(up[s]) /\ \A n \in Range(up[s]) : st'[n] = "wire" /\ msg'[n].via = s
    BY <1>2, <1>3, <2>1
  <2>3. CASE up'[s] = up[s]
    BY <2>1, <2>2, <2>3
  <2>4. CASE up'[s] = Append(up[s], m) /\ stage = "wire" /\ via = s
    BY <1>3, <2>1, <2>2, <2>4, AppendOnce
  <2>5. QED
    BY <2>3, <2>4
<1>7. Afloat'
  BY <1>6 DEF Afloat
<1>8. QED
  BY <1>4, <1>5, <1>7, SteadyKeeps DEF LogInv, FrameInv

LEMMA AdvanceKeeps ==
    ASSUME TypeInv, LogInv, NEW m \in Sent, NEW stage \in Stages \ {"none", "wire", "saved", "unanswered"},
           m \notin Saved, Advance(m, stage), UNCHANGED pub,
           \A s \in Sessions : OneToOne(up'[s]) /\ Range(up'[s]) \subseteq Range(up[s]) \ {m}
    PROVE  LogInv'
<1>1. st \in [Msgs -> Stages] /\ m \in Msgs
  BY DEF TypeInv, ServerTypes, Sent
<1>2. st' = [st EXCEPT ![m] = stage] /\ UNCHANGED <<db, wiped, cuts, msg, list, fetches, inq, down>>
  BY DEF Advance, tables, browser, history
<1>3. Steady
  BY <1>1, <1>2 DEF Steady, Saved, fetches, LogInv, StoreInv, Queued
<1>4. Placed' /\ Afloat'
  BY <1>1, <1>2 DEF LogInv, FrameInv, Placed, Sent, Afloat
<1>5. QED
  BY <1>3, <1>4, SteadyKeeps DEF LogInv, FrameInv

(* No step breaks what ties messages to what holds them.                    *)
LEMMA LogStep == ASSUME TypeInv, LogInv, [Next]_vars PROVE LogInv'
<1>1. ASSUME Still PROVE LogInv'
  BY <1>1, StillKeeps
<1>2. ASSUME NEW u \in Users, NEW m \in Msgs, SendWs(u, m) PROVE LogInv'
  <2>1. up \in [Sessions -> Seq(Msgs)]
    BY DEF TypeInv, WireTypes
  <2>2. CASE phase[cur[u]] = "open"
    <3>1. Compose(u, m, cur[u], "wire") /\ CanSend(u, m)
      BY <1>2, <2>2 DEF SendWs
    <3>2. UNCHANGED <<db, wiped, cuts, list, fetches, pub, inq, down>>
      BY <1>2 DEF SendWs, Compose, tables, browser
    <3>3. \A s \in Sessions : \/ up'[s] = up[s]
                              \/ up'[s] = Append(up[s], m) /\ cur[u] = s
      BY <1>2, <2>1, <2>2 DEF SendWs
    <3>4. QED
      BY <3>1, <3>2, <3>3, ComposeKeeps
  <2>3. CASE phase[cur[u]] # "open"
    <3>1. Compose(u, m, cur[u], "dropped") /\ CanSend(u, m)
      BY <1>2, <2>3 DEF SendWs
    <3>2. UNCHANGED <<db, wiped, cuts, list, fetches, pub, inq, down, up>>
      BY <1>2, <2>3 DEF SendWs, Compose, tables, browser
    <3>3. QED
      BY <3>1, <3>2, ComposeKeeps
  <2>4. QED
    BY <2>2, <2>3
<1>3. ASSUME NEW u \in Users, NEW m \in Msgs, SendRest(u, m) PROVE LogInv'
  <2>1. Compose(u, m, None, "posted") /\ CanSend(u, m)
    BY <1>3 DEF SendRest
  <2>2. UNCHANGED <<db, wiped, cuts, list, fetches, pub, inq, down, up>>
    BY <1>3 DEF SendRest, Compose, tables, wire
  <2>3. QED
    BY <2>1, <2>2, ComposeKeeps
<1>4. ASSUME NEW m \in Msgs, BackendCheck(m) \/ CheckAccess(m) \/ SendFails(m) PROVE LogInv'
  <2>1. /\ st[m] \in {"posted", "asked", "checked"} /\ UNCHANGED <<up, pub>>
        /\ \E stage \in {"asked", "checked", "refused", "failed"} : Advance(m, stage)
    BY <1>4 DEF BackendCheck, CheckAccess, SendFails
  <2>2. \A s \in Sessions : OneToOne(up'[s]) /\ Range(up'[s]) \subseteq Range(up[s]) \ {m}
    BY <2>1 DEF LogInv, FrameInv, Afloat
  <2>3. m \in Sent
    BY <2>1 DEF Sent
  <2>4. m \notin Saved
    BY <2>1 DEF Saved
  <2>5. QED
    BY <2>1, <2>2, <2>3, <2>4, AdvanceKeeps DEF Stages
<1>5. ASSUME NEW s \in Sessions, ReadFrame(s) PROVE LogInv'
  <2> DEFINE m == Head(up[s])
  <2>1. up \in [Sessions -> Seq(Msgs)] /\ up[s] \in Seq(Msgs) /\ up[s] # <<>>
    BY <1>5 DEF ReadFrame, TypeInv, WireTypes
  <2>2. m = up[s][1] /\ m \in Msgs /\ m \in Range(up[s])
    BY <2>1 DEF Range
  <2>3. st[m] = "wire" /\ msg[m].via = s /\ OneToOne(up[s])
    BY <2>2 DEF LogInv, FrameInv, Afloat
  <2>4. OneToOne(Tail(up[s])) /\ Range(Tail(up[s])) \subseteq Range(up[s]) \ {m}
    BY <2>1, <2>3, TailOnce
  <2>5. \A r \in Sessions \ {s} : m \notin Range(up[r])
    BY <2>3 DEF LogInv, FrameInv, Afloat
  <2>6. \A r \in Sessions : OneToOne(up'[r]) /\ Range(up'[r]) \subseteq Range(up[r]) \ {m}
    BY <1>5, <2>1, <2>4, <2>5 DEF ReadFrame, LogInv, FrameInv, Afloat
  <2>7. Advance(m, "asked") /\ UNCHANGED pub
    BY <1>5 DEF ReadFrame
  <2>8. m \in Sent
    BY <2>2, <2>3 DEF Sent
  <2> HIDE DEF m
  <2>9. QED
    BY <2>3, <2>6, <2>7, <2>8, AdvanceKeeps DEF Stages, Saved
<1>6. ASSUME NEW u \in Users, CloseSocket(u) PROVE LogInv'
  <2> DEFINE s == cur[u]
  <2>1. s \in Sessions
    BY <1>6 DEF CloseSocket, TypeInv, BrowserTypes
  <2>2. PICK k \in 0 .. Len(up[s]) :
          /\ up' = [up EXCEPT ![s] = SubSeq(@, 1, k)]
          /\ st' = [m \in Msgs |-> IF m \in Range(SubSeq(up[s], k + 1, Len(up[s])))
                                   THEN "dropped" ELSE st[m]]
    BY <1>6 DEF CloseSocket
  <2>3. up \in [Sessions -> Seq(Msgs)] /\ up[s] \in Seq(Msgs) /\ Len(up[s]) \in Nat
    BY <2>1 DEF TypeInv, WireTypes
  <2>4. /\ inq' = [inq EXCEPT ![s] = [b \in Subs |-> <<>>]]
        /\ down' = [down EXCEPT ![s] = <<>>]
        /\ UNCHANGED <<db, wiped, cuts, msg, pub, list, fetches>>
    BY <1>6 DEF CloseSocket, tables, history
  <2> HIDE DEF s
  <2>5. /\ \A n \in Range(SubSeq(up[s], 1, k)) : n \in Range(up[s])
        /\ \A n \in Range(SubSeq(up[s], k + 1, Len(up[s]))) : n \in Range(up[s])
    BY <2>3, SubSeqType
  <2>6. Range(SubSeq(up[s], 1, k)) \cap Range(SubSeq(up[s], k + 1, Len(up[s]))) = {}
        /\ OneToOne(SubSeq(up[s], 1, k))
    BY <2>1, <2>3, CutOnce DEF LogInv, FrameInv, Afloat
  <2>7. \A m \in Range(up[s]) : st[m] = "wire" /\ msg[m].via = s
    BY <2>1 DEF LogInv, FrameInv, Afloat
  <2>8. Saved' = Saved /\ Sent' = Sent
    BY <2>2, <2>5, <2>7 DEF Saved, Sent
  <2>9. Placed'
    BY <2>4, <2>8 DEF Placed, LogInv, FrameInv
  <2>10. ASSUME NEW r \in Sessions
         PROVE  /\ \A m \in Range(up'[r]) : st'[m] = "wire" /\ msg'[m].via = r
                /\ OneToOne(up'[r])
    <3>1. \A m \in Range(up[r]) : m \in Msgs /\ st[m] = "wire" /\ msg[m].via = r
      BY <2>3 DEF LogInv, FrameInv, Afloat, Range
    <3>2. CASE r = s
      BY <2>2, <2>3, <2>4, <2>5, <2>6, <3>1, <3>2
    <3>3. CASE r # s
      <4>1. up'[r] = up[r] /\ OneToOne(up[r])
        BY <2>2, <2>3, <3>3 DEF LogInv, FrameInv, Afloat
      <4>2. \A m \in Range(up[r]) : m \notin Range(SubSeq(up[s], k + 1, Len(up[s])))
        BY <2>5, <2>7, <3>1, <3>3
      <4>3. QED
        BY <2>2, <2>4, <3>1, <4>1, <4>2
    <3>4. QED
      BY <3>2, <3>3
  <2>11. Afloat'
    BY <2>10 DEF Afloat
  <2>12. Steady
    BY <2>4, <2>8 DEF Steady, fetches, LogInv, StoreInv, Queued, Range, TypeInv, WireTypes
  <2>13. QED
    BY <2>9, <2>11, <2>12, SteadyKeeps DEF LogInv, FrameInv
<1>7. ASSUME Crash PROVE LogInv'
  <2>1. /\ UNCHANGED <<db, wiped, cuts, msg, list, fetches, down>>
        /\ st' = [m \in Msgs |-> IF st[m] = "wire" THEN "dropped"
                                 ELSE IF st[m] \in {"asked", "checked"} THEN "failed"
                                 ELSE st[m]]
        /\ pub' = [m \in Msgs |-> IF pub[m] = "pending" THEN "lost" ELSE pub[m]]
        /\ up' = [s \in Sessions |-> <<>>] /\ inq' = [s \in Sessions |-> [b \in Subs |-> <<>>]]
    BY <1>7 DEF Crash, tables, browser, history
  <2>2. Saved' = Saved /\ Sent' = Sent
    BY <2>1 DEF Saved, Sent
  <2>3. Steady
    BY <2>1, <2>2 DEF Steady, fetches, LogInv, StoreInv, Queued, Range
  <2>4. Placed' /\ Afloat'
    BY <2>1, <2>2 DEF LogInv, FrameInv, Placed, Afloat, Range, OneToOne
  <2>5. QED
    BY <2>3, <2>4, SteadyKeeps DEF LogInv, FrameInv
<1>8. ASSUME NEW m \in Msgs, Publish(m) \/ PublishFails(m) PROVE LogInv'
  <2>1. /\ pub[m] = "pending" /\ UNCHANGED <<db, wiped, cuts, msg, st, list, fetches, up, down>>
        /\ \A n \in Msgs : pub'[n] # "none" => pub[n] # "none"
    BY <1>8 DEF Publish, PublishFails, tables, browser, wire, history, TypeInv, ServerTypes
  <2>2. m \in Saved
    BY <2>1 DEF LogInv, StoreInv, Published
  <2>3. ASSUME NEW s \in Sessions, NEW b \in Subs PROVE Range(inq'[s][b]) \subseteq Saved
    <3>1. inq[s][b] \in Seq(Msgs) /\ Range(inq[s][b]) \subseteq Saved
      BY DEF TypeInv, WireTypes, LogInv, StoreInv, Queued
    <3>2. inq'[s][b] = inq[s][b] \/ inq'[s][b] = Append(inq[s][b], m)
      BY <1>8 DEF Publish, PublishFails, wire
    <3>3. Range(Append(inq[s][b], m)) = Range(inq[s][b]) \cup {m}
      BY <3>1, AppendOnce
    <3>4. QED
      BY <2>2, <3>1, <3>2, <3>3
  <2>4. Saved' = Saved /\ Sent' = Sent
    BY <2>1 DEF Saved, Sent
  <2>5. Steady
    BY <2>1, <2>3, <2>4 DEF Steady, fetches, LogInv, StoreInv, Queued
  <2>6. Placed' /\ Afloat'
    BY <2>1, <2>4 DEF LogInv, FrameInv, Placed, Afloat
  <2>7. QED
    BY <2>5, <2>6, SteadyKeeps DEF LogInv, FrameInv
<1>9. ASSUME NEW s \in Sessions, NEW b \in Subs, Pump(s, b) PROVE LogInv'
  <2>1. /\ inq[s][b] # <<>> /\ inq' = [inq EXCEPT ![s][b] = Tail(@)]
        /\ down' = [down EXCEPT ![s] = Append(@, Head(inq[s][b]))]
        /\ UNCHANGED <<db, wiped, cuts, msg, st, pub, list, fetches, up>>
    BY <1>9 DEF Pump, tables, browser, server, history
  <2>2. /\ inq \in [Sessions -> [Subs -> Seq(Msgs)]] /\ down \in [Sessions -> Seq(Msgs)]
        /\ inq[s][b] \in Seq(Msgs) /\ down[s] \in Seq(Msgs)
    BY DEF TypeInv, WireTypes
  <2>3. Head(inq[s][b]) \in Msgs /\ Head(inq[s][b]) \in Range(inq[s][b])
        /\ Range(Tail(inq[s][b])) \subseteq Range(inq[s][b])
    BY <2>1, <2>2 DEF Range
  <2>4. Range(Append(down[s], Head(inq[s][b]))) = Range(down[s]) \cup {Head(inq[s][b])}
    BY <2>2, <2>3, AppendOnce
  <2>5. \A r \in Sessions : /\ Range(down'[r]) \subseteq Saved
                            /\ \A x \in Subs : Range(inq'[r][x]) \subseteq Saved
    BY <2>1, <2>2, <2>3, <2>4 DEF LogInv, StoreInv, Queued
  <2>6. Saved' = Saved /\ Sent' = Sent
    BY <2>1 DEF Saved, Sent
  <2>7. Steady
    BY <2>1, <2>5, <2>6 DEF Steady, fetches
  <2>8. Placed' /\ Afloat'
    BY <2>1, <2>6 DEF LogInv, FrameInv, Placed, Afloat
  <2>9. QED
    BY <2>7, <2>8, SteadyKeeps DEF LogInv, FrameInv
<1>10. ASSUME NEW m \in Saved, NEW u,
              list' = [list EXCEPT ![u][msg[m].conv] = AppendMessage(@, m)],
              UNCHANGED <<db, wiped, cuts, msg, st, pub, fetches, up, inq>>,
              \A s \in Sessions : Range(down'[s]) \subseteq Range(down[s])
       PROVE  LogInv'
  <2>1. list \in [Users -> [Convs -> Seq(Msgs)]] /\ m \in Msgs
    BY DEF TypeInv, BrowserTypes, Saved
  <2>2. \A c \in Convs : msg[m].conv = c => m \in Range(db[c])
    BY <2>1 DEF LogInv, StoreInv, Stored
  <2>3. ASSUME NEW v \in Users, NEW c \in Convs
        PROVE  Range(list'[v][c]) \subseteq Range(db[c]) /\ OneToOne(list'[v][c])
    <3>1. /\ list[v][c] \in Seq(Msgs) /\ OneToOne(list[v][c])
          /\ Range(list[v][c]) \subseteq Range(db[c])
      <4>1. list[v][c] \in Seq(Msgs)
        BY <2>1
      <4>2. OneToOne(list[v][c])
        BY Zenon DEF LogInv, NoDuplicates, OneToOne
      <4>3. Range(list[v][c]) \subseteq Range(db[c])
        BY Zenon DEF LogInv, ShownWasStored
      <4>4. QED
        BY <4>1, <4>2, <4>3
    <3>2. list'[v][c] = IF v = u /\ c = msg[m].conv THEN AppendMessage(list[v][c], m)
                        ELSE list[v][c]
      BY <1>10, <2>1
    <3>3. QED
      BY <2>1, <2>2, <3>1, <3>2, AppendMessageOnce
  <2>4. ShownWasStored' /\ NoDuplicates'
    BY <1>10, <2>3 DEF ShownWasStored, NoDuplicates, OneToOne
  <2>5. Saved' = Saved /\ Sent' = Sent
    BY <1>10 DEF Saved, Sent
  <2>6. FrameInv' /\ Stored' /\ Once' /\ Published' /\ Queued'
    BY <1>10, <2>5 DEF LogInv, FrameInv, StoreInv, Placed, Afloat, Stored, Once, Published, Queued
  <2>7. Wiped' /\ Copied'
    BY <1>10 DEF LogInv, StoreInv, Wiped, Copied, Window, fetches, Log!PageAt
  <2>8. QED
    BY <2>4, <2>6, <2>7 DEF LogInv, StoreInv
<1>11. ASSUME NEW s \in Sessions, Receive(s) PROVE LogInv'
  <2>1. down \in [Sessions -> Seq(Msgs)] /\ down[s] \in Seq(Msgs) /\ down[s] # <<>>
    BY <1>11 DEF Receive, TypeInv, WireTypes
  <2>2. Head(down[s]) \in Range(down[s]) /\ Range(Tail(down[s])) \subseteq Range(down[s])
    BY <2>1 DEF Range
  <2>3. \A r \in Sessions : Range(down'[r]) \subseteq Range(down[r])
    BY <1>11, <2>1, <2>2 DEF Receive
  <2>4. Head(down[s]) \in Saved
    BY <2>2 DEF LogInv, StoreInv, Queued
  <2>5. QED
    BY <1>10, <1>11, <2>3, <2>4 DEF Receive, server, tables, history
<1>12. ASSUME NEW u \in Users, RestAnswer(u) PROVE LogInv'
  <2>1. sending[u] \in Saved
    BY <1>12, NoneAssumption DEF RestAnswer, Saved, TypeInv, BrowserTypes
  <2>2. QED
    BY <1>10, <1>12, <2>1 DEF RestAnswer, server, tables, wire, history
<1>13. ASSUME NEW m \in Msgs, Save(m) \/ SaveUnanswered(m) PROVE LogInv'
  <2>1. /\ st[m] = "checked" /\ st'[m] \in {"saved", "unanswered"}
        /\ \A k \in Msgs \ {m} : st'[k] = st[k]
        /\ \A k \in Msgs \ {m} : pub'[k] = pub[k]
        /\ db' = [db EXCEPT ![msg[m].conv] = Append(@, m)]
        /\ UNCHANGED <<wiped, cuts, msg, up, inq, down, list, fetches>>
    BY <1>13 DEF Save, SaveUnanswered, Store, wire, browser, TypeInv, ServerTypes
  <2>2. db \in [Convs -> Seq(Msgs)] /\ st \in [Msgs -> Stages]
        /\ pub \in [Msgs -> {"none", "pending", "done", "lost"}]
    BY DEF TypeInv, ServerTypes
  <2>3. Saved' = Saved \cup {m} /\ m \notin Saved /\ Sent' = Sent
    BY <2>1, <2>2 DEF Saved, Sent
  <2>4. \A c \in Convs : m \notin Range(db[c])
    BY <2>3 DEF LogInv, StoreInv, Stored
  <2>5. ASSUME NEW c \in Convs
        PROVE  /\ db'[c] = IF c = msg[m].conv THEN Append(db[c], m) ELSE db[c]
               /\ Range(Append(db[c], m)) = Range(db[c]) \cup {m}
               /\ OneToOne(db'[c]) /\ Range(db[c]) \subseteq Range(db'[c])
    <3>1. db'[c] = IF c = msg[m].conv THEN Append(db[c], m) ELSE db[c]
      BY <2>1, <2>2
    <3>2. db[c] \in Seq(Msgs) /\ OneToOne(db[c]) /\ m \notin Range(db[c])
      BY <2>2, <2>4 DEF LogInv, StoreInv, Once
    <3>3. Range(Append(db[c], m)) = Range(db[c]) \cup {m} /\ OneToOne(Append(db[c], m))
      BY <3>2, AppendOnce
    <3>4. QED
      BY <3>1, <3>2, <3>3
  <2>6. Placed' /\ Afloat'
    <3>1. Placed'
      BY <2>1, <2>3 DEF LogInv, FrameInv, Placed
    <3>2. ASSUME NEW s \in Sessions
          PROVE  /\ \A k \in Range(up'[s]) : st'[k] = "wire" /\ msg'[k].via = s
                 /\ OneToOne(up'[s])
      <4>1. /\ \A k \in Range(up[s]) : st[k] = "wire" /\ msg[k].via = s
            /\ OneToOne(up[s])
        BY DEF LogInv, FrameInv, Afloat
      <4>2. \A k \in Range(up[s]) : k \in Msgs \ {m}
        <5>1. up[s] \in Seq(Msgs)
          BY DEF TypeInv, WireTypes
        <5>2. QED
          BY <2>1, <4>1, <5>1 DEF Range
      <4>3. QED
        BY <2>1, <4>1, <4>2
    <3>3. QED
      BY <3>1, <3>2 DEF Afloat
  <2>7. Stored' /\ Once' /\ Published' /\ Queued'
    BY <2>1, <2>2, <2>3, <2>5 DEF LogInv, StoreInv, Stored, Once, Published, Queued
  <2>8. ASSUME NEW f \in Fetches, fetch[f] = "read"
        PROVE  Window(f, fetcher[f].conv)'
    <3> DEFINE c == fetcher[f].conv
    <3>1. c \in Convs /\ db[c] \in Seq(Msgs)
      BY <2>2, <2>8 DEF TypeInv, Addressed
    <3>2. Window(f, c)
      BY <2>8 DEF LogInv, StoreInv, Copied
    <3> HIDE DEF c
    <3>3. Log!PageAt(Append(db[c], m), snap[f].from, snap[f].upto)
            = Log!PageAt(db[c], snap[f].from, snap[f].upto)
      BY <3>1, <3>2, PageKept DEF Window
    <3>4. Len(Append(db[c], m)) = Len(db[c]) + 1 /\ Len(db[c]) \in Nat
      BY <3>1
    <3>5. db'[c] = db[c] \/ db'[c] = Append(db[c], m)
      BY <2>5, <3>1
    <3>6. /\ snap[f].upto \in 0 .. Len(db'[c])
          /\ snap[f].rows = Log!PageAt(db'[c], snap[f].from, snap[f].upto)
      <4>1. CASE db'[c] = db[c]
        BY <3>2, <4>1 DEF Window
      <4>2. CASE db'[c] = Append(db[c], m)
        <5>1. snap[f].upto \in 0 .. Len(Append(db[c], m))
          BY <3>2, <3>4 DEF Window
        <5>2. QED
          BY <3>2, <3>3, <4>2, <5>1 DEF Window
      <4>3. QED
        BY <3>5, <4>1, <4>2
    <3>7. /\ snap'[f] = snap[f] /\ cuts'[c] = cuts[c] /\ fetcher'[f].conv = c
      BY <2>1 DEF c, fetches
    <3>8. QED
      BY <3>2, <3>6, <3>7 DEF Window, Log!PageAt
  <2>9. Wiped' /\ Copied'
    <3>1. Copied'
      BY <2>1, <2>8 DEF Copied, fetches
    <3>2. ASSUME NEW c \in Convs PROVE wiped[c] \in 0 .. Len(db'[c])
      <4>1. wiped[c] \in 0 .. Len(db[c])
        BY DEF LogInv, StoreInv, Wiped
      <4>2. Len(Append(db[c], m)) = Len(db[c]) + 1 /\ Len(db[c]) \in Nat
        BY <2>2
      <4>3. db'[c] = db[c] \/ db'[c] = Append(db[c], m)
        BY <2>5
      <4>4. Len(db'[c]) \in Nat /\ Len(db[c]) <= Len(db'[c])
        BY <4>2, <4>3
      <4>5. QED
        BY <4>1, <4>2, <4>4
    <3>3. QED
      BY <2>1, <3>1, <3>2 DEF LogInv, StoreInv, Wiped
  <2>10. ShownWasStored' /\ NoDuplicates'
    BY <2>1, <2>5 DEF LogInv, ShownWasStored, NoDuplicates
  <2>11. QED
    BY <2>6, <2>7, <2>9, <2>10 DEF LogInv, FrameInv, StoreInv
<1>14. ASSUME NEW f \in Fetches, FetchRead(f) PROVE LogInv'
  <2> DEFINE c == fetcher[f].conv
  <2>1. c \in Convs /\ db[c] \in Seq(Msgs) /\ Len(db[c]) \in Nat /\ snap \in [Fetches -> Snapshot]
    BY <1>14 DEF FetchRead, TypeInv, Addressed, ServerTypes, BrowserTypes
  <2>2. /\ fetch' = [fetch EXCEPT ![f] = "read"]
        /\ snap' = [snap EXCEPT ![f] = [rows |-> Recent(c), from |-> wiped[c],
                                        upto |-> Len(db[c])]]
        /\ UNCHANGED <<db, wiped, cuts, msg, st, pub, up, inq, down, list, fetcher>>
    BY <1>14 DEF FetchRead, FetchTo, server, tables, wire
  <2>3. Recent(c) = Log!PageAt(db[c], wiped[c], Len(db[c]))
    BY DEF Recent, Log!PageAt
  <2>4. fetch \in [Fetches -> FetchStages]
    BY DEF TypeInv, BrowserTypes
  <2> HIDE DEF c
  <2>5. Copied'
    <3>1. SUFFICES ASSUME NEW g \in Fetches, fetch'[g] = "read" PROVE Window(g, fetcher[g].conv)'
      BY DEF Copied
    <3>2. CASE g = f
      <4>1. snap'[f] = [rows |-> Recent(c), from |-> wiped[c], upto |-> Len(db[c])]
        BY <2>1, <2>2
      <4>2. wiped[c] \in cuts[c] /\ wiped[c] \in 0 .. Len(db[c])
            /\ \A e \in cuts[c] : e <= wiped[c]
        BY <2>1 DEF LogInv, StoreInv, Wiped
      <4>3. fetcher'[g].conv = c /\ UNCHANGED <<db, cuts>>
        BY <2>2, <3>2 DEF c
      <4>4. /\ snap'[f].rows = Log!PageAt(db[c], wiped[c], Len(db[c]))
            /\ snap'[f].from = wiped[c] /\ snap'[f].upto = Len(db[c])
        BY <2>3, <4>1
      <4>5. Len(db[c]) \in 0 .. Len(db[c])
        BY <2>1
      <4>6. \A e \in cuts[c] : e <= wiped[c] \/ Len(db[c]) <= e
        BY <4>2
      <4>7. Log!PageAt(db'[c], wiped[c], Len(db[c])) = Log!PageAt(db[c], wiped[c], Len(db[c]))
        BY <4>3 DEF Log!PageAt
      <4>8. QED
        BY <3>2, <4>2, <4>3, <4>4, <4>5, <4>6, <4>7 DEF Window, Log!PageAt
    <3>3. CASE g # f
      <4>1. Window(g, fetcher[g].conv)
        BY <2>2, <2>4, <3>1, <3>3 DEF LogInv, StoreInv, Copied
      <4>2. snap'[g] = snap[g] /\ UNCHANGED <<db, cuts, fetcher>>
        BY <2>1, <2>2, <3>3
      <4>3. QED
        BY <4>1, <4>2 DEF Window, Log!PageAt
    <3>4. QED
      BY <3>2, <3>3
  <2>6. FrameInv' /\ Stored' /\ Once' /\ Published' /\ Queued' /\ Wiped'
    BY <2>2 DEF LogInv, FrameInv, StoreInv, Placed, Sent, Afloat, Stored, Saved, Once, Published,
                Queued, Wiped
  <2>7. ShownWasStored' /\ NoDuplicates'
    BY <2>2 DEF LogInv, ShownWasStored, NoDuplicates
  <2>8. QED
    BY <2>5, <2>6, <2>7 DEF LogInv, StoreInv
<1>15. ASSUME NEW f \in Fetches, FetchReply(f) PROVE LogInv'
  <2> DEFINE u == fetcher[f].user  c == fetcher[f].conv
  <2>1. c \in Convs /\ db[c] \in Seq(Msgs)
    BY <1>15 DEF FetchReply, TypeInv, Addressed, ServerTypes
  <2>2. /\ fetch[f] = "read" /\ fetch' = [fetch EXCEPT ![f] = "done"]
        /\ list' = [list EXCEPT ![u][c] = snap[f].rows]
        /\ UNCHANGED <<db, wiped, cuts, msg, st, pub, up, inq, down, fetcher, snap>>
    BY <1>15 DEF FetchReply, FetchTo, server, tables, wire
  <2>3. Window(f, c)
    BY <2>2 DEF LogInv, StoreInv, Copied
  <2>4. list \in [Users -> [Convs -> Seq(Msgs)]] /\ fetch \in [Fetches -> FetchStages]
    BY DEF TypeInv, BrowserTypes
  <2> HIDE DEF u, c
  <2>5. Range(snap[f].rows) \subseteq Range(db[c]) /\ OneToOne(snap[f].rows)
    BY <2>1, <2>3, PageOnce DEF LogInv, StoreInv, Once, Window
  <2>6. ASSUME NEW v \in Users, NEW d \in Convs
        PROVE  Range(list'[v][d]) \subseteq Range(db[d]) /\ OneToOne(list'[v][d])
    <3>1. OneToOne(list[v][d]) /\ Range(list[v][d]) \subseteq Range(db[d])
      BY DEF LogInv, NoDuplicates, ShownWasStored, OneToOne
    <3>2. list'[v][d] = IF v = u /\ d = c THEN snap[f].rows ELSE list[v][d]
      BY <2>2, <2>4
    <3>3. QED
      BY <2>5, <3>1, <3>2
  <2>7. ShownWasStored' /\ NoDuplicates'
    BY <2>2, <2>6 DEF ShownWasStored, NoDuplicates, OneToOne
  <2>8. FrameInv' /\ Stored' /\ Once' /\ Published' /\ Queued' /\ Wiped'
    BY <2>2 DEF LogInv, FrameInv, StoreInv, Placed, Sent, Afloat, Stored, Saved, Once, Published,
                Queued, Wiped
  <2>9. Copied'
    BY <2>2, <2>4 DEF LogInv, StoreInv, Copied, Window, Log!PageAt
  <2>10. QED
    BY <2>7, <2>8, <2>9 DEF LogInv, StoreInv
<1>16. ASSUME DeleteMessages PROVE LogInv'
  <2>1. /\ wiped' = [c \in Convs |-> Len(db[c])]
        /\ cuts' = [c \in Convs |-> cuts[c] \cup {wiped'[c]}]
        /\ UNCHANGED <<db, msg, st, pub, up, inq, down, list, fetches>>
    BY <1>16 DEF DeleteMessages, wire, browser
  <2>2. \A c \in Convs : wiped'[c] = Len(db[c]) /\ cuts'[c] = cuts[c] \cup {Len(db[c])}
    BY <2>1
  <2>3. \A c \in Convs : Len(db[c]) \in Nat
    BY DEF TypeInv, ServerTypes
  <2>4. FrameInv' /\ Stored' /\ Once' /\ Published' /\ Queued'
    BY <2>1 DEF LogInv, FrameInv, StoreInv, Placed, Sent, Afloat, Stored, Saved, Once, Published,
                Queued
  <2>5. Wiped'
    <3>1. \A c \in Convs : \A e \in cuts[c] : e \in Nat /\ e <= wiped[c] /\ wiped[c] \in 0 .. Len(db[c])
      BY DEF LogInv, StoreInv, Wiped, TypeInv, HistoryTypes
    <3>2. QED
      BY <2>1, <2>2, <2>3, <3>1 DEF Wiped
  <2>6. ASSUME NEW f \in Fetches, fetch[f] = "read" PROVE Window(f, fetcher[f].conv)'
    <3>1. fetcher[f].conv \in Convs /\ Window(f, fetcher[f].conv)
      BY <2>6 DEF TypeInv, Addressed, LogInv, StoreInv, Copied
    <3>2. UNCHANGED <<db, snap, fetcher>>
      BY <2>1 DEF fetches
    <3>3. QED
      BY <2>2, <2>3, <3>1, <3>2 DEF Window, Log!PageAt
  <2>7. Copied'
    BY <2>1, <2>6 DEF Copied, fetches
  <2>8. ShownWasStored' /\ NoDuplicates'
    BY <2>1 DEF LogInv, ShownWasStored, NoDuplicates
  <2>9. QED
    BY <2>4, <2>5, <2>7, <2>8 DEF LogInv, StoreInv
<1>17. QED
  BY <1>1, <1>2, <1>3, <1>4, <1>5, <1>6, <1>7, <1>8, <1>9, <1>11, <1>12, <1>13, <1>14, <1>15, <1>16,
     StillActions, Zenon DEF Next

LEMMA InitLog == Init => LogInv
BY DEF Init, LogInv, FrameInv, StoreInv, Placed, Afloat, Stored, Once, Published, Queued,
       Wiped, Copied, ShownWasStored, NoDuplicates, Sent, Saved, Range, OneToOne

(* A step adds a message to a log that held it nowhere, adds a stored       *)
(* message to one list, loads a page of one, or changes neither.            *)
LEMMA LogRefines ==
    ASSUME TypeInv, LogInv, [Next]_vars
    PROVE  [Log!Next]_<<db, cuts, list>>
<1> DEFINE Kept == UNCHANGED <<db, cuts, list>>
<1>1. ASSUME Still PROVE Kept
  BY <1>1 DEF Still
<1>2. ASSUME NEW u \in Users, NEW m \in Msgs, SendWs(u, m) \/ SendRest(u, m) PROVE Kept
  BY <1>2 DEF SendWs, SendRest, Compose, tables, browser
<1>3. ASSUME NEW m \in Msgs, BackendCheck(m) \/ CheckAccess(m) \/ SendFails(m) PROVE Kept
  BY <1>3 DEF BackendCheck, CheckAccess, SendFails, Advance, tables, browser, history
<1>4. ASSUME NEW s \in Sessions, ReadFrame(s) PROVE Kept
  BY <1>4 DEF ReadFrame, Advance, tables, browser, history
<1>5. ASSUME \/ \E u \in Users : CloseSocket(u)
             \/ Crash
             \/ \E m \in Msgs : Publish(m) \/ PublishFails(m)
             \/ \E s \in Sessions, b \in Subs : Pump(s, b)
             \/ \E f \in Fetches : FetchRead(f)
      PROVE  Kept
  BY <1>5 DEF CloseSocket, Crash, Publish, PublishFails, Pump, FetchRead, FetchTo, tables,
         browser, server, history
<1>6. ASSUME NEW m \in Msgs, Save(m) \/ SaveUnanswered(m) PROVE Log!Next
  <2>1. /\ st[m] = "checked" /\ db' = [db EXCEPT ![msg[m].conv] = Append(@, m)]
        /\ UNCHANGED <<cuts, list>>
    BY <1>6 DEF Save, SaveUnanswered, Store, browser
  <2>2. msg[m].conv \in Convs /\ \A d \in Convs : m \notin Range(db[d])
    BY <2>1 DEF LogInv, FrameInv, StoreInv, Placed, Stored, Sent, Saved
  <2>3. Log!Post(msg[m].conv, m)
    BY <2>1, <2>2 DEF Log!Post, Log!Range, Range
  <2>4. QED
    BY <2>2, <2>3 DEF Log!Next
<1>7. ASSUME NEW m \in Saved, NEW u, UNCHANGED <<db, cuts>>,
             list' = [list EXCEPT ![u][msg[m].conv] = AppendMessage(@, m)]
      PROVE  [Log!Next]_<<db, cuts, list>>
  <2> DEFINE c == msg[m].conv
  <2>1. m \in Msgs /\ m \in Sent /\ c \in Convs /\ list \in [Users -> [Convs -> Seq(Msgs)]]
    BY DEF Saved, Sent, LogInv, FrameInv, Placed, TypeInv, BrowserTypes
  <2>2. m \in Range(db[c])
    BY <2>1 DEF LogInv, StoreInv, Stored
  <2>3. CASE u \in Users /\ m \notin Range(list[u][c])
    <3>1. list' = [list EXCEPT ![u][c] = Append(@, m)]
      BY <1>7, <2>1, <2>3 DEF AppendMessage
    <3>2. Log!See(u, c, m)
      BY <1>7, <2>2, <2>3, <3>1 DEF Log!See, Log!Range, Range
    <3>3. QED
      BY <2>1, <2>3, <3>2 DEF Log!Next
  <2>4. CASE u \in Users /\ m \in Range(list[u][c])
    <3>1. AppendMessage(list[u][c], m) = list[u][c]
      BY <2>4 DEF AppendMessage
    <3>2. list' = list
      BY <1>7, <2>1, <2>4, <3>1
    <3>3. QED
      BY <1>7, <3>2
  <2>5. CASE u \notin Users
    BY <1>7, <2>1, <2>5
  <2>6. QED
    BY <2>3, <2>4, <2>5
<1>8. ASSUME NEW s \in Sessions, Receive(s) PROVE [Log!Next]_<<db, cuts, list>>
  <2>1. down[s] \in Seq(Msgs) /\ down[s] # <<>> /\ Range(down[s]) \subseteq Saved
    BY <1>8 DEF Receive, TypeInv, WireTypes, LogInv, StoreInv, Queued
  <2>2. Head(down[s]) \in Saved
    BY <2>1 DEF Range
  <2>3. QED
    BY <1>7, <1>8, <2>2 DEF Receive, server, tables, history
<1>9. ASSUME NEW u \in Users, RestAnswer(u) PROVE [Log!Next]_<<db, cuts, list>>
  <2>1. sending[u] \in Saved
    BY <1>9, NoneAssumption DEF RestAnswer, Saved, TypeInv, BrowserTypes
  <2>2. QED
    BY <1>7, <1>9, <2>1 DEF RestAnswer, server, tables, history
<1>10. ASSUME NEW f \in Fetches, FetchReply(f) PROVE Log!Next
  <2> DEFINE u == fetcher[f].user  c == fetcher[f].conv
  <2>1. u \in Users /\ c \in Convs /\ fetch[f] = "read"
    BY <1>10 DEF FetchReply, TypeInv, Addressed
  <2>2. Window(f, c)
    BY <2>1 DEF LogInv, StoreInv, Copied
  <2>3. db[c] \in Seq(Msgs) /\ snap[f].from \in 0 .. Len(db[c]) /\ snap[f].from <= snap[f].upto
    BY <2>1, <2>2 DEF Window, TypeInv, ServerTypes
  <2>4. Log!Reload(u, c, snap[f].from, snap[f].upto)
    BY <1>10, <2>2, <2>3 DEF FetchReply, FetchTo, server, tables, Log!Reload, Window
  <2>5. QED
    BY <2>1, <2>2, <2>3, <2>4 DEF Log!Next, Window
<1>11. ASSUME DeleteMessages PROVE Log!Next
  <2>1. Log!Erase
    BY <1>11 DEF DeleteMessages, browser, Log!Erase
  <2>2. QED
    BY <2>1 DEF Log!Next
<1>12. QED
  BY <1>1, <1>2, <1>3, <1>4, <1>5, <1>6, <1>8, <1>9, <1>10, <1>11, StillActions, Zenon DEF Next

(* Whatever sockets, calls, publishes and fetches do to each other, every   *)
(* behaviour of the message path is one of the log.                         *)
THEOREM ImplementsTheLog == Spec => ImplementsLog
<1>1. Init => TypeInv /\ LogInv
  BY InitTypes, InitLog
<1>2. TypeInv /\ LogInv /\ [Next]_vars => (TypeInv /\ LogInv)'
  BY TypeStep, LogStep
<1>3. Init => Log!Init
  BY DEF Init, Log!Init
<1>4. TypeInv /\ LogInv /\ [Next]_vars => [Log!Next]_<<db, cuts, list>>
  BY LogRefines
<1>5. QED
  BY <1>1, <1>2, <1>3, <1>4, PTL DEF Spec, ImplementsLog, Log!Spec

(* What a browser lists in a conversation was stored in it, and is listed   *)
(* once, although the same message may come as the answer of the REST call  *)
(* that sent it, as a pushed frame, once more for every further             *)
(* subscription, and in a fetched page.                                     *)
THEOREM ListsAreSound == Spec => [](ShownWasStored /\ NoDuplicates)
<1>1. Init => TypeInv /\ LogInv
  BY InitTypes, InitLog
<1>2. TypeInv /\ LogInv /\ [Next]_vars => (TypeInv /\ LogInv)'
  BY TypeStep, LogStep
<1>3. LogInv => ShownWasStored /\ NoDuplicates
  BY DEF LogInv
<1>4. QED
  BY <1>1, <1>2, <1>3, PTL DEF Spec

-----------------------------------------------------------------------------
(* What leaves a list.                                                      *)

(* A page holds the last Page elements of what the log then held.           *)
LEMMA PageCovers ==
    ASSUME NEW s \in Seq(Msgs), NEW n \in 0 .. Len(s), NEW d \in 0 .. n,
           NEW i \in 1 .. n, i + Page > n, i > d
    PROVE  s[i] \in Range(Log!PageAt(s, d, n))
<1> DEFINE a == IF n > d + Page THEN n - Page + 1 ELSE d + 1
<1>1. a \in Nat \ {0} /\ Len(s) \in Nat /\ n \in Nat /\ i \in a .. n
  BY PageAssumption
<1>2. Log!PageAt(s, d, n) = SubSeq(s, a, n)
  BY DEF Log!PageAt
<1> HIDE DEF a
<1>3. \A k \in 1 .. Len(s) : s[k] \in Msgs
  OBVIOUS
<1>4. \A k \in a .. n : k \in 1 .. Len(s)
  BY <1>1
<1>5. /\ Len(SubSeq(s, a, n)) = IF a <= n THEN n - a + 1 ELSE 0
      /\ \A k \in 1 .. Len(SubSeq(s, a, n)) : SubSeq(s, a, n)[k] = s[a + k - 1]
      /\ DOMAIN SubSeq(s, a, n) = 1 .. Len(SubSeq(s, a, n))
  BY <1>1, <1>3, <1>4, SubSeqProperties
<1>6. i - a + 1 \in 1 .. Len(SubSeq(s, a, n)) /\ a + (i - a + 1) - 1 = i
  BY <1>1, <1>5
<1>7. SubSeq(s, a, n)[i - a + 1] = s[i] /\ i - a + 1 \in DOMAIN SubSeq(s, a, n)
  BY <1>5, <1>6
<1>8. QED
  BY <1>2, <1>7 DEF Range

(* Why m may leave the list of u for c.                                     *)
Replaced(u, c, m) ==
    \E f \in Fetches, i \in DOMAIN db[c] :
      /\ fetch[f] = "read" /\ fetch'[f] = "done"
      /\ fetcher[f] = [user |-> u, conv |-> c]
      /\ db[c][i] = m
      /\ i > snap[f].upto \/ i + Page <= snap[f].upto \/ i <= snap[f].from

LEMMA VanishStep ==
    ASSUME TypeInv, LogInv, [Next]_vars,
           NEW u \in Users, NEW c \in Convs, NEW m \in Range(list[u][c]) \ Range(list'[u][c])
    PROVE  Replaced(u, c, m)
<1>0. list[u][c] \in Seq(Msgs) /\ list \in [Users -> [Convs -> Seq(Msgs)]]
  BY DEF TypeInv, BrowserTypes
<1>1. ~UNCHANGED list
  OBVIOUS
<1>2. ASSUME NEW k \in Msgs, NEW v, NEW d, list' = [list EXCEPT ![v][d] = AppendMessage(@, k)]
      PROVE  FALSE
  <2>1. list'[u][c] = list[u][c] \/ list'[u][c] = AppendMessage(list[u][c], k)
    BY <1>0, <1>2
  <2>2. Range(AppendMessage(list[u][c], k)) = Range(list[u][c]) \cup {k}
    BY <1>0, AppendMessageOnce
  <2>3. QED
    BY <2>1, <2>2
<1>3. ASSUME NEW s \in Sessions PROVE ~Receive(s)
  <2>1. Receive(s) => Head(down[s]) \in Msgs
    BY DEF Receive, TypeInv, WireTypes
  <2>2. QED
    BY <1>2, <2>1 DEF Receive
<1>4. ASSUME NEW v \in Users PROVE ~RestAnswer(v)
  <2>1. RestAnswer(v) => sending[v] \in Msgs
    BY NoneAssumption DEF RestAnswer, TypeInv, BrowserTypes
  <2>2. QED
    BY <1>2, <2>1 DEF RestAnswer
<1>5. ASSUME NEW f \in Fetches, FetchReply(f) PROVE Replaced(u, c, m)
  <2>1. /\ fetch[f] = "read" /\ fetch' = [fetch EXCEPT ![f] = "done"]
        /\ list' = [list EXCEPT ![fetcher[f].user][fetcher[f].conv] = snap[f].rows]
    BY <1>5 DEF FetchReply, FetchTo
  <2>2. fetcher[f].user = u /\ fetcher[f].conv = c /\ list'[u][c] = snap[f].rows
    BY <1>0, <2>1
  <2>3. fetcher[f] = [user |-> u, conv |-> c] /\ fetch'[f] = "done"
    BY <2>1, <2>2 DEF TypeInv, BrowserTypes, Fetcher
  <2>4. /\ snap[f].upto \in 0 .. Len(db[c]) /\ snap[f].from \in 0 .. snap[f].upto
        /\ snap[f].rows = Log!PageAt(db[c], snap[f].from, snap[f].upto)
    BY <2>1, <2>2 DEF LogInv, StoreInv, Copied, Window
  <2>5. db[c] \in Seq(Msgs) /\ m \in Range(db[c])
    BY DEF TypeInv, ServerTypes, LogInv, ShownWasStored
  <2>6. PICK i \in DOMAIN db[c] : db[c][i] = m
    BY <2>5 DEF Range
  <2>7. i \in 1 .. Len(db[c]) /\ Len(db[c]) \in Nat
    BY <2>5
  <2>8. ~(i <= snap[f].upto /\ i + Page > snap[f].upto /\ i > snap[f].from)
    <3>1. i <= snap[f].upto => i \in 1 .. snap[f].upto
      BY <2>4, <2>7
    <3>2. QED
      BY <2>2, <2>4, <2>5, <2>6, <3>1, PageCovers
  <2>9. i > snap[f].upto \/ i + Page <= snap[f].upto \/ i <= snap[f].from
    BY <2>4, <2>7, <2>8, PageAssumption
  <2>10. QED
    BY <2>1, <2>3, <2>6, <2>9 DEF Replaced
<1>6. CASE \/ \E d \in Convs : AddConversation(d)
           \/ \E v \in Users : UpdateAccess(v) \/ CloseSocket(v) \/ RestFails(v)
           \/ \E v \in Users, s \in Sessions : Connect(v, s)
           \/ \E s \in Sessions : \/ ListConversations(s) \/ Upgrade(s) \/ ProxyOpen(s)
                                  \/ ReadFrame(s)
           \/ \E s \in Sessions, b \in Subs : Confirm(s, b) \/ LoseSubscription(s, b) \/ Pump(s, b)
           \/ Crash \/ DeleteMessages
           \/ \E v \in Users, k \in Msgs : SendWs(v, k) \/ SendRest(v, k)
           \/ \E k \in Msgs : \/ BackendCheck(k) \/ CheckAccess(k) \/ SendFails(k)
                              \/ Save(k) \/ SaveUnanswered(k) \/ Publish(k) \/ PublishFails(k)
           \/ \E v \in Users, d \in Convs, f \in Fetches : SelectConversation(v, d, f)
           \/ \E f \in Fetches : FetchCheck(f) \/ FetchRead(f) \/ FetchFails(f)
           \/ UNCHANGED vars
  <2>1. UNCHANGED list
    BY <1>6 DEF AddConversation, UpdateAccess, CloseSocket, RestFails, Connect,
       ListConversations, Upgrade, ProxyOpen, ReadFrame, Confirm, LoseSubscription, Pump, Crash,
       DeleteMessages, SendWs, SendRest, BackendCheck, CheckAccess, SendFails, Save, SaveUnanswered, Store, Publish, PublishFails, SelectConversation,
       FetchCheck, FetchRead, FetchFails, Advance, vars, browser
  <2>2. QED
    BY <1>1, <2>1
<1>7. QED
  BY <1>3, <1>4, <1>5, <1>6, Zenon DEF Next

(* A message leaves a list only when the answer to a fetch replaces it, and *)
(* then only one stored after the fetch read the table, older than the page *)
(* it read, or deleted by a reset before.                                   *)
THEOREM OnlyFetchesRemove == Spec => VanishExplained
<1>1. Init => TypeInv /\ LogInv
  BY InitTypes, InitLog
<1>2. TypeInv /\ LogInv /\ [Next]_vars => (TypeInv /\ LogInv)'
  BY TypeStep, LogStep
<1>3. TypeInv /\ LogInv /\ [Next]_vars =>
        [\A u \in Users, c \in Convs :
           \A m \in Range(list[u][c]) \ Range(list'[u][c]) :
             \E f \in Fetches, i \in DOMAIN db[c] :
               /\ fetch[f] = "read" /\ fetch'[f] = "done"
               /\ fetcher[f] = [user |-> u, conv |-> c]
               /\ db[c][i] = m
               /\ i > snap[f].upto \/ i + Page <= snap[f].upto \/ i <= snap[f].from]_vars
  BY VanishStep DEF Replaced
<1>4. QED
  BY <1>1, <1>2, <1>3, PTL DEF Spec, VanishExplained

-----------------------------------------------------------------------------
(* The order of the messages of one socket.                                 *)

(* An element of a sequence is its head or in its tail, in the first k or   *)
(* in the rest.                                                             *)
LEMMA SeqParts ==
    ASSUME NEW s \in Seq(Msgs)
    PROVE  /\ s # <<>> => \A m \in Range(s) \ {Head(s)} :
                            m \in Range(Tail(s)) /\ \E i \in DOMAIN s : i > 1 /\ m = s[i]
           /\ \A k \in 0 .. Len(s), m \in Range(s) :
                m \in Range(SubSeq(s, 1, k)) \/ m \in Range(SubSeq(s, k + 1, Len(s)))
<1>1. DOMAIN s = 1 .. Len(s) /\ Len(s) \in Nat
  OBVIOUS
<1>2. ASSUME s # <<>>, NEW m \in Range(s) \ {Head(s)}
      PROVE  m \in Range(Tail(s)) /\ \E i \in DOMAIN s : i > 1 /\ m = s[i]
  <2>1. PICK i \in DOMAIN s : m = s[i]
    BY DEF Range
  <2>2. i > 1 /\ i \in 1 .. Len(s)
    BY <1>1, <1>2, <2>1
  <2>3. i - 1 \in DOMAIN Tail(s) /\ Tail(s)[i - 1] = s[i]
    BY <1>1, <1>2, <2>2
  <2>4. QED
    BY <2>1, <2>2, <2>3 DEF Range
<1>3. ASSUME NEW k \in 0 .. Len(s), NEW m \in Range(s), m \notin Range(SubSeq(s, 1, k))
      PROVE  m \in Range(SubSeq(s, k + 1, Len(s)))
  <2>1. PICK i \in DOMAIN s : m = s[i]
    BY DEF Range
  <2>2. i \in 1 .. Len(s) /\ k \in Nat
    BY <1>1, <2>1
  <2>3. ~(i <= k)
    <3>1. i <= k => i \in DOMAIN SubSeq(s, 1, k) /\ SubSeq(s, 1, k)[i] = s[i]
      BY <1>1, <2>2
    <3>2. QED
      BY <1>3, <2>1, <3>1 DEF Range
  <2>4. i - k \in DOMAIN SubSeq(s, k + 1, Len(s)) /\ SubSeq(s, k + 1, Len(s))[i - k] = s[i]
    BY <1>1, <2>2, <2>3
  <2>5. QED
    BY <2>1, <2>4 DEF Range
<1>4. QED
  BY <1>2, <1>3

(* Messages are numbered as they are sent.  The frames of a socket wait in  *)
(* that order, all of them in its queue; at most one has been handed to     *)
(* SendMessage; and what is further on was sent before.                     *)
Sorted(seq) == \A i, j \in DOMAIN seq : i < j => msg[seq[i]].n < msg[seq[j]].n
InCall(m)   == st[m] \in {"asked", "checked"}
Ahead(m, k) == \/ m \in Saved /\ (st[k] = "wire" \/ InCall(k))
               \/ InCall(m) /\ st[k] = "wire"
Mates(m, k) == msg[m].via = msg[k].via /\ msg[m].via # None

Counted  == \A m \in Sent : msg[m].n < Cardinality(Sent)
Waiting  == \A m \in Sent : st[m] = "wire" =>
               msg[m].via \in Sessions /\ m \in Range(up[msg[m].via])
InOrder  == \A s \in Sessions : Sorted(up[s])
Turns    == \A m, k \in Sent : Mates(m, k) =>
               /\ Ahead(m, k) => msg[m].n < msg[k].n
               /\ InCall(m) /\ InCall(k) => m = k
RestOnly == \A m \in Sent : st[m] = "posted" => msg[m].via = None

OrderInv == Counted /\ Waiting /\ InOrder /\ Turns /\ RestOnly /\ SessionOrder

(* Calls that fail, frames that are lost and checks that pass put nobody    *)
(* ahead of anybody.                                                        *)
Lapse(k) == \/ st'[k] = st[k]
            \/ st[k] # "none" /\ st'[k] \in {"dropped", "failed", "refused"}
            \/ st[k] = "asked" /\ st'[k] = "checked"
            \/ st[k] = "posted" /\ st'[k] = "asked"

LEMMA LapsesKeepOrder ==
    ASSUME TypeInv, OrderInv, UNCHANGED <<db, msg>>, \A k \in Msgs : Lapse(k)
    PROVE  Sent' = Sent /\ Counted' /\ Turns' /\ RestOnly' /\ SessionOrder'
<1>1. Sent' = Sent
  BY DEF Sent, Lapse
<1>2. Counted' /\ SessionOrder'
  BY <1>1 DEF OrderInv, Counted, SessionOrder
<1>3. RestOnly'
  BY <1>1 DEF OrderInv, RestOnly, Lapse, Sent
<1>4. ASSUME NEW m \in Sent, NEW k \in Sent, Mates(m, k)
      PROVE  /\ Ahead(m, k)' => msg[m].n < msg[k].n
             /\ InCall(m)' /\ InCall(k)' => m = k
  <2>1. m \in Msgs /\ k \in Msgs /\ st[m] # "posted" /\ st[k] # "posted"
    BY <1>4 DEF OrderInv, RestOnly, Mates, Sent
  <2>2. \A q \in {m, k} : /\ InCall(q)' => InCall(q)
                          /\ st'[q] = "wire" => st[q] = "wire"
                          /\ q \in Saved' => q \in Saved
    BY <2>1 DEF Lapse, InCall, Saved
  <2>3. Ahead(m, k)' => Ahead(m, k)
    BY <2>2 DEF Ahead
  <2>4. QED
    BY <1>4, <2>2, <2>3 DEF OrderInv, Turns
<1>5. Turns'
  BY <1>1, <1>4 DEF Turns, Mates
<1>6. QED
  BY <1>1, <1>2, <1>3, <1>5

LEMMA LapsesInPlace ==
    ASSUME TypeInv, OrderInv, UNCHANGED <<db, msg, up>>, \A k \in Msgs : Lapse(k)
    PROVE  OrderInv'
<1>1. Sent' = Sent /\ Counted' /\ Turns' /\ RestOnly' /\ SessionOrder'
  BY LapsesKeepOrder
<1>2. Waiting'
  BY <1>1 DEF OrderInv, Waiting, Lapse, Sent
<1>3. InOrder'
  BY DEF OrderInv, InOrder, Sorted
<1>4. QED
  BY <1>1, <1>2, <1>3 DEF OrderInv

(* A new message gets the highest number and the last place.                *)
LEMMA ComposeOrders ==
    ASSUME TypeInv, LogInv, OrderInv, NEW u \in Users, NEW m \in Msgs,
           NEW via \in Sessions \cup {None}, NEW stage \in {"wire", "dropped", "posted"},
           CanSend(u, m), Compose(u, m, via, stage), UNCHANGED db,
           stage = "posted" => via = None,
           IF stage = "wire"
           THEN via \in Sessions /\ up' = [up EXCEPT ![via] = Append(@, m)]
           ELSE UNCHANGED up
    PROVE  OrderInv'
<1> DEFINE N == Cardinality(Sent)
<1>1. msg \in [Msgs -> MsgType] /\ st \in [Msgs -> Stages] /\ up \in [Sessions -> Seq(Msgs)]
  BY DEF TypeInv, ServerTypes, WireTypes
<1>2. st[m] = "none" /\ m \notin Sent
  BY DEF CanSend, Sent
<1>3. /\ msg'[m].via = via /\ msg'[m].n = N /\ st'[m] = stage
      /\ \A k \in Msgs \ {m} : msg'[k] = msg[k] /\ st'[k] = st[k]
  BY <1>1 DEF Compose
<1>4. Sent' = Sent \cup {m}
  BY <1>1, <1>3 DEF Sent
<1>5. N \in Nat /\ Cardinality(Sent') = N + 1
  <2>1. IsFiniteSet(Sent)
    BY MsgsAssumption, FS_Subset DEF Sent
  <2>2. QED
    BY <1>2, <1>4, <2>1, SentCount, FS_AddElement
<1> HIDE DEF N
<1>6. \A k \in Sent : k \in Msgs \ {m} /\ msg[k].n < N /\ msg[k].n \in Nat
  BY <1>1, <1>2 DEF OrderInv, Counted, N, Sent, MsgType
<1>7. Counted'
  BY <1>3, <1>4, <1>5, <1>6 DEF Counted
<1>8. ASSUME NEW k \in Sent', st'[k] = "wire"
      PROVE  msg'[k].via \in Sessions /\ k \in Range(up'[msg'[k].via])
  <2>1. CASE k = m
    <3>1. stage = "wire" /\ via \in Sessions /\ up'[via] = Append(up[via], m)
      BY <1>1, <1>3, <1>8, <2>1
    <3>2. m \in Range(Append(up[via], m))
      BY <1>1, <3>1, AppendOnce
    <3>3. QED
      BY <1>3, <2>1, <3>1, <3>2
  <2>2. CASE k # m
    <3>1. k \in Sent /\ st[k] = "wire" /\ msg'[k] = msg[k]
      BY <1>3, <1>4, <1>8, <2>2 DEF Sent
    <3>2. msg[k].via \in Sessions /\ k \in Range(up[msg[k].via])
      BY <3>1 DEF OrderInv, Waiting
    <3>3. \A s \in Sessions : up'[s] = up[s] \/ up'[s] = Append(up[s], m)
      BY <1>1
    <3>4. \A s \in Sessions : Range(up[s]) \subseteq Range(up'[s])
      <4>1. SUFFICES ASSUME NEW s \in Sessions PROVE Range(up[s]) \subseteq Range(up'[s])
        OBVIOUS
      <4>2. up[s] \in Seq(Msgs)
        BY <1>1
      <4>3. Range(Append(up[s], m)) = Range(up[s]) \cup {m}
        BY <4>2, AppendOnce
      <4>4. QED
        BY <3>3, <4>3
    <3>5. QED
      BY <3>1, <3>2, <3>4
  <2>3. QED
    BY <2>1, <2>2
<1>9. ASSUME NEW s \in Sessions PROVE Sorted(up[s])'
  <2>1. up[s] \in Seq(Msgs) /\ Sorted(up[s]) /\ \A i \in DOMAIN up[s] : up[s][i] \in Sent
    BY <1>1 DEF OrderInv, InOrder, LogInv, FrameInv, Afloat, Range, Sent
  <2>2. \A i \in DOMAIN up[s] : msg'[up[s][i]] = msg[up[s][i]] /\ msg[up[s][i]].n < N
    BY <1>3, <1>6, <2>1
  <2>3. CASE up'[s] = up[s]
    BY <2>1, <2>2, <2>3 DEF Sorted
  <2>4. CASE up'[s] = Append(up[s], m)
    <3>1. /\ DOMAIN Append(up[s], m) = 1 .. Len(up[s]) + 1 /\ DOMAIN up[s] = 1 .. Len(up[s])
          /\ \A i \in 1 .. Len(up[s]) : Append(up[s], m)[i] = up[s][i]
          /\ Append(up[s], m)[Len(up[s]) + 1] = m /\ Len(up[s]) \in Nat
      BY <2>1
    <3>2. ASSUME NEW i \in DOMAIN up'[s], NEW j \in DOMAIN up'[s], i < j
          PROVE  msg'[up'[s][i]].n < msg'[up'[s][j]].n
      <4>1. i \in DOMAIN up[s] /\ up'[s][i] = up[s][i]
        BY <2>4, <3>1, <3>2
      <4>2. CASE j \in DOMAIN up[s]
        <5>1. up'[s][j] = up[s][j]
          BY <2>4, <3>1, <4>2
        <5>2. QED
          BY <2>1, <2>2, <3>2, <4>1, <4>2, <5>1 DEF Sorted
      <4>3. CASE j = Len(up[s]) + 1
        BY <1>3, <2>2, <2>4, <3>1, <4>1, <4>3
      <4>4. QED
        BY <2>4, <3>1, <4>2, <4>3
    <3>3. QED
      BY <3>2 DEF Sorted
  <2>5. QED
    BY <1>1, <2>3, <2>4
<1>10. ASSUME NEW a \in Sent', NEW k \in Sent', Mates(a, k)'
       PROVE  /\ Ahead(a, k)' => msg'[a].n < msg'[k].n
              /\ InCall(a)' /\ InCall(k)' => a = k
  <2>1. a # m /\ k # m => a \in Sent /\ k \in Sent /\ a \in Msgs \ {m} /\ k \in Msgs \ {m}
    BY <1>4, <1>6
  <2>2. CASE a # m /\ k # m
    <3>1. msg'[a] = msg[a] /\ msg'[k] = msg[k] /\ st'[a] = st[a] /\ st'[k] = st[k]
      BY <1>3, <2>1, <2>2
    <3>2. Mates(a, k) /\ (Ahead(a, k)' => Ahead(a, k))
          /\ (InCall(a)' => InCall(a)) /\ (InCall(k)' => InCall(k))
      BY <1>10, <3>1 DEF Mates, Ahead, InCall, Saved
    <3>3. QED
      BY <2>1, <2>2, <3>1, <3>2 DEF OrderInv, Turns
  <2>3. CASE a = m
    BY <1>3, <2>3 DEF Ahead, InCall, Saved
  <2>4. CASE k = m /\ a # m
    <3>1. msg'[a].n < msg'[k].n
      BY <1>3, <1>4, <1>6, <2>4
    <3>2. ~InCall(k)'
      BY <1>3, <2>4 DEF InCall
    <3>3. QED
      BY <3>1, <3>2
  <2>5. QED
    BY <2>2, <2>3, <2>4
<1>11. RestOnly'
  BY <1>3, <1>4, <1>6 DEF OrderInv, RestOnly
<1>12. SessionOrder'
  <2>1. \A c \in Convs : \A i \in DOMAIN db[c] : db[c][i] \in Msgs \ {m}
    <3>1. \A c \in Convs : db[c] \in Seq(Msgs) /\ m \notin Range(db[c])
      BY <1>2 DEF TypeInv, ServerTypes, LogInv, StoreInv, Stored, Saved
    <3>2. QED
      BY <3>1 DEF Range
  <2>2. QED
    BY <1>3, <2>1 DEF OrderInv, SessionOrder
<1>13. QED
  BY <1>7, <1>8, <1>9, <1>10, <1>11, <1>12 DEF OrderInv, Waiting, InOrder, Turns

LEMMA ReadFrameOrders ==
    ASSUME TypeInv, LogInv, OrderInv, NEW s \in Sessions, ReadFrame(s)
    PROVE  OrderInv'
<1> DEFINE m == Head(up[s])
<1>1. /\ up \in [Sessions -> Seq(Msgs)] /\ up[s] \in Seq(Msgs) /\ up[s] # <<>>
      /\ st \in [Msgs -> Stages]
  BY DEF ReadFrame, TypeInv, WireTypes, ServerTypes
<1>2. m = up[s][1] /\ 1 \in DOMAIN up[s] /\ m \in Msgs /\ m \in Range(up[s])
  BY <1>1 DEF Range
<1>3. st[m] = "wire" /\ msg[m].via = s /\ m \in Sent
  BY <1>2 DEF LogInv, FrameInv, Afloat, Sent
<1>4. st' = [st EXCEPT ![m] = "asked"] /\ up' = [up EXCEPT ![s] = Tail(@)] /\ UNCHANGED <<db, msg>>
  BY DEF ReadFrame, Advance, tables
<1>5. ~Busy(s)
  BY DEF ReadFrame
<1>6. \A k \in Range(up[s]) \ {m} :
        k \in Range(Tail(up[s])) /\ \E i \in DOMAIN up[s] : i > 1 /\ k = up[s][i]
  BY <1>1, SeqParts
<1> HIDE DEF m
<1>7. /\ st'[m] = "asked" /\ \A k \in Msgs \ {m} : st'[k] = st[k]
      /\ up'[s] = Tail(up[s]) /\ \A r \in Sessions \ {s} : up'[r] = up[r]
  BY <1>1, <1>2, <1>4
<1>8. Sent' = Sent
  BY <1>1, <1>2, <1>3, <1>7 DEF Sent
<1>9. Counted' /\ SessionOrder'
  BY <1>4, <1>8 DEF OrderInv, Counted, SessionOrder
<1>10. RestOnly'
  BY <1>4, <1>7, <1>8 DEF OrderInv, RestOnly, Sent
<1>11. ASSUME NEW k \in Sent, st'[k] = "wire"
       PROVE  msg[k].via \in Sessions /\ k \in Range(up'[msg[k].via])
  <2>1. k # m /\ st[k] = "wire"
    BY <1>7, <1>11 DEF Sent
  <2>2. msg[k].via \in Sessions /\ k \in Range(up[msg[k].via])
    BY <2>1 DEF OrderInv, Waiting
  <2>3. QED
    BY <1>6, <1>7, <2>1, <2>2
<1>12. ASSUME NEW r \in Sessions PROVE Sorted(up[r])'
  <2>1. Sorted(up[r])
    BY DEF OrderInv, InOrder
  <2>2. CASE r # s
    BY <1>4, <1>7, <2>1, <2>2 DEF Sorted
  <2>3. CASE r = s
    <3>1. /\ DOMAIN up[s] = 1 .. Len(up[s]) /\ DOMAIN Tail(up[s]) = 1 .. Len(up[s]) - 1
          /\ Len(up[s]) \in Nat /\ \A i \in 1 .. Len(up[s]) - 1 : Tail(up[s])[i] = up[s][i + 1]
      BY <1>1
    <3>2. ASSUME NEW i \in DOMAIN Tail(up[s]), NEW j \in DOMAIN Tail(up[s]), i < j
          PROVE  msg[Tail(up[s])[i]].n < msg[Tail(up[s])[j]].n
      <4>1. i + 1 \in DOMAIN up[s] /\ j + 1 \in DOMAIN up[s] /\ i + 1 < j + 1
        BY <3>1, <3>2
      <4>2. Tail(up[s])[i] = up[s][i + 1] /\ Tail(up[s])[j] = up[s][j + 1]
        BY <3>1, <3>2
      <4>3. QED
        BY <2>1, <2>3, <4>1, <4>2 DEF Sorted
    <3>3. QED
      BY <1>4, <1>7, <2>3, <3>2 DEF Sorted
  <2>4. QED
    BY <2>2, <2>3
<1>13. ASSUME NEW a \in Sent, NEW k \in Sent, Mates(a, k)
       PROVE  /\ Ahead(a, k)' => msg[a].n < msg[k].n
              /\ InCall(a)' /\ InCall(k)' => a = k
  <2>1. a \in Msgs /\ k \in Msgs
    BY DEF Sent
  <2>2. CASE a # m /\ k # m
    <3>1. st'[a] = st[a] /\ st'[k] = st[k]
      BY <1>7, <2>1, <2>2
    <3>2. (Ahead(a, k)' <=> Ahead(a, k)) /\ (InCall(a)' <=> InCall(a))
          /\ (InCall(k)' <=> InCall(k))
      BY <2>1, <3>1 DEF Ahead, InCall, Saved
    <3>3. QED
      BY <1>13, <3>2 DEF OrderInv, Turns
  <2>3. CASE a = m /\ k # m
    <3>1. st'[k] = st[k] /\ msg[k].via = s
      BY <1>3, <1>7, <1>13, <2>1, <2>3 DEF Mates
    <3>2. ~InCall(k)
      BY <1>5, <3>1 DEF Busy, InCall
    <3>3. ASSUME st[k] = "wire" PROVE msg[m].n < msg[k].n
      <4>1. k \in Range(up[s])
        BY <3>1, <3>3 DEF OrderInv, Waiting
      <4>2. PICK i \in DOMAIN up[s] : i > 1 /\ k = up[s][i]
        BY <1>6, <2>3, <4>1
      <4>3. QED
        BY <1>2, <4>2 DEF OrderInv, InOrder, Sorted
    <3>4. QED
      BY <1>7, <2>3, <3>1, <3>2, <3>3 DEF Ahead, InCall, Saved
  <2>4. CASE a # m /\ k = m
    <3>1. st'[a] = st[a] /\ msg[a].via = s
      BY <1>3, <1>7, <1>13, <2>1, <2>4 DEF Mates
    <3>2. ~InCall(a)
      BY <1>5, <3>1 DEF Busy, InCall
    <3>3. Ahead(a, k)' => Ahead(a, k)
      BY <1>3, <1>7, <2>1, <2>4, <3>1 DEF Ahead, InCall, Saved
    <3>4. InCall(a)' => InCall(a)
      BY <3>1 DEF InCall
    <3>5. QED
      BY <1>13, <3>2, <3>3, <3>4 DEF OrderInv, Turns
  <2>5. CASE a = m /\ k = m
    BY <1>7, <2>5 DEF Ahead, InCall, Saved
  <2>6. QED
    BY <2>2, <2>3, <2>4, <2>5
<1>14. Waiting' /\ Turns'
  BY <1>4, <1>8, <1>11, <1>13 DEF Waiting, Turns, Mates
<1>15. QED
  BY <1>9, <1>10, <1>12, <1>14 DEF OrderInv, InOrder

(* Of a closing socket's frames a prefix goes on waiting.                   *)
LEMMA CloseOrders ==
    ASSUME TypeInv, LogInv, OrderInv, NEW u \in Users, CloseSocket(u)
    PROVE  OrderInv'
<1> DEFINE s == cur[u]
<1>1. s \in Sessions
  BY DEF CloseSocket, TypeInv, BrowserTypes
<1>2. PICK k \in 0 .. Len(up[s]) :
        /\ up' = [up EXCEPT ![s] = SubSeq(@, 1, k)]
        /\ st' = [m \in Msgs |-> IF m \in Range(SubSeq(up[s], k + 1, Len(up[s])))
                                 THEN "dropped" ELSE st[m]]
  BY DEF CloseSocket
<1>3. up \in [Sessions -> Seq(Msgs)] /\ up[s] \in Seq(Msgs) /\ Len(up[s]) \in Nat
  BY <1>1 DEF TypeInv, WireTypes
<1>4. UNCHANGED <<db, msg>>
  BY DEF CloseSocket, tables
<1> HIDE DEF s
<1>5. \A m \in Range(SubSeq(up[s], k + 1, Len(up[s]))) : m \in Range(up[s])
  BY <1>3, SubSeqType
<1>6. \A m \in Range(up[s]) : st[m] = "wire"
  BY <1>1 DEF LogInv, FrameInv, Afloat
<1>7. \A m \in Msgs : Lapse(m)
  BY <1>2, <1>5, <1>6 DEF Lapse
<1>8. Sent' = Sent /\ Counted' /\ Turns' /\ RestOnly' /\ SessionOrder'
  BY <1>4, <1>7, LapsesKeepOrder
<1>9. up'[s] = SubSeq(up[s], 1, k) /\ \A r \in Sessions \ {s} : up'[r] = up[r]
  BY <1>1, <1>2, <1>3
<1>10. ASSUME NEW m \in Sent, st'[m] = "wire"
       PROVE  msg[m].via \in Sessions /\ m \in Range(up'[msg[m].via])
  <2>1. st[m] = "wire" /\ m \notin Range(SubSeq(up[s], k + 1, Len(up[s])))
    BY <1>2, <1>10 DEF Sent
  <2>2. msg[m].via \in Sessions /\ m \in Range(up[msg[m].via])
    BY <2>1 DEF OrderInv, Waiting
  <2>3. CASE msg[m].via = s
    BY <1>3, <1>9, <2>1, <2>2, <2>3, SeqParts
  <2>4. CASE msg[m].via # s
    BY <1>9, <2>2, <2>4
  <2>5. QED
    BY <2>3, <2>4
<1>11. ASSUME NEW r \in Sessions PROVE Sorted(up[r])'
  <2>1. Sorted(up[r])
    BY DEF OrderInv, InOrder
  <2>2. CASE r # s
    BY <1>4, <1>9, <2>1, <2>2 DEF Sorted
  <2>3. CASE r = s
    <3>1. /\ DOMAIN SubSeq(up[s], 1, k) \subseteq DOMAIN up[s]
          /\ \A i \in DOMAIN SubSeq(up[s], 1, k) : SubSeq(up[s], 1, k)[i] = up[s][i]
      BY <1>3
    <3>2. QED
      BY <1>4, <1>9, <2>1, <2>3, <3>1 DEF Sorted
  <2>4. QED
    BY <2>2, <2>3
<1>12. Waiting'
  BY <1>4, <1>8, <1>10 DEF Waiting
<1>13. QED
  BY <1>8, <1>11, <1>12 DEF OrderInv, InOrder

(* The row is inserted behind those of the frames that came before.         *)
LEMMA SaveOrders ==
    ASSUME TypeInv, LogInv, OrderInv, NEW m \in Msgs, Save(m) \/ SaveUnanswered(m)
    PROVE  OrderInv'
<1>1. /\ st[m] = "checked"
      /\ st' = [st EXCEPT ![m] = "saved"] \/ st' = [st EXCEPT ![m] = "unanswered"]
      /\ db' = [db EXCEPT ![msg[m].conv] = Append(@, m)]
      /\ UNCHANGED <<msg, up>>
  BY DEF Save, SaveUnanswered, Store, wire
<1>2. db \in [Convs -> Seq(Msgs)] /\ st \in [Msgs -> Stages]
  BY DEF TypeInv, ServerTypes
<1>3. st'[m] \in {"saved", "unanswered"} /\ \A k \in Msgs \ {m} : st'[k] = st[k]
  BY <1>1, <1>2
<1>4. Sent' = Sent /\ m \in Sent
  BY <1>1, <1>3 DEF Sent
<1>5. Counted' /\ Waiting' /\ RestOnly'
  BY <1>1, <1>3, <1>4 DEF OrderInv, Counted, Waiting, RestOnly, Sent
<1>6. InOrder'
  BY <1>1 DEF OrderInv, InOrder, Sorted
<1>7. ASSUME NEW a \in Sent, NEW k \in Sent, Mates(a, k)
      PROVE  /\ Ahead(a, k)' => msg[a].n < msg[k].n
             /\ InCall(a)' /\ InCall(k)' => a = k
  <2>1. a \in Msgs /\ k \in Msgs
    BY DEF Sent
  <2>2. /\ Ahead(a, k) => msg[a].n < msg[k].n
        /\ InCall(a) /\ InCall(k) => a = k
    BY <1>7 DEF OrderInv, Turns
  <2>3. CASE a # m /\ k # m
    <3>1. st'[a] = st[a] /\ st'[k] = st[k]
      BY <1>3, <2>1, <2>3
    <3>2. QED
      BY <2>1, <2>2, <3>1 DEF Ahead, InCall, Saved
  <2>4. CASE k = m
    BY <1>3, <2>4 DEF Ahead, InCall
  <2>5. CASE a = m /\ k # m
    <3>1. st'[k] = st[k] /\ InCall(a)
      BY <1>1, <1>3, <2>1, <2>5 DEF InCall
    <3>2. ~InCall(k)
      BY <2>2, <2>5, <3>1
    <3>3. ~InCall(a)' /\ (Ahead(a, k)' => Ahead(a, k))
      BY <1>3, <2>1, <2>5, <3>1, <3>2 DEF Ahead, InCall, Saved
    <3>4. QED
      BY <2>2, <3>3
  <2>6. QED
    BY <2>3, <2>4, <2>5
<1>8. Turns'
  BY <1>1, <1>4, <1>7 DEF Turns, Mates
<1>9. ASSUME NEW c \in Convs, NEW i \in DOMAIN db'[c], NEW j \in DOMAIN db'[c], i < j,
             Mates(db'[c][i], db'[c][j])
      PROVE  msg[db'[c][i]].n < msg[db'[c][j]].n
  <2>1. db[c] \in Seq(Msgs)
    BY <1>2
  <2>2. CASE db'[c] = db[c]
    BY <1>9, <2>2 DEF OrderInv, SessionOrder, Mates
  <2>3. CASE db'[c] = Append(db[c], m)
    <3>1. /\ DOMAIN Append(db[c], m) = 1 .. Len(db[c]) + 1 /\ DOMAIN db[c] = 1 .. Len(db[c])
          /\ \A k \in 1 .. Len(db[c]) : Append(db[c], m)[k] = db[c][k]
          /\ Append(db[c], m)[Len(db[c]) + 1] = m /\ Len(db[c]) \in Nat
      BY <2>1
    <3>2. i \in DOMAIN db[c] /\ db'[c][i] = db[c][i]
      BY <1>9, <2>3, <3>1
    <3>3. CASE j \in DOMAIN db[c]
      <4>1. db'[c][j] = db[c][j]
        BY <2>3, <3>1, <3>3
      <4>2. QED
        BY <1>9, <3>2, <3>3, <4>1 DEF OrderInv, SessionOrder, Mates
    <3>4. CASE j = Len(db[c]) + 1
      <4>1. db'[c][j] = m
        BY <2>3, <3>1, <3>4
      <4>2. db[c][i] \in Saved
        BY <3>2 DEF LogInv, StoreInv, Stored, Range, Saved, TypeInv, ServerTypes
      <4>3. Ahead(db[c][i], m) /\ db[c][i] \in Sent
        BY <1>1, <4>2 DEF Ahead, InCall, Saved, Sent
      <4>4. QED
        BY <1>4, <1>9, <3>2, <4>1, <4>3 DEF OrderInv, Turns
    <3>5. QED
      BY <2>3, <3>1, <3>3, <3>4
  <2>4. QED
    BY <1>1, <1>2, <2>2, <2>3
<1>10. SessionOrder'
  <2>1. SUFFICES ASSUME NEW c \in Convs, NEW i \in DOMAIN db'[c], NEW j \in DOMAIN db'[c], i < j,
                        msg'[db'[c][i]].via = msg'[db'[c][j]].via, msg'[db'[c][i]].via # None
                 PROVE  msg'[db'[c][i]].n < msg'[db'[c][j]].n
    BY DEF SessionOrder
  <2>2. msg' = msg
    BY <1>1
  <2>3. Mates(db'[c][i], db'[c][j])
    BY <2>1, <2>2 DEF Mates
  <2>4. QED
    BY <1>9, <2>1, <2>2, <2>3
<1>11. QED
  BY <1>5, <1>6, <1>8, <1>10 DEF OrderInv

(* A crash ends the calls and loses the frames.                             *)
LEMMA CrashOrders == ASSUME TypeInv, LogInv, OrderInv, Crash PROVE OrderInv'
<1>1. /\ st' = [m \in Msgs |-> IF st[m] = "wire" THEN "dropped"
                               ELSE IF st[m] \in {"asked", "checked"} THEN "failed"
                               ELSE st[m]]
      /\ up' = [s \in Sessions |-> <<>>] /\ UNCHANGED <<db, msg>>
  BY DEF Crash, tables
<1>2. \A m \in Msgs : Lapse(m) /\ st'[m] # "wire"
  BY <1>1 DEF Lapse
<1>3. Sent' = Sent /\ Counted' /\ Turns' /\ RestOnly' /\ SessionOrder'
  BY <1>1, <1>2, LapsesKeepOrder
<1>4. Waiting' /\ InOrder'
  BY <1>1, <1>2 DEF Waiting, InOrder, Sorted, Sent
<1>5. QED
  BY <1>3, <1>4 DEF OrderInv

LEMMA OrderStep == ASSUME TypeInv, LogInv, OrderInv, [Next]_vars PROVE OrderInv'
<1>1. ASSUME UNCHANGED <<db, msg, st, up>> PROVE OrderInv'
  BY <1>1, LapsesInPlace DEF Lapse
<1>2. ASSUME NEW u \in Users, NEW m \in Msgs, SendWs(u, m) PROVE OrderInv'
  <2>1. cur[u] \in Sessions
    BY <1>2 DEF SendWs, TypeInv, BrowserTypes
  <2>2. CASE phase[cur[u]] = "open"
    <3>1. /\ CanSend(u, m) /\ Compose(u, m, cur[u], "wire") /\ UNCHANGED db
          /\ up' = [up EXCEPT ![cur[u]] = Append(@, m)]
      BY <1>2, <2>2 DEF SendWs, tables
    <3>2. QED
      BY <2>1, <3>1, ComposeOrders
  <2>3. CASE phase[cur[u]] # "open"
    <3>1. CanSend(u, m) /\ Compose(u, m, cur[u], "dropped") /\ UNCHANGED <<db, up>>
      BY <1>2, <2>3 DEF SendWs, tables
    <3>2. QED
      BY <2>1, <3>1, ComposeOrders
  <2>4. QED
    BY <2>2, <2>3
<1>3. ASSUME NEW u \in Users, NEW m \in Msgs, SendRest(u, m) PROVE OrderInv'
  <2>1. CanSend(u, m) /\ Compose(u, m, None, "posted") /\ UNCHANGED <<db, up>>
    BY <1>3 DEF SendRest, wire, tables
  <2>2. QED
    BY <2>1, ComposeOrders
<1>4. ASSUME NEW m \in Msgs, BackendCheck(m) \/ CheckAccess(m) \/ SendFails(m) PROVE OrderInv'
  <2>1. /\ UNCHANGED <<db, msg, up>>
        /\ \/ st' = [st EXCEPT ![m] = "failed"] /\ st[m] # "none"
           \/ st' = [st EXCEPT ![m] = "refused"] /\ st[m] # "none"
           \/ st' = [st EXCEPT ![m] = "asked"] /\ st[m] = "posted"
           \/ st' = [st EXCEPT ![m] = "checked"] /\ st[m] = "asked"
    BY <1>4 DEF BackendCheck, CheckAccess, SendFails, Advance, tables
  <2>2. \A k \in Msgs : Lapse(k)
    BY <2>1 DEF Lapse, TypeInv, ServerTypes
  <2>3. QED
    BY <2>1, <2>2, LapsesInPlace
<1>5. CASE \/ \E c \in Convs : AddConversation(c)
           \/ \E u \in Users : UpdateAccess(u) \/ RestAnswer(u) \/ RestFails(u)
           \/ \E u \in Users, s \in Sessions : Connect(u, s)
           \/ \E s \in Sessions : \/ ListConversations(s) \/ Upgrade(s) \/ ProxyOpen(s)
                                  \/ Receive(s)
           \/ \E s \in Sessions, b \in Subs : Confirm(s, b) \/ LoseSubscription(s, b) \/ Pump(s, b)
           \/ DeleteMessages
           \/ \E m \in Msgs : Publish(m) \/ PublishFails(m)
           \/ \E u \in Users, c \in Convs, f \in Fetches : SelectConversation(u, c, f)
           \/ \E f \in Fetches : FetchCheck(f) \/ FetchRead(f) \/ FetchReply(f) \/ FetchFails(f)
           \/ UNCHANGED vars
  <2>1. UNCHANGED <<db, msg, st, up>>
    BY <1>5 DEF AddConversation, UpdateAccess, RestAnswer, RestFails, Connect, ListConversations,
       Upgrade, ProxyOpen, Receive, Confirm, LoseSubscription, Pump, DeleteMessages, Publish,
       PublishFails, SelectConversation, FetchCheck, FetchRead, FetchReply, FetchFails, FetchTo,
       vars, server, wire, tables
  <2>2. QED
    BY <1>1, <2>1
<1>6. QED
  BY <1>2, <1>3, <1>4, <1>5, CrashOrders, ReadFrameOrders, CloseOrders, SaveOrders, Zenon DEF Next

LEMMA InitOrder == Init => OrderInv
BY DEF Init, OrderInv, Counted, Waiting, InOrder, Sorted, Turns, RestOnly, SessionOrder, Sent

(* Messages sent over one socket are stored in the order they were sent:    *)
(* the read loop handles one frame to its end before it takes the next.     *)
THEOREM MessagesKeepTheirOrder == Spec => []SessionOrder
<1>1. Init => TypeInv /\ LogInv /\ OrderInv
  BY InitTypes, InitLog, InitOrder
<1>2. TypeInv /\ LogInv /\ OrderInv /\ [Next]_vars => (TypeInv /\ LogInv /\ OrderInv)'
  BY TypeStep, LogStep, OrderStep
<1>3. OrderInv => SessionOrder
  BY DEF OrderInv
<1>4. QED
  BY <1>1, <1>2, <1>3, PTL DEF Spec

-----------------------------------------------------------------------------
(* What is owed to a session.                                               *)

(* What a session had subscribed for when it was stored is lost in one of   *)
(* the three ways, pending, under way to its browser, or in a list there:   *)
(* at the moment of the publish Redis serves it or it becomes missed.       *)
Open(s)   == phase[s] \in {"subscribed", "open"}
Early(s)  == phase[s] \in {"unused", "dialing", "listed"}
Coming(s, m)  == InTransit(s, m) \/ Shown(s, m)
Settled(s, m) == Lost(s, m) \/ pub[m] = "pending" \/ Coming(s, m)

Debt(s) == /\ Early(s) => owed[s] = {}
           /\ phase[s] \in {"dialing", "listed"} \/ Open(s) => owner[s] \in Users
           /\ owed[s] \subseteq Saved
           /\ Open(s) => \A m \in owed[s] : Settled(s, m)

OwedInv == \A s \in Sessions : Debt(s)

(* A step after which a session is what it was and is owed no more.         *)
LEMMA DebtKept ==
    ASSUME NEW s \in Sessions, Debt(s), Saved \subseteq Saved',
           \A m \in Saved : st'[m] = st[m] /\ pub'[m] \in {pub[m], "lost"},
           owner'[s] = owner[s], phase'[s] = phase[s],
           owed'[s] \subseteq owed[s], missed[s] \subseteq missed'[s],
           \A m \in owed'[s] : Coming(s, m) => Coming(s, m)'
    PROVE  Debt(s)'
<1>1. (Open(s)' <=> Open(s)) /\ (Early(s)' <=> Early(s))
  BY DEF Open, Early
<1>2. ASSUME Open(s), NEW m \in owed'[s] PROVE Settled(s, m)'
  <2>1. m \in owed[s] /\ m \in Saved /\ Settled(s, m)
    BY <1>2 DEF Debt
  <2>2. st'[m] = st[m] /\ pub'[m] \in {pub[m], "lost"}
    BY <2>1
  <2>3. QED
    BY <1>2, <2>1, <2>2 DEF Settled, Lost
<1>3. QED
  BY <1>1, <1>2 DEF Debt

(* Lists that grow go on showing what they showed.                          *)
LEMMA ShownStays ==
    ASSUME NEW s \in Sessions, owner'[s] = owner[s], NEW m, Shown(s, m),
           \A u \in Users, c \in Convs : Range(list[u][c]) \subseteq Range(list'[u][c])
    PROVE  Shown(s, m)'
BY DEF Shown

(* Where a message under way is.                                            *)
LEMMA TransitParts ==
    ASSUME NEW s, NEW m
    PROVE  /\ InTransit(s, m) <=> m \in Range(down[s]) \/ \E b \in Subs : m \in Range(inq[s][b])
           /\ InTransit(s, m)' <=> m \in Range(down'[s]) \/ \E b \in Subs : m \in Range(inq'[s][b])
BY DEF InTransit

(* Steps of calls, pages and access: nothing that a debt is about changes.  *)
LEMMA OthersOwe ==
    ASSUME OwedInv, Saved \subseteq Saved', \A m \in Saved : st'[m] = st[m],
           UNCHANGED <<phase, owner, inq, down, list, pub, owed, missed>>
    PROVE  OwedInv'
<1>1. SUFFICES ASSUME NEW s \in Sessions PROVE Debt(s)'
  BY DEF OwedInv
<1>2. \A m : Coming(s, m) => Coming(s, m)'
  BY DEF Coming, InTransit, Shown
<1>3. QED
  BY <1>2, DebtKept DEF OwedInv

(* A session comes up: it is owed nothing before it is subscribed.          *)
LEMMA SessionOwes ==
    ASSUME TypeInv, LogInv, OwedInv, NEW s \in Sessions,
           \/ \E u \in Users : Connect(u, s)
           \/ ListConversations(s) \/ Upgrade(s) \/ ProxyOpen(s)
    PROVE  OwedInv'
<1>1. UNCHANGED <<st, pub, inq, down, list, owed, missed>>
  BY DEF Connect, ListConversations, Upgrade, ProxyOpen, server, browser, history
<1>2. Saved' = Saved
  BY <1>1 DEF Saved
<1>3. phase \in [Sessions -> Phases] /\ owner \in [Sessions -> Users \cup {None}]
  BY DEF TypeInv, WireTypes
<1>4. ASSUME NEW r \in Sessions \ {s} PROVE Debt(r)'
  <2>1. owner'[r] = owner[r] /\ phase'[r] = phase[r]
    BY <1>3 DEF Connect, ListConversations, Upgrade, ProxyOpen
  <2>2. \A m : Coming(r, m) => Coming(r, m)'
    BY <1>1, <2>1 DEF Coming, InTransit, Shown
  <2>3. QED
    BY <1>1, <1>2, <2>1, <2>2, DebtKept DEF OwedInv
<1>5. Debt(s)
  BY DEF OwedInv
<1>6. ASSUME (\E u \in Users : Connect(u, s)) \/ ListConversations(s) \/ Upgrade(s)
      PROVE  Debt(s)'
  <2>1. Early(s)
    BY <1>6 DEF Connect, ListConversations, Upgrade, Early
  <2>2. owed'[s] = {}
    BY <1>1, <1>5, <2>1 DEF Debt
  <2>3. /\ phase'[s] \in {"dialing", "listed", "subscribed"}
        /\ owner'[s] \in Users
    BY <1>3, <1>5, <1>6 DEF Connect, ListConversations, Upgrade, Debt
  <2>4. QED
    BY <2>2, <2>3 DEF Debt, Open, Early
<1>7. ASSUME ProxyOpen(s) PROVE Debt(s)'
  <2>1. Open(s) /\ Open(s)' /\ ~Early(s)' /\ owner'[s] = owner[s]
    BY <1>3, <1>7 DEF ProxyOpen, Open, Early
  <2>2. \A m : Coming(s, m) => Coming(s, m)'
    BY <1>1, <2>1 DEF Coming, InTransit, Shown
  <2>3. \A m : Settled(s, m) => Settled(s, m)'
    BY <1>1, <2>2 DEF Settled, Lost
  <2>4. QED
    BY <1>1, <1>2, <1>5, <2>1, <2>3 DEF Debt
<1>8. \A r \in Sessions : Debt(r)'
  BY <1>4, <1>6, <1>7
<1>9. QED
  BY <1>8 DEF OwedInv

(* A session that ends owes nothing any more.                               *)
LEMMA ClosedOwes ==
    ASSUME TypeInv, LogInv, OwedInv, (\E u \in Users : CloseSocket(u)) \/ Crash
    PROVE  OwedInv'
<1>1. phase \in [Sessions -> Phases]
  BY DEF TypeInv, WireTypes
<1>2. UNCHANGED <<owner, list, owed, missed>>
  BY DEF CloseSocket, Crash, browser, history
<1>3. CASE Crash
  <2>1. Saved' = Saved
    BY <1>3 DEF Crash, Saved
  <2>2. SUFFICES ASSUME NEW s \in Sessions PROVE Debt(s)'
    BY DEF OwedInv
  <2>3. /\ phase'[s] \in {"unused", "closed"}
        /\ phase'[s] = "unused" => phase[s] = "unused"
    BY <1>1, <1>3 DEF Crash
  <2>4. owed'[s] \subseteq Saved /\ (phase[s] = "unused" => owed'[s] = {})
    BY <1>2 DEF OwedInv, Debt, Early
  <2>5. QED
    BY <2>1, <2>3, <2>4 DEF Debt, Open, Early
<1>4. ASSUME NEW u \in Users, CloseSocket(u) PROVE OwedInv'
  <2>1. PICK s \in Sessions : s = cur[u]
    BY <1>4 DEF CloseSocket, TypeInv, BrowserTypes
  <2>2. PICK k \in 0 .. Len(up[s]) :
          st' = [m \in Msgs |-> IF m \in Range(SubSeq(up[s], k + 1, Len(up[s])))
                                THEN "dropped" ELSE st[m]]
    BY <1>4, <2>1 DEF CloseSocket
  <2>3. /\ phase' = [phase EXCEPT ![s] = IF @ = "open" THEN "draining" ELSE "closed"]
        /\ inq' = [inq EXCEPT ![s] = [b \in Subs |-> <<>>]]
        /\ down' = [down EXCEPT ![s] = <<>>] /\ UNCHANGED pub
    BY <1>4, <2>1 DEF CloseSocket
  <2>4. up[s] \in Seq(Msgs) /\ Len(up[s]) \in Nat
    BY <2>1 DEF TypeInv, WireTypes
  <2>5. \A m \in Range(SubSeq(up[s], k + 1, Len(up[s]))) : m \in Range(up[s])
    BY <2>4, SubSeqType
  <2>6. \A m \in Range(up[s]) : st[m] = "wire"
    BY <2>1 DEF LogInv, FrameInv, Afloat
  <2>7. Saved' = Saved /\ \A m \in Saved : st'[m] = st[m]
    BY <2>2, <2>5, <2>6 DEF Saved
  <2>8. ASSUME NEW r \in Sessions \ {s} PROVE Debt(r)'
    <3>1. phase'[r] = phase[r] /\ inq'[r] = inq[r] /\ down'[r] = down[r]
      BY <1>1, <2>3 DEF TypeInv, WireTypes
    <3>2. \A m : Coming(r, m) => Coming(r, m)'
      BY <1>2, <3>1 DEF Coming, InTransit, Shown
    <3>3. QED
      BY <1>2, <2>3, <2>7, <3>1, <3>2, DebtKept DEF OwedInv
  <2>9. Debt(s)'
    <3>1. phase'[s] \in {"draining", "closed"}
      BY <1>1, <2>1, <2>3
    <3>2. owed'[s] \subseteq Saved
      BY <1>2, <2>1 DEF OwedInv, Debt
    <3>3. QED
      BY <2>7, <3>1, <3>2 DEF Debt, Open, Early
  <2>10. QED
    BY <2>8, <2>9 DEF OwedInv
<1>5. QED
  BY <1>3, <1>4

(* A stored message is owed to the sessions that listen for it: it is       *)
(* pending, or lost to them all.                                            *)
LEMMA SaveOwes ==
    ASSUME TypeInv, LogInv, OwedInv, NEW m \in Msgs, Save(m) \/ SaveUnanswered(m)
    PROVE  OwedInv'
<1>1. /\ st[m] = "checked"
      /\ \/ st' = [st EXCEPT ![m] = "saved"] /\ pub' = [pub EXCEPT ![m] = "pending"]
         \/ st' = [st EXCEPT ![m] = "unanswered"] /\ pub' = pub
      /\ UNCHANGED <<phase, owner, inq, down, list, missed>>
  BY DEF Save, SaveUnanswered, Store, wire, browser, session
<1>2. st \in [Msgs -> Stages] /\ pub \in [Msgs -> {"none", "pending", "done", "lost"}]
  BY DEF TypeInv, ServerTypes
<1>3. m \notin Saved /\ Saved' = Saved \cup {m}
  BY <1>1, <1>2 DEF Saved
<1>4. /\ st'[m] = "unanswered" \/ pub'[m] = "pending"
      /\ \A k \in Msgs \ {m} : st'[k] = st[k] /\ pub'[k] = pub[k]
  BY <1>1, <1>2
<1>5. SUFFICES ASSUME NEW s \in Sessions PROVE Debt(s)'
  BY DEF OwedInv
<1>6. /\ Debt(s)
      /\ owed'[s] = IF Listens(s, msg[m].conv) THEN owed[s] \cup {m} ELSE owed[s]
  BY DEF OwedInv, Save, SaveUnanswered, Store
<1>7. /\ (Open(s)' <=> Open(s)) /\ (Early(s)' <=> Early(s))
      /\ owner'[s] = owner[s] /\ phase'[s] = phase[s]
      /\ \A k : Coming(s, k)' <=> Coming(s, k)
  BY <1>1 DEF Open, Early, Coming, InTransit, Shown
<1>8. Listens(s, msg[m].conv) => Open(s)
  BY DEF Listens, Open
<1>9. ASSUME Open(s), NEW k \in owed'[s] PROVE Settled(s, k)'
  <2>1. CASE k = m
    BY <1>4, <2>1 DEF Settled, Lost
  <2>2. CASE k # m
    <3>1. k \in owed[s] /\ k \in Msgs \ {m}
      BY <1>6, <1>9, <2>2 DEF Debt, Saved
    <3>2. Settled(s, k)
      BY <1>6, <1>9, <3>1 DEF Debt
    <3>3. QED
      BY <1>1, <1>4, <1>7, <3>1, <3>2 DEF Settled, Lost
  <2>3. QED
    BY <2>1, <2>2
<1>10. Early(s) => ~Open(s)
  BY DEF Early, Open
<1>11. QED
  BY <1>3, <1>6, <1>7, <1>8, <1>9, <1>10 DEF Debt

(* Redis puts an event in a queue of each session it serves; the others     *)
(* have missed it.                                                          *)
LEMMA PublishOwes ==
    ASSUME TypeInv, LogInv, OwedInv, NEW m \in Msgs, Publish(m) \/ PublishFails(m)
    PROVE  OwedInv'
<1>1. pub[m] = "pending" /\ UNCHANGED <<msg, st, phase, owner, live, down, list, owed>>
  BY DEF Publish, PublishFails, wire, browser, history, session
<1>2. Saved' = Saved
  BY <1>1 DEF Saved
<1>3. /\ pub \in [Msgs -> {"none", "pending", "done", "lost"}]
      /\ inq \in [Sessions -> [Subs -> Seq(Msgs)]] /\ live \in [Sessions -> SUBSET Subs]
  BY DEF TypeInv, ServerTypes, WireTypes
<1>4. \A k \in Msgs \ {m} : pub'[k] = pub[k]
  BY <1>3 DEF Publish, PublishFails
<1>5. SUFFICES ASSUME NEW s \in Sessions PROVE Debt(s)'
  BY DEF OwedInv
<1>6. Debt(s) /\ owner'[s] = owner[s] /\ phase'[s] = phase[s]
  BY <1>1 DEF OwedInv
<1>7. CASE PublishFails(m)
  <2>1. pub'[m] = "lost" /\ UNCHANGED <<inq, missed>>
    BY <1>3, <1>7 DEF PublishFails, wire, history
  <2>2. \A k : Coming(s, k) => Coming(s, k)'
    BY <1>1, <2>1 DEF Coming, InTransit, Shown
  <2>3. \A k \in Saved : pub'[k] \in {pub[k], "lost"}
    BY <1>4, <2>1 DEF Saved
  <2>4. QED
    BY <1>1, <1>2, <1>6, <2>1, <2>2, <2>3, DebtKept
<1>8. CASE Publish(m)
  <2>1. /\ \A b \in Subs : inq'[s][b] = IF b \in live[s] /\ b[1] = msg[m].conv
                                       THEN Append(inq[s][b], m) ELSE inq[s][b]
        /\ missed'[s] = IF m \in owed[s] /\ ~Served(s, m)
                        THEN missed[s] \cup {m} ELSE missed[s]
    BY <1>3, <1>8 DEF Publish
  <2>2. ASSUME NEW b \in Subs
        PROVE  /\ Range(inq[s][b]) \subseteq Range(inq'[s][b])
               /\ b \in live[s] /\ b[1] = msg[m].conv => m \in Range(inq'[s][b])
    <3>1. inq[s][b] \in Seq(Msgs)
      BY <1>3
    <3>2. Range(Append(inq[s][b], m)) = Range(inq[s][b]) \cup {m}
      BY <3>1, AppendOnce
    <3>3. QED
      BY <2>1, <3>2
  <2>3. ASSUME NEW k, Coming(s, k) PROVE Coming(s, k)'
    <3>1. InTransit(s, k) => InTransit(s, k)'
      BY <1>1, <2>2, TransitParts
    <3>2. Shown(s, k) => Shown(s, k)'
      BY <1>1 DEF Shown
    <3>3. QED
      BY <2>3, <3>1, <3>2 DEF Coming
  <2>4. ASSUME Served(s, m) PROVE Coming(s, m)'
    <3>1. PICK b \in live[s] : b[1] = msg[m].conv
      BY <2>4 DEF Served
    <3>2. b \in Subs /\ m \in Range(inq'[s][b])
      BY <1>3, <2>2, <3>1
    <3>3. QED
      BY <3>2, TransitParts DEF Coming
  <2>5. (Open(s)' <=> Open(s)) /\ (Early(s)' <=> Early(s))
    BY <1>6 DEF Open, Early
  <2>6. ASSUME Open(s), NEW k \in owed'[s] PROVE Settled(s, k)'
    <3>1. k \in owed[s] /\ k \in Msgs /\ Settled(s, k)
      BY <1>1, <1>6, <2>6 DEF Debt, Saved
    <3>2. CASE k = m
      BY <2>1, <2>4, <3>1, <3>2 DEF Settled, Lost
    <3>3. CASE k # m
      BY <1>1, <1>4, <2>1, <2>3, <3>1, <3>3 DEF Settled, Lost
    <3>4. QED
      BY <3>2, <3>3
  <2>7. QED
    BY <1>1, <1>2, <1>6, <2>5, <2>6 DEF Debt
<1>9. QED
  BY <1>7, <1>8

(* The event goes from the queue to the frames for the browser.             *)
LEMMA PumpOwes ==
    ASSUME TypeInv, LogInv, OwedInv, NEW s \in Sessions, NEW b \in Subs, Pump(s, b)
    PROVE  OwedInv'
<1>1. /\ inq[s][b] # <<>> /\ inq' = [inq EXCEPT ![s][b] = Tail(@)]
      /\ down' = [down EXCEPT ![s] = Append(@, Head(inq[s][b]))]
      /\ UNCHANGED <<st, pub, phase, owner, list, owed, missed>>
  BY DEF Pump, browser, server, history, session
<1>2. /\ inq \in [Sessions -> [Subs -> Seq(Msgs)]] /\ down \in [Sessions -> Seq(Msgs)]
      /\ inq[s][b] \in Seq(Msgs) /\ down[s] \in Seq(Msgs)
  BY DEF TypeInv, WireTypes
<1>3. \A m \in Range(inq[s][b]) : m = Head(inq[s][b]) \/ m \in Range(Tail(inq[s][b]))
  BY <1>1, <1>2, SeqParts
<1>4. Head(inq[s][b]) \in Msgs
  BY <1>1, <1>2
<1>5. Range(Append(down[s], Head(inq[s][b]))) = Range(down[s]) \cup {Head(inq[s][b])}
  BY <1>2, <1>4, AppendOnce
<1>6. ASSUME NEW r \in Sessions, NEW m, Coming(r, m) PROVE Coming(r, m)'
  <2>1. Shown(r, m) => Shown(r, m)'
    BY <1>1 DEF Shown
  <2>2. Range(down[r]) \subseteq Range(down'[r])
    BY <1>1, <1>2, <1>5
  <2>3. \A x \in Subs : m \in Range(inq[r][x]) =>
                          m \in Range(inq'[r][x]) \/ m \in Range(down'[r])
    <3>1. SUFFICES ASSUME NEW x \in Subs, m \in Range(inq[r][x])
                   PROVE  m \in Range(inq'[r][x]) \/ m \in Range(down'[r])
      OBVIOUS
    <3>2. CASE r = s /\ x = b
      BY <1>1, <1>2, <1>3, <1>5, <3>1, <3>2
    <3>3. CASE ~(r = s /\ x = b)
      BY <1>1, <1>2, <3>1, <3>3
    <3>4. QED
      BY <3>2, <3>3
  <2>4. InTransit(r, m) => InTransit(r, m)'
    BY <2>2, <2>3, TransitParts
  <2>5. QED
    BY <1>6, <2>1, <2>4 DEF Coming
<1>7. Saved' = Saved
  BY <1>1 DEF Saved
<1>8. \A r \in Sessions : Debt(r)'
  BY <1>1, <1>6, <1>7, DebtKept DEF OwedInv
<1>9. QED
  BY <1>8 DEF OwedInv

(* A frame leaves the socket for the list of its conversation.              *)
LEMMA ReceiveOwes ==
    ASSUME TypeInv, LogInv, OwedInv, NEW s \in Sessions, Receive(s)
    PROVE  OwedInv'
<1> DEFINE m == Head(down[s])  u == owner[s]  c == msg[m].conv
<1>1. /\ down[s] # <<>> /\ phase[s] \in {"open", "closed"}
      /\ down' = [down EXCEPT ![s] = Tail(@)]
      /\ list' = [list EXCEPT ![u][c] = AppendMessage(@, m)]
      /\ UNCHANGED <<st, pub, phase, owner, inq, owed, missed>>
  BY DEF Receive, server, history, session
<1>2. down \in [Sessions -> Seq(Msgs)] /\ down[s] \in Seq(Msgs)
      /\ list \in [Users -> [Convs -> Seq(Msgs)]]
  BY DEF TypeInv, WireTypes, BrowserTypes
<1>3. m \in Msgs /\ m \in Range(down[s]) /\ \A k \in Range(down[s]) : k = m \/ k \in Range(Tail(down[s]))
  <2>1. m \in Msgs /\ m = down[s][1] /\ 1 \in DOMAIN down[s]
    BY <1>1, <1>2
  <2>2. QED
    BY <1>1, <1>2, <2>1, SeqParts DEF Range
<1>4. c \in Convs
  BY <1>3 DEF LogInv, StoreInv, Queued, Saved, FrameInv, Placed, Sent
<1> HIDE DEF m, u, c
<1>5. Debt(s) /\ (phase[s] = "open" => u \in Users)
  BY DEF OwedInv, Debt, Open, u
<1>6. \A v \in Users, d \in Convs :
        list'[v][d] = IF v = u /\ d = c THEN AppendMessage(list[v][d], m) ELSE list[v][d]
  BY <1>1, <1>2
<1>7. \A v \in Users, d \in Convs :
        /\ Range(list[v][d]) \subseteq Range(list'[v][d])
        /\ v = u /\ d = c => m \in Range(list'[v][d])
  <2>1. SUFFICES ASSUME NEW v \in Users, NEW d \in Convs
                 PROVE  /\ Range(list[v][d]) \subseteq Range(list'[v][d])
                        /\ v = u /\ d = c => m \in Range(list'[v][d])
    OBVIOUS
  <2>2. Range(AppendMessage(list[v][d], m)) = Range(list[v][d]) \cup {m}
    BY <1>2, <1>3, AppendMessageOnce
  <2>3. QED
    BY <1>6, <2>2
<1>8. ASSUME NEW r \in Sessions, Open(r), NEW k, Coming(r, k) PROVE Coming(r, k)'
  <2>1. Shown(r, k) => Shown(r, k)'
    BY <1>1, <1>7, ShownStays
  <2>2. r = s => phase[s] = "open"
    BY <1>1, <1>8 DEF Open
  <2>3. k \in Range(down[r]) => k \in Range(down'[r]) \/ Shown(r, k)'
    <3>1. CASE r # s
      BY <1>1, <1>2, <3>1
    <3>2. CASE r = s /\ k # m
      BY <1>1, <1>2, <1>3, <3>2
    <3>3. CASE r = s /\ k = m
      <4>1. u \in Users /\ owner'[r] = u /\ m \in Range(list'[u][c])
        BY <1>1, <1>4, <1>5, <1>7, <2>2, <3>3 DEF u
      <4>2. QED
        BY <1>4, <3>3, <4>1 DEF Shown
    <3>4. QED
      BY <3>1, <3>2, <3>3
  <2>4. InTransit(r, k) => InTransit(r, k)' \/ Shown(r, k)'
    BY <1>1, <2>3, TransitParts
  <2>5. QED
    BY <1>8, <2>1, <2>4 DEF Coming
<1>9. Saved' = Saved
  BY <1>1 DEF Saved
<1>10. ASSUME NEW r \in Sessions PROVE Debt(r)'
  <2>1. Debt(r) /\ owner'[r] = owner[r] /\ phase'[r] = phase[r] /\ owed'[r] = owed[r]
    BY <1>1 DEF OwedInv
  <2>2. CASE Open(r)
    BY <1>1, <1>8, <1>9, <2>1, <2>2, DebtKept
  <2>3. CASE ~Open(r)
    BY <1>9, <2>1, <2>3 DEF Debt, Open, Early
  <2>4. QED
    BY <2>2, <2>3
<1>11. QED
  BY <1>10 DEF OwedInv

(* The page appends what its REST call stored.                              *)
LEMMA AnswerOwes ==
    ASSUME TypeInv, LogInv, OwedInv, NEW u \in Users, RestAnswer(u)
    PROVE  OwedInv'
<1>1. /\ st[sending[u]] = "saved"
      /\ list' = [list EXCEPT ![u][msg[sending[u]].conv] = AppendMessage(@, sending[u])]
      /\ sending[u] \in Msgs /\ UNCHANGED <<st, pub, phase, owner, inq, down, owed, missed>>
  BY DEF RestAnswer, server, wire, history, session, TypeInv, BrowserTypes
<1>2. list \in [Users -> [Convs -> Seq(Msgs)]]
  BY DEF TypeInv, BrowserTypes
<1>3. \A v \in Users, c \in Convs : Range(list[v][c]) \subseteq Range(list'[v][c])
  <2>1. SUFFICES ASSUME NEW v \in Users, NEW c \in Convs
                 PROVE  Range(list[v][c]) \subseteq Range(list'[v][c])
    OBVIOUS
  <2>2. list'[v][c] \in {list[v][c], AppendMessage(list[v][c], sending[u])}
    BY <1>1, <1>2
  <2>3. Range(AppendMessage(list[v][c], sending[u])) = Range(list[v][c]) \cup {sending[u]}
    BY <1>1, <1>2, AppendMessageOnce
  <2>4. QED
    BY <2>2, <2>3
<1>4. Saved' = Saved
  BY <1>1 DEF Saved
<1>5. ASSUME NEW s \in Sessions PROVE Debt(s)'
  <2>1. Debt(s) /\ owner'[s] = owner[s] /\ phase'[s] = phase[s]
    BY <1>1 DEF OwedInv
  <2>2. ASSUME NEW m, Coming(s, m) PROVE Coming(s, m)'
    <3>1. Shown(s, m) => Shown(s, m)'
      BY <1>3, <2>1, ShownStays
    <3>2. InTransit(s, m) => InTransit(s, m)'
      BY <1>1 DEF InTransit
    <3>3. QED
      BY <2>2, <3>1, <3>2 DEF Coming
  <2>3. QED
    BY <1>1, <1>4, <2>1, <2>2, DebtKept
<1>6. QED
  BY <1>5 DEF OwedInv

(* A page that replaces a list takes what it erases out of what is owed.    *)
LEMMA ReplyOwes ==
    ASSUME TypeInv, LogInv, OwedInv, NEW f \in Fetches, FetchReply(f)
    PROVE  OwedInv'
<1> DEFINE u == fetcher[f].user  c == fetcher[f].conv
           erased == Range(list[u][c]) \ Range(snap[f].rows)
<1>1. /\ list' = [list EXCEPT ![u][c] = snap[f].rows]
      /\ owed' = [s \in Sessions |-> IF owner[s] = u THEN owed[s] \ erased ELSE owed[s]]
      /\ UNCHANGED <<st, pub, phase, owner, inq, down, missed>>
  BY DEF FetchReply, FetchTo, server, wire, session
<1>2. list \in [Users -> [Convs -> Seq(Msgs)]]
  BY DEF TypeInv, BrowserTypes
<1> HIDE DEF u, c
<1>3. Saved' = Saved
  BY <1>1 DEF Saved
<1>4. \A v \in Users, d \in Convs :
        list'[v][d] = IF v = u /\ d = c THEN snap[f].rows ELSE list[v][d]
  BY <1>1, <1>2
<1>5. ASSUME NEW s \in Sessions PROVE Debt(s)'
  <2>1. Debt(s) /\ owner'[s] = owner[s] /\ phase'[s] = phase[s]
        /\ owed'[s] = IF owner[s] = u THEN owed[s] \ erased ELSE owed[s]
    BY <1>1 DEF OwedInv
  <2>2. ASSUME NEW m \in owed'[s], Coming(s, m) PROVE Coming(s, m)'
    <3>1. InTransit(s, m) => InTransit(s, m)'
      BY <1>1 DEF InTransit
    <3>2. ASSUME Shown(s, m) PROVE Shown(s, m)'
      <4>1. PICK v \in Users, d \in Convs : owner[s] = v /\ m \in Range(list[v][d])
        BY <3>2 DEF Shown
      <4>2. m \in Range(list'[v][d])
        <5>1. CASE v = u /\ d = c
          <6>1. m \notin erased
            BY <2>1, <2>2, <4>1, <5>1
          <6>2. QED
            BY <1>4, <4>1, <5>1, <6>1
        <5>2. CASE ~(v = u /\ d = c)
          BY <1>4, <4>1, <5>2
        <5>3. QED
          BY <5>1, <5>2
      <4>3. QED
        BY <2>1, <4>1, <4>2 DEF Shown
    <3>3. QED
      BY <2>2, <3>1, <3>2 DEF Coming
  <2>3. owed'[s] \subseteq owed[s]
    BY <2>1
  <2>4. QED
    BY <1>1, <1>3, <2>1, <2>2, <2>3, DebtKept
<1>6. QED
  BY <1>5 DEF OwedInv

LEMMA OwedStep == ASSUME TypeInv, LogInv, OwedInv, [Next]_vars PROVE OwedInv'
<1>1. ASSUME Saved' = Saved, \A m \in Saved : st'[m] = st[m],
             UNCHANGED <<phase, owner, inq, down, list, pub, owed, missed>>
      PROVE  OwedInv'
  BY <1>1, OthersOwe
<1>2. ASSUME NEW u \in Users, NEW m \in Msgs, SendWs(u, m) \/ SendRest(u, m) PROVE OwedInv'
  <2>1. /\ st[m] = "none" /\ st'[m] \in {"wire", "dropped", "posted"}
        /\ \A k \in Msgs \ {m} : st'[k] = st[k]
    BY <1>2 DEF SendWs, SendRest, CanSend, Compose, TypeInv, ServerTypes
  <2>2. \A k \in Saved : k \in Msgs \ {m}
    BY <2>1 DEF Saved
  <2>3. Saved' = Saved /\ \A k \in Saved : st'[k] = st[k]
    BY <2>1, <2>2 DEF Saved
  <2>4. UNCHANGED <<phase, owner, inq, down, list, pub, owed, missed>>
    BY <1>2 DEF SendWs, SendRest, Compose, wire, browser, session
  <2>5. QED
    BY <1>1, <2>3, <2>4
<1>3. ASSUME NEW m \in Msgs, BackendCheck(m) \/ CheckAccess(m) \/ SendFails(m) PROVE OwedInv'
  <2>1. /\ st[m] \in {"posted", "asked", "checked"}
        /\ \E stage \in {"asked", "checked", "refused", "failed"} : Advance(m, stage)
        /\ UNCHANGED pub
    BY <1>3 DEF BackendCheck, CheckAccess, SendFails
  <2>2. /\ Saved' = Saved /\ \A k \in Saved : st'[k] = st[k]
        /\ UNCHANGED <<phase, owner, inq, down, list, owed, missed>>
    BY <2>1 DEF Advance, Saved, browser, history, session, TypeInv, ServerTypes
  <2>3. QED
    BY <1>1, <2>1, <2>2
<1>4. ASSUME NEW s \in Sessions, ReadFrame(s) PROVE OwedInv'
  <2>1. up[s] \in Seq(Msgs) /\ up[s] # <<>>
    BY <1>4 DEF ReadFrame, TypeInv, WireTypes
  <2>2. st[Head(up[s])] = "wire" /\ Head(up[s]) \in Msgs
    <3>1. Head(up[s]) = up[s][1] /\ 1 \in DOMAIN up[s] /\ Head(up[s]) \in Msgs
      BY <2>1
    <3>2. QED
      BY <3>1 DEF LogInv, FrameInv, Afloat, Range
  <2>3. st' = [st EXCEPT ![Head(up[s])] = "asked"]
        /\ UNCHANGED <<phase, owner, inq, down, list, pub, owed, missed>>
    BY <1>4 DEF ReadFrame, Advance, browser, history, session
  <2>4. Saved' = Saved /\ \A k \in Saved : st'[k] = st[k]
    BY <2>2, <2>3 DEF Saved, TypeInv, ServerTypes
  <2>5. QED
    BY <1>1, <2>3, <2>4
<1>5. CASE \/ \E c \in Convs : AddConversation(c)
           \/ \E u \in Users : UpdateAccess(u) \/ RestFails(u)
           \/ \E u \in Users, c \in Convs, f \in Fetches : SelectConversation(u, c, f)
           \/ \E f \in Fetches : FetchCheck(f) \/ FetchRead(f) \/ FetchFails(f)
           \/ \E s \in Sessions, b \in Subs : Confirm(s, b) \/ LoseSubscription(s, b)
           \/ DeleteMessages \/ UNCHANGED vars
  <2>1. UNCHANGED <<st, phase, owner, inq, down, list, pub, owed, missed>>
    BY <1>5 DEF AddConversation, UpdateAccess, RestFails, SelectConversation, FetchCheck, FetchRead,
       FetchFails, FetchTo, Confirm, LoseSubscription, DeleteMessages, vars, server, wire, browser,
       history, session
  <2>2. Saved' = Saved
    BY <2>1 DEF Saved
  <2>3. QED
    BY <1>1, <2>1, <2>2
<1>6. ASSUME \/ \E u \in Users, s \in Sessions : Connect(u, s)
             \/ \E s \in Sessions : ListConversations(s) \/ Upgrade(s) \/ ProxyOpen(s)
      PROVE  OwedInv'
  BY <1>6, SessionOwes
<1>7. QED
  BY <1>2, <1>3, <1>4, <1>5, <1>6, ClosedOwes, SaveOwes, PublishOwes, PumpOwes, ReceiveOwes,
     AnswerOwes, ReplyOwes, Zenon DEF Next

LEMMA InitOwed == Init => OwedInv
BY DEF Init, OwedInv, Debt, Open, Early

(* What was stored while an open session was subscribed for it is lost      *)
(* between the insertion and the list of the session's user only where      *)
(* SendMessage did not learn of the row, the publish failed, or Redis was   *)
(* not serving the session when it was published.                           *)
THEOREM OwedAreAccounted == Spec => []Accounted
<1>1. Init => TypeInv /\ LogInv /\ OwedInv
  BY InitTypes, InitLog, InitOwed
<1>2. TypeInv /\ LogInv /\ OwedInv /\ [Next]_vars => (TypeInv /\ LogInv /\ OwedInv)'
  BY TypeStep, LogStep, OwedStep
<1>3. OwedInv => Accounted
  BY DEF OwedInv, Debt, Accounted, Open, Coming, Settled
<1>4. QED
  BY <1>1, <1>2, <1>3, PTL DEF Spec
=============================================================================
