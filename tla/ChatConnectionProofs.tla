------------------------ MODULE ChatConnectionProofs ------------------------
(***************************************************************************)
(* Proofs about ChatConnection: its types, that a page has one socket,     *)
(* when a page stays without one, and when the proxy keeps a connection    *)
(* that no browser uses.                                                   *)
(***************************************************************************)
EXTENDS ChatConnection, TLAPS

(* The parts of TypeOK.                                                     *)
FlagTypes ==
    /\ mounted \in BOOLEAN /\ timer \in BOOLEAN
    /\ onclose \in [Sockets -> BOOLEAN]
HookTypes ==
    /\ wsRef \in Sockets \cup {None} /\ newest \in Sockets \cup {None}
    /\ browser \in [Sockets -> BrowserStates]
ProxyTypes ==
    /\ accepted \in [Sockets -> ProxyStates] /\ code \in [Sockets -> Codes]
    /\ backendWs \in [Sockets -> DialStates] /\ bridged \in [Sockets -> BOOLEAN]
    /\ early \in SUBSET Sockets /\ silent \in SUBSET Sockets
ServiceTypes ==
    /\ serve \in [Sockets -> ServeStates] /\ pumps \in [Sockets -> SUBSET Convs]
    /\ cancelled \in [Sockets -> BOOLEAN] /\ restarts \in 0 .. MaxRestarts
TypeInv == FlagTypes /\ HookTypes /\ ProxyTypes /\ ServiceTypes

LEMMA TypeParts == TypeOK <=> TypeInv
BY Zenon DEF TypeOK, TypeInv, FlagTypes, HookTypes, ProxyTypes, ServiceTypes

(* What an action leaves alone keeps its types.                             *)
LEMMA Frames ==
    /\ FlagTypes /\ HookTypes /\ UNCHANGED page => FlagTypes' /\ HookTypes'
    /\ ProxyTypes /\ UNCHANGED proxy => ProxyTypes'
    /\ ServiceTypes /\ UNCHANGED <<service, restarts>> => ServiceTypes'
<1>1. FlagTypes /\ HookTypes /\ UNCHANGED page => FlagTypes' /\ HookTypes'
  BY Zenon DEF FlagTypes, HookTypes, page, hook
<1>2. ProxyTypes /\ UNCHANGED proxy => ProxyTypes'
  BY Zenon DEF ProxyTypes, proxy
<1>3. ServiceTypes /\ UNCHANGED <<service, restarts>> => ServiceTypes'
  BY Zenon DEF ServiceTypes, service
<1>4. QED
  BY <1>1, <1>2, <1>3

(* Every step keeps the types.                                              *)
LEMMA TypeStep == ASSUME TypeInv, [Next]_vars PROVE TypeInv'
<1>1. ASSUME NEW s \in Sockets, Mount(s) \/ TimerFires(s) PROVE TypeInv'
  <2>1. Connect(s)
    BY <1>1, Zenon DEF Mount, TimerFires
  <2>2. mounted' \in BOOLEAN /\ timer' \in BOOLEAN
    BY <1>1, Zenon DEF Mount, TimerFires, TypeInv, FlagTypes
  <2>3. onclose' \in [Sockets -> BOOLEAN]
    BY <2>1 DEF Connect, TypeInv, FlagTypes
  <2>4. HookTypes'
    BY <2>1 DEF Connect, TypeInv, HookTypes, BrowserStates
  <2>5. ProxyTypes'
    BY <2>1 DEF Connect, TypeInv, ProxyTypes, ProxyStates
  <2>6. UNCHANGED <<service, restarts>>
    BY <2>1 DEF Connect
  <2>7. QED
    BY <2>2, <2>3, <2>4, <2>5, <2>6, Frames, Zenon DEF TypeInv, FlagTypes
<1>2. ASSUME Unmount PROVE TypeInv'
  <2>1. mounted' \in BOOLEAN /\ timer' \in BOOLEAN
    BY <1>2, Zenon DEF Unmount
  <2>2. onclose' \in [Sockets -> BOOLEAN]
    <3>1. \A s \in Sockets : (onclose[s] /\ s # wsRef) \in BOOLEAN
      BY Zenon
    <3>2. onclose' = [s \in Sockets |-> onclose[s] /\ s # wsRef]
      BY <1>2, Zenon DEF Unmount
    <3>3. QED
      BY <3>1, <3>2, Zenon
  <2>3. HookTypes'
    BY <1>2 DEF Unmount, TypeInv, HookTypes, BrowserStates
  <2>4. UNCHANGED proxy /\ UNCHANGED <<service, restarts>>
    BY <1>2 DEF Unmount
  <2>5. QED
    BY <2>1, <2>2, <2>3, <2>4, Frames, Zenon DEF TypeInv, FlagTypes
<1>3. ASSUME NEW s \in Sockets, Opens(s) PROVE TypeInv'
  <2>1. FlagTypes'
    BY <1>3, Zenon DEF Opens, TypeInv, FlagTypes
  <2>2. HookTypes'
    BY <1>3 DEF Opens, TypeInv, HookTypes, BrowserStates
  <2>3. UNCHANGED proxy /\ UNCHANGED <<service, restarts>>
    BY <1>3 DEF Opens
  <2>4. QED
    BY <2>1, <2>2, <2>3, Frames, Zenon DEF TypeInv
<1>4. ASSUME NEW s \in Sockets, NEW c, CloseEvent(s, c) PROVE FlagTypes' /\ HookTypes'
  <2>1. timer' \in BOOLEAN
    <3>1. (timer \/ (onclose[s] /\ c # 1000)) \in BOOLEAN
      BY Zenon
    <3>2. timer' = (timer \/ (onclose[s] /\ c # 1000))
      BY <1>4, Zenon DEF CloseEvent
    <3>3. QED
      BY <3>1, <3>2, Zenon
  <2>2. UNCHANGED <<mounted, onclose>>
    BY <1>4, Zenon DEF CloseEvent
  <2>3. HookTypes'
    BY <1>4 DEF CloseEvent, TypeInv, HookTypes, BrowserStates
  <2>4. QED
    BY <2>1, <2>2, <2>3, Zenon DEF TypeInv, FlagTypes
<1>5. ASSUME NEW s \in Sockets, OnClose(s) \/ ConnectionLost(s) PROVE TypeInv'
  <2>1. FlagTypes' /\ HookTypes'
    <3>1. CASE CloseEvent(s, code[s])
      BY <1>4, <3>1
    <3>2. CASE CloseEvent(s, 1006)
      BY <1>4, <3>2
    <3>3. QED
      BY <1>5, <3>1, <3>2, Zenon DEF OnClose, ConnectionLost
  <2>2. ProxyTypes' /\ UNCHANGED <<service, restarts>>
    BY <1>5 DEF OnClose, ConnectionLost, TypeInv, ProxyTypes, ProxyStates, Codes
  <2>3. QED
    BY <2>1, <2>2, Frames, Zenon DEF TypeInv
<1>6. ASSUME NEW s \in Sockets, Upgrade(s) \/ BackendOpen(s) PROVE TypeInv'
  <2>1. ProxyTypes'
    <3>1. CASE Upgrade(s)
      BY <3>1 DEF Upgrade, TypeInv, ProxyTypes, ProxyStates, DialStates, Codes
    <3>2. CASE BackendOpen(s)
      BY <3>2 DEF BackendOpen, TypeInv, ProxyTypes, DialStates
    <3>3. QED
      BY <1>6, <3>1, <3>2
  <2>2. UNCHANGED page /\ UNCHANGED <<service, restarts>>
    BY <1>6 DEF Upgrade, BackendOpen
  <2>3. QED
    BY <2>1, <2>2, Frames, Zenon DEF TypeInv
<1>7. ASSUME NEW s \in Sockets, BackendError(s) \/ BackendClose(s) PROVE TypeInv'
  <2>1. ProxyTypes'
    BY <1>7 DEF BackendError, BackendClose, CloseBrowser, TypeInv, ProxyTypes,
       ProxyStates, DialStates, Codes
  <2>2. UNCHANGED page /\ UNCHANGED <<service, restarts>>
    BY <1>7 DEF BackendError, BackendClose
  <2>3. QED
    BY <2>1, <2>2, Frames, Zenon DEF TypeInv
<1>8. ASSUME NEW s \in Sockets, BrowserClose(s) PROVE TypeInv'
  <2>1. FlagTypes' /\ HookTypes'
    <3>1. CASE CloseEvent(s, 1000)
      BY <1>4, <3>1
    <3>2. CASE UNCHANGED page
      BY <3>2, Frames, Zenon DEF TypeInv
    <3>3. QED
      BY <1>8, <3>1, <3>2, Zenon DEF BrowserClose
  <2>2. ProxyTypes' /\ UNCHANGED <<service, restarts>>
    BY <1>8 DEF BrowserClose, TypeInv, ProxyTypes, ProxyStates, DialStates, Codes
  <2>3. QED
    BY <2>1, <2>2, Frames, Zenon DEF TypeInv
<1>9. ASSUME ProxyRestart PROVE TypeInv'
  <2>1. ProxyTypes' /\ UNCHANGED page
    BY <1>9 DEF ProxyRestart, TypeInv, ProxyTypes, ProxyStates, DialStates, Codes
  <2>2. ServiceTypes'
    BY <1>9, RestartsAssumption DEF ProxyRestart, TypeInv, ServiceTypes, service
  <2>3. QED
    BY <2>1, <2>2, Frames, Zenon DEF TypeInv
<1>10. ASSUME ServiceRestart PROVE TypeInv'
  <2>1. UNCHANGED page /\ UNCHANGED proxy
    BY <1>10 DEF ServiceRestart
  <2>2. ServiceTypes'
    BY <1>10, RestartsAssumption DEF ServiceRestart, TypeInv, ServiceTypes, ServeStates
  <2>3. QED
    BY <2>1, <2>2, Frames, Zenon DEF TypeInv
<1>11. ASSUME NEW s \in Sockets, ServeWS(s) \/ ReadEnds(s) \/ ReadFails(s) \/ Return(s)
       PROVE  TypeInv'
  <2>1. UNCHANGED page /\ UNCHANGED proxy
    BY <1>11 DEF ServeWS, ReadEnds, ReadFails, LeaveLoop, Return
  <2>2. ServiceTypes'
    BY <1>11 DEF ServeWS, ReadEnds, ReadFails, LeaveLoop, Return, TypeInv, ServiceTypes,
       ServeStates
  <2>3. QED
    BY <2>1, <2>2, Frames, Zenon DEF TypeInv
<1>12. ASSUME NEW s \in Sockets, NEW c \in Convs, PumpStops(s, c) \/ PumpFails(s, c)
       PROVE  TypeInv'
  <2>1. UNCHANGED page /\ UNCHANGED proxy
    BY <1>12 DEF PumpStops, PumpFails
  <2>2. ServiceTypes'
    BY <1>12 DEF PumpStops, PumpFails, TypeInv, ServiceTypes
  <2>3. QED
    BY <2>1, <2>2, Frames, Zenon DEF TypeInv
<1>13. ASSUME UNCHANGED vars PROVE TypeInv'
  <2>1. UNCHANGED page /\ UNCHANGED proxy /\ UNCHANGED <<service, restarts>>
    BY <1>13 DEF vars
  <2>2. QED
    BY <2>1, Frames, Zenon DEF TypeInv
<1>14. QED
  BY <1>1, <1>2, <1>3, <1>5, <1>6, <1>7, <1>8, <1>9, <1>10, <1>11, <1>12, <1>13, Zenon DEF Next

LEMMA TypeInit == Init => TypeInv
<1> SUFFICES ASSUME Init PROVE TypeInv
  OBVIOUS
<1>1. mounted \in BOOLEAN /\ timer \in BOOLEAN
  BY Zenon DEF Init
<1>2. onclose \in [Sockets -> BOOLEAN] /\ HookTypes
  BY DEF Init, HookTypes, BrowserStates
<1>3. ProxyTypes
  BY DEF Init, ProxyTypes, ProxyStates, DialStates, Codes
<1>4. ServiceTypes
  BY RestartsAssumption DEF Init, ServiceTypes, ServeStates
<1>5. QED
  BY <1>1, <1>2, <1>3, <1>4, Zenon DEF TypeInv, FlagTypes

(* Every variable keeps its type.                                           *)
THEOREM TypeCorrect == Spec => []TypeOK
BY TypeInit, TypeStep, TypeParts, PTL DEF Spec

-----------------------------------------------------------------------------
(* OneSocket with what it rests on: the cleanup detached the handler of a   *)
(* socket that still closes, wsRef.current has its handler, it is the       *)
(* socket opened last, and a mounted page has opened one since.             *)
HookInv ==
    /\ OneSocket
    /\ \A s \in Sockets : browser[s] = "closing" => ~onclose[s]
    /\ wsRef # None => onclose[wsRef] /\ newest = wsRef
    /\ mounted => newest # None
    /\ \A s \in Sockets : mounted /\ browser[s] = "closing" => newest # s

(* LeftBehindExplained with what it rests on.                               *)
ProxyInv ==
    \A s \in Sockets :
      /\ browser[s] = "unused" => accepted[s] = "none"
      /\ accepted[s] \in {"none", "asked"} => backendWs[s] = "none"
      /\ accepted[s] = "closing" => backendWs[s] = "closed"
      /\ backendWs[s] = "open" => bridged[s]
      /\ accepted[s] = "closed" /\ backendWs[s] \in {"dialing", "open"} => s \in early
      /\ code[s] = 1000 => bridged[s] /\ accepted[s] \in {"closing", "closed"}

(* DisconnectExplained; the proxy is through with the socket by then, so    *)
(* that the code stays what it is.                                          *)
QuietInv ==
    mounted /\ wsRef = None /\ ~timer => code[newest] = 1000 /\ accepted[newest] = "closed"

ConnInv == HookInv /\ ProxyInv /\ QuietInv

(* No step breaks ConnInv.                                                  *)
LEMMA ConnStep == ASSUME TypeInv, ConnInv, [Next]_vars PROVE ConnInv'
<1> USE NoneAssumption DEF ConnInv, TypeInv, HookTypes, ProxyTypes
<1>1. ASSUME NEW s \in Sockets, Mount(s) \/ TimerFires(s) PROVE ConnInv'
  <2>1. HookInv'
    BY <1>1 DEF Mount, TimerFires, Connect, HookInv, OneSocket, FlagTypes, page, hook
  <2>2. ProxyInv'
    BY <1>1 DEF Mount, TimerFires, Connect, ProxyInv, HookInv, OneSocket, page, proxy
  <2>3. QuietInv'
    <3>1. wsRef' # None
      BY <1>1 DEF Mount, TimerFires, Connect
    <3>2. QED
      BY <3>1, Zenon DEF QuietInv
  <2>4. QED
    BY <2>1, <2>2, <2>3
<1>2. ASSUME Unmount PROVE ConnInv'
  <2>1. HookInv'
    BY <1>2 DEF Unmount, HookInv, OneSocket, FlagTypes, page, hook
  <2>2. ProxyInv'
    BY <1>2 DEF Unmount, ProxyInv, HookInv, OneSocket, page, proxy
  <2>3. QuietInv'
    BY <1>2 DEF Unmount, QuietInv, HookInv, ProxyInv, OneSocket, page, proxy, hook
  <2>4. QED
    BY <2>1, <2>2, <2>3
<1>3. ASSUME NEW s \in Sockets, Opens(s) PROVE ConnInv'
  <2>1. HookInv'
    BY <1>3 DEF Opens, HookInv, OneSocket, FlagTypes, page, hook
  <2>2. ProxyInv'
    BY <1>3 DEF Opens, ProxyInv, HookInv, OneSocket, page, proxy
  <2>3. QuietInv'
    BY <1>3 DEF Opens, QuietInv, HookInv, ProxyInv, OneSocket, page, proxy, hook
  <2>4. QED
    BY <2>1, <2>2, <2>3
<1>4. ASSUME NEW s \in Sockets, OnClose(s) PROVE ConnInv'
  <2>1. HookInv'
    BY <1>4 DEF OnClose, CloseEvent, HookInv, OneSocket, FlagTypes, page, hook
  <2>2. ProxyInv'
    BY <1>4 DEF OnClose, CloseEvent, ProxyInv, HookInv, OneSocket, page, proxy
  <2>3. QuietInv'
    <3>1. newest = s /\ onclose[s]
      BY <1>4 DEF OnClose, HookInv, OneSocket
    <3>2. code'[newest'] = code[s] /\ accepted'[newest'] = "closed"
      BY <1>4, <3>1 DEF OnClose, CloseEvent
    <3>3. ~timer' => code[s] = 1000
      BY <1>4, <3>1, Zenon DEF OnClose, CloseEvent
    <3>4. ~timer' => code'[newest'] = 1000
      BY <3>2, <3>3
    <3>5. QED
      BY <3>2, <3>4, Zenon DEF QuietInv
  <2>4. QED
    BY <2>1, <2>2, <2>3
<1>5. ASSUME NEW s \in Sockets, ConnectionLost(s) PROVE ConnInv'
  <2>1. HookInv'
    BY <1>5 DEF ConnectionLost, CloseEvent, HookInv, OneSocket, FlagTypes, page, hook
  <2>2. ProxyInv'
    BY <1>5 DEF ConnectionLost, CloseEvent, ProxyInv, HookInv, OneSocket, page, proxy
  <2>3. QuietInv'
    <3>1. CASE browser[s] = "closing"
      <4>1. mounted => newest # s
        BY <3>1 DEF HookInv
      <4>2. UNCHANGED <<mounted, wsRef, timer, newest, accepted>>
        BY <1>5, <3>1 DEF ConnectionLost, CloseEvent, HookInv, FlagTypes
      <4>3. \A r \in Sockets : r # s => code'[r] = code[r]
        BY <1>5 DEF ConnectionLost
      <4>4. mounted => newest \in Sockets
        BY DEF HookInv
      <4>5. mounted => code'[newest'] = code[newest] /\ accepted'[newest'] = accepted[newest]
        BY <4>1, <4>2, <4>3, <4>4
      <4>6. QED
        <5>1. mounted' = mounted /\ wsRef' = wsRef /\ timer' = timer
          BY <4>2
        <5>2. mounted /\ wsRef = None /\ ~timer => code[newest] = 1000 /\ accepted[newest] = "closed"
          BY Zenon DEF QuietInv
        <5>3. mounted' /\ wsRef' = None /\ ~timer' => code'[newest'] = 1000 /\ accepted'[newest'] = "closed"
          BY <4>5, <5>1, <5>2
        <5>4. QED
          BY <5>3, Zenon DEF QuietInv
    <3>2. CASE browser[s] # "closing"
      <4>1. onclose[s] /\ 1006 # 1000
        BY <1>5, <3>2 DEF ConnectionLost, HookInv, OneSocket
      <4>a. timer' = (timer \/ (onclose[s] /\ 1006 # 1000))
        BY <1>5, Zenon DEF ConnectionLost, CloseEvent
      <4>2. timer'
        BY <4>1, <4>a
      <4>3. QED
        BY <4>2, Zenon DEF QuietInv
    <3>3. QED
      BY <3>1, <3>2
  <2>4. QED
    BY <2>1, <2>2, <2>3
<1>6. ASSUME NEW s \in Sockets, Upgrade(s) \/ BackendOpen(s) PROVE ConnInv'
  <2>1. HookInv'
    BY <1>6 DEF Upgrade, BackendOpen, HookInv, OneSocket, FlagTypes, page, hook
  <2>2. ProxyInv'
    BY <1>6 DEF Upgrade, BackendOpen, ProxyInv, HookInv, OneSocket, page, proxy
  <2>3. QuietInv'
    <3>1. UNCHANGED <<mounted, wsRef, timer, newest>>
      BY <1>6, Zenon DEF Upgrade, BackendOpen, page, hook
    <3>2. ASSUME newest \in Sockets, code[newest] = 1000, accepted[newest] = "closed"
          PROVE  code'[newest] = 1000 /\ accepted'[newest] = "closed"
      BY <1>6, <3>2 DEF Upgrade, BackendOpen
    <3>3. mounted => newest \in Sockets
      BY Zenon DEF HookInv
    <3>4. newest' = newest /\ code'[newest'] = code'[newest]
          /\ accepted'[newest'] = accepted'[newest]
      BY <3>1
    <3>5. code[newest] = 1000 /\ accepted[newest] = "closed" /\ mounted
             => code'[newest'] = 1000 /\ accepted'[newest'] = "closed"
      BY <3>2, <3>3, <3>4
    <3>6. QED
      BY <3>1, <3>5, Zenon DEF QuietInv
  <2>4. QED
    BY <2>1, <2>2, <2>3
<1>7. ASSUME NEW s \in Sockets, BackendError(s) PROVE ConnInv'
  <2>1. HookInv'
    BY <1>7 DEF BackendError, CloseBrowser, HookInv, OneSocket, FlagTypes, page, hook
  <2>2. ProxyInv'
    BY <1>7 DEF BackendError, CloseBrowser, ProxyInv, HookInv, OneSocket, page, proxy
  <2>3. QuietInv'
    BY <1>7 DEF BackendError, CloseBrowser, QuietInv, HookInv, ProxyInv, OneSocket, page, proxy, hook
  <2>4. QED
    BY <2>1, <2>2, <2>3
<1>8. ASSUME NEW s \in Sockets, BackendClose(s) PROVE ConnInv'
  <2>1. HookInv'
    BY <1>8 DEF BackendClose, CloseBrowser, HookInv, OneSocket, FlagTypes, page, hook
  <2>2. ProxyInv'
    BY <1>8 DEF BackendClose, CloseBrowser, ProxyInv, HookInv, OneSocket, page, proxy
  <2>3. QuietInv'
    BY <1>8 DEF BackendClose, CloseBrowser, QuietInv, HookInv, ProxyInv, OneSocket, page, proxy, hook
  <2>4. QED
    BY <2>1, <2>2, <2>3
<1>9. ASSUME NEW s \in Sockets, BrowserClose(s) PROVE ConnInv'
  <2>1. HookInv'
    BY <1>9 DEF BrowserClose, CloseEvent, HookInv, OneSocket, FlagTypes, page, hook
  <2>2. ProxyInv'
    BY <1>9 DEF BrowserClose, CloseEvent, ProxyInv, HookInv, OneSocket, page, proxy
  <2>3. QuietInv'
    <3>1. UNCHANGED <<mounted, wsRef, timer, newest>>
      <4>1. CASE UNCHANGED page
        BY <4>1, Zenon DEF page, hook
      <4>2. CASE browser[s] = "closing" /\ CloseEvent(s, 1000)
        BY <4>2 DEF CloseEvent, HookInv, FlagTypes
      <4>3. QED
        BY <1>9, <4>1, <4>2, Zenon DEF BrowserClose
    <3>2. ASSUME newest \in Sockets, code[newest] = 1000, accepted[newest] = "closed"
          PROVE  code'[newest] = 1000 /\ accepted'[newest] = "closed"
      BY <1>9, <3>2 DEF BrowserClose
    <3>3. mounted => newest \in Sockets
      BY Zenon DEF HookInv
    <3>4. newest' = newest /\ code'[newest'] = code'[newest]
          /\ accepted'[newest'] = accepted'[newest]
      BY <3>1
    <3>5. code[newest] = 1000 /\ accepted[newest] = "closed" /\ mounted
             => code'[newest'] = 1000 /\ accepted'[newest'] = "closed"
      BY <3>2, <3>3, <3>4
    <3>6. QED
      BY <3>1, <3>5, Zenon DEF QuietInv
  <2>4. QED
    BY <2>1, <2>2, <2>3
<1>10. ASSUME ProxyRestart PROVE ConnInv'
  <2>1. HookInv'
    BY <1>10 DEF ProxyRestart, HookInv, OneSocket, FlagTypes, page, hook
  <2>2. ProxyInv'
    BY <1>10 DEF ProxyRestart, ProxyInv, HookInv, OneSocket, page, proxy
  <2>3. QuietInv'
    BY <1>10 DEF ProxyRestart, QuietInv, HookInv, ProxyInv, OneSocket, page, proxy, hook
  <2>4. QED
    BY <2>1, <2>2, <2>3
<1>11. ASSUME UNCHANGED page, UNCHANGED proxy PROVE ConnInv'
  <2>1. UNCHANGED <<mounted, wsRef, timer, newest, browser, onclose>>
    BY <1>11, Zenon DEF page, hook
  <2>2. UNCHANGED <<accepted, code, backendWs, bridged, early, silent>>
    BY <1>11, Zenon DEF proxy
  <2>3. HookInv'
    BY <2>1, Zenon DEF HookInv, OneSocket
  <2>4. ProxyInv'
    BY <2>1, <2>2 DEF ProxyInv
  <2>5. QuietInv'
    BY <2>1, <2>2, Zenon DEF QuietInv
  <2>6. QED
    BY <2>3, <2>4, <2>5
<1>12. \/ ServiceRestart
       \/ \E s \in Sockets :
            \/ ServeWS(s) \/ ReadEnds(s) \/ ReadFails(s) \/ Return(s)
            \/ \E c \in Convs : PumpStops(s, c) \/ PumpFails(s, c)
       => UNCHANGED page /\ UNCHANGED proxy
  BY Zenon DEF ServiceRestart, ServeWS, ReadEnds, ReadFails, LeaveLoop, Return,
               PumpStops, PumpFails
<1>13. UNCHANGED vars => UNCHANGED page /\ UNCHANGED proxy
  BY Zenon DEF vars
<1>14. QED
  BY <1>1, <1>2, <1>3, <1>4, <1>5, <1>6, <1>7, <1>8, <1>9, <1>10, <1>11, <1>12, <1>13, Zenon
     DEF Next

LEMMA ConnInit == Init => ConnInv
<1> SUFFICES ASSUME Init PROVE ConnInv
  OBVIOUS
<1>1. ~mounted /\ ~timer /\ wsRef = None
  BY Zenon DEF Init
<1>2. HookInv
  BY <1>1 DEF Init, HookInv, OneSocket
<1>3. ProxyInv
  <2> SUFFICES ASSUME NEW s \in Sockets
               PROVE  /\ browser[s] = "unused" => accepted[s] = "none"
                      /\ accepted[s] \in {"none", "asked"} => backendWs[s] = "none"
                      /\ accepted[s] = "closing" => backendWs[s] = "closed"
                      /\ backendWs[s] = "open" => bridged[s]
                      /\ accepted[s] = "closed" /\ backendWs[s] \in {"dialing", "open"}
                            => s \in early
                      /\ code[s] = 1000 => bridged[s] /\ accepted[s] \in {"closing", "closed"}
    BY Zenon DEF ProxyInv
  <2>1. accepted[s] = "none" /\ backendWs[s] = "none" /\ code[s] = 0
    BY Zenon DEF Init
  <2>2. QED
    BY <2>1
<1>4. QED
  BY <1>1, <1>2, <1>3, Zenon DEF ConnInv, QuietInv

LEMMA Connected == Spec => [](TypeInv /\ ConnInv)
BY TypeInit, TypeStep, ConnInit, ConnStep, PTL DEF Spec

(* useChatWebSocket holds one socket: one that connects or is open is       *)
(* wsRef.current of a mounted page, and a reconnect is pending only while   *)
(* there is none.                                                           *)
THEOREM PageHasOneSocket == Spec => []OneSocket
<1>1. ConnInv => OneSocket
  BY Zenon DEF ConnInv, HookInv
<1>2. QED
  BY <1>1, Connected, PTL

(* The hook gives up only where the proxy ended the socket with code 1000,  *)
(* after the 'open' event of a connection that chat-service then closed.    *)
THEOREM GivesUpOnlyOn1000 == Spec => []DisconnectExplained
<1>1. TypeInv /\ ConnInv => DisconnectExplained
  <2>1. TypeInv /\ HookInv /\ mounted => newest \in Sockets
    BY Zenon DEF TypeInv, HookTypes, HookInv
  <2>2. ASSUME ProxyInv, newest \in Sockets, code[newest] = 1000 PROVE bridged[newest]
    BY <2>2 DEF ProxyInv
  <2>3. QED
    BY <2>1, <2>2, Zenon DEF ConnInv, QuietInv, DisconnectExplained
<1>2. QED
  BY <1>1, Connected, PTL

(* The proxy keeps a connection to chat-service behind a browser that is    *)
(* gone only if that browser left before the backend's 'open' event.        *)
THEOREM OnlyEarlyLeaversAreKept == Spec => []LeftBehindExplained
<1>1. ConnInv => LeftBehindExplained
  BY DEF ConnInv, ProxyInv, LeftBehindExplained
<1>2. QED
  BY <1>1, Connected, PTL
=============================================================================
