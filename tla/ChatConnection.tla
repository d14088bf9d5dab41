--------------------------- MODULE ChatConnection ---------------------------
(***************************************************************************)
(* The connection a chat page holds: useChatWebSocket opens a socket, the  *)
(* proxy in server.ts accepts it and dials chat-service, and ServeWS runs  *)
(* a session behind it.  Each of the three may end the connection, learns  *)
(* of the others' ends only by events, and both servers may restart.  What *)
(* travels over the connection is ChatDelivery's subject.                  *)
(***************************************************************************)
EXTENDS Naturals

CONSTANTS
    Sockets,     \* sockets the page may open, each used once
    Convs,       \* conversations a session may subscribe to
    MaxRestarts, \* bound on restarts of the proxy and of chat-service
    None         \* no socket

ASSUME NoneAssumption     == None \notin Sockets
ASSUME RestartsAssumption == MaxRestarts \in Nat

VARIABLES
    mounted,   \* the hook's effect is in force
    wsRef,     \* wsRef.current
    timer,     \* reconnectTimer is running
    newest,    \* history: the socket opened last
    browser,   \* the browser's end of each socket
    onclose,   \* whether its onclose handler is attached
    accepted,  \* the proxy's browserWs
    code,      \* the close code the browser is sent, or 1006 for none
    backendWs, \* the proxy's backendWs
    bridged,   \* the handlers of the proxy's 'open' event are registered
    early,     \* history: sockets whose browser left while the proxy dialled
    silent,    \* sockets that broke without the proxy being told
    serve,     \* ServeWS: its read loop, then its wait for the pumps
    pumps,     \* its goroutines that forward a conversation's messages
    cancelled, \* cancelStream was called
    restarts

hook    == <<mounted, wsRef, timer, newest>>
page    == <<hook, browser, onclose>>
proxy   == <<accepted, code, backendWs, bridged, early, silent>>
service == <<serve, pumps, cancelled>>
vars    == <<page, proxy, service, restarts>>

BrowserStates == {"unused", "connecting", "open", "closing", "closed"}
ProxyStates   == {"none", "asked", "open", "closing", "closed"}
DialStates    == {"none", "dialing", "open", "closing", "closed"}
ServeStates   == {"none", "reading", "waiting", "ended"}
Codes         == {0, 1000, 1006, 1011}

Init ==
    /\ mounted = FALSE /\ wsRef = None /\ timer = FALSE /\ newest = None
    /\ browser = [s \in Sockets |-> "unused"]
    /\ onclose = [s \in Sockets |-> FALSE]
    /\ accepted = [s \in Sockets |-> "none"]
    /\ code = [s \in Sockets |-> 0]
    /\ backendWs = [s \in Sockets |-> "none"]
    /\ bridged = [s \in Sockets |-> FALSE]
    /\ early = {} /\ silent = {}
    /\ serve = [s \in Sockets |-> "none"]
    /\ pumps = [s \in Sockets |-> {}]
    /\ cancelled = [s \in Sockets |-> FALSE]
    /\ restarts = 0

-----------------------------------------------------------------------------
(* The hook.                                                                *)

(* connect: the socket becomes wsRef.current and its upgrade request is on  *)
(* its way to the proxy.                                                    *)
Connect(s) ==
    /\ browser[s] = "unused"
    /\ browser' = [browser EXCEPT ![s] = "connecting"]
    /\ onclose' = [onclose EXCEPT ![s] = TRUE]
    /\ accepted' = [accepted EXCEPT ![s] = "asked"]
    /\ wsRef' = s /\ newest' = s
    /\ UNCHANGED <<code, backendWs, bridged, early, silent, service, restarts>>

Mount(s) ==
    /\ ~mounted
    /\ mounted' = TRUE
    /\ UNCHANGED timer
    /\ Connect(s)

TimerFires(s) ==
    /\ timer
    /\ timer' = FALSE
    /\ UNCHANGED mounted
    /\ Connect(s)

(* The effect's cleanup, run when the page is left or the unit changes.     *)
(* ws.close() fails a socket that is still connecting.                      *)
Unmount_KeepsHandler ==
    /\ mounted
    /\ mounted' = FALSE /\ wsRef' = None /\ timer' = FALSE
    /\ browser' = [s \in Sockets |->
                     IF s # wsRef THEN browser[s]
                     ELSE IF browser[s] = "open" THEN "closing" ELSE "closed"]
    /\ UNCHANGED <<onclose, newest, proxy, service, restarts>>
Unmount ==
    /\ mounted
    /\ mounted' = FALSE /\ wsRef' = None /\ timer' = FALSE
    /\ onclose' = [s \in Sockets |-> onclose[s] /\ s # wsRef]
    /\ browser' = [s \in Sockets |->
                     IF s # wsRef THEN browser[s]
                     ELSE IF browser[s] = "open" THEN "closing" ELSE "closed"]
    /\ UNCHANGED <<newest, proxy, service, restarts>>

(* onopen clears the timer that led to this socket.                         *)
Opens(s) ==
    /\ browser[s] = "connecting" /\ accepted[s] \in {"open", "closing"}
    /\ browser' = [browser EXCEPT ![s] = "open"]
    /\ timer' = FALSE
    /\ UNCHANGED <<mounted, wsRef, newest, onclose, proxy, service, restarts>>

(* The close event of socket s, with close code c.                          *)
CloseEvent_Only1011(s, c) ==
    /\ browser' = [browser EXCEPT ![s] = "closed"]
    /\ wsRef' = IF onclose[s] THEN None ELSE wsRef
    /\ timer' = (timer \/ (onclose[s] /\ c = 1011))
    /\ UNCHANGED <<mounted, newest, onclose>>
CloseEvent(s, c) ==
    /\ browser' = [browser EXCEPT ![s] = "closed"]
    /\ wsRef' = IF onclose[s] THEN None ELSE wsRef
    /\ timer' = (timer \/ (onclose[s] /\ c # 1000))
    /\ UNCHANGED <<mounted, newest, onclose>>

(* The browser hears that the proxy closed or refused the socket.  (onerror *)
(* only closes the socket, which is closed by then.)                        *)
OnClose(s) ==
    /\ \/ browser[s] = "open" /\ accepted[s] \in {"closing", "closed"}
       \/ browser[s] = "connecting" /\ accepted[s] = "closed"
    /\ CloseEvent(s, code[s])
    /\ accepted' = [accepted EXCEPT ![s] = "closed"]
    /\ UNCHANGED <<code, backendWs, bridged, early, silent, service, restarts>>

(* The connection to the proxy breaks: no close code, and the proxy does    *)
(* not know yet.  It will be told by a reset, or it may never be: browserWs *)
(* has no ping, no timeout and no keepalive.                                *)
ConnectionLost(s) ==
    /\ browser[s] \in {"connecting", "open", "closing"}
    /\ CloseEvent(s, 1006)
    /\ code' = [code EXCEPT ![s] = 1006]
    /\ silent' \in {silent, silent \cup {s}}
    /\ UNCHANGED <<accepted, backendWs, bridged, early, service, restarts>>

-----------------------------------------------------------------------------
(* The proxy.                                                               *)

(* The 'upgrade' event: without the token cookie the request is refused,    *)
(* otherwise the socket is open for the browser before chat-service is      *)
(* dialled.                                                                 *)
Upgrade(s) ==
    /\ accepted[s] = "asked"
    /\ \/ /\ accepted' = [accepted EXCEPT ![s] = "open"]
          /\ backendWs' = [backendWs EXCEPT ![s] = "dialing"]
          /\ UNCHANGED code
       \/ /\ accepted' = [accepted EXCEPT ![s] = "closed"]
          /\ code' = [code EXCEPT ![s] = 1006]
          /\ UNCHANGED backendWs
    /\ UNCHANGED <<page, bridged, early, silent, service, restarts>>

(* backendWs 'open': the handlers that forward frames and closes, in both   *)
(* directions, are registered now and not before.                           *)
BackendOpen_NoCloseHandler(s) ==
    /\ backendWs[s] = "dialing" /\ serve[s] # "none"
    /\ backendWs' = [backendWs EXCEPT ![s] = "open"]
    /\ UNCHANGED <<page, accepted, code, bridged, early, silent, service, restarts>>
BackendOpen(s) ==
    /\ backendWs[s] = "dialing" /\ serve[s] # "none"
    /\ backendWs' = [backendWs EXCEPT ![s] = "open"]
    /\ bridged' = [bridged EXCEPT ![s] = TRUE]
    /\ UNCHANGED <<page, accepted, code, early, silent, service, restarts>>

(* browserWs.close(c), which does nothing on a socket that is not open.     *)
CloseBrowser(s, c) ==
    /\ accepted' = [accepted EXCEPT ![s] = IF @ = "open" THEN "closing" ELSE @]
    /\ code' = [code EXCEPT ![s] = IF accepted[s] = "open" THEN c ELSE @]

(* backendWs 'error': chat-service cannot be reached, refuses the upgrade,  *)
(* or resets the connection.                                                *)
BackendError(s) ==
    /\ \/ backendWs[s] = "dialing" /\ serve[s] \in {"none", "ended"}
       \/ backendWs[s] = "open" /\ serve[s] \in {"waiting", "ended"}
    /\ backendWs' = [backendWs EXCEPT ![s] = "closed"]
    /\ CloseBrowser(s, 1011)
    /\ UNCHANGED <<page, bridged, early, silent, service, restarts>>

(* backendWs 'close' without an error: chat-service closed the connection,  *)
(* whatever its reason, or answered the proxy's own close.                  *)
BackendClose(s) ==
    /\ backendWs[s] \in {"open", "closing"} /\ serve[s] \in {"waiting", "ended"}
    /\ backendWs' = [backendWs EXCEPT ![s] = "closed"]
    /\ IF bridged[s] THEN CloseBrowser(s, 1000) ELSE UNCHANGED <<accepted, code>>
    /\ UNCHANGED <<page, bridged, early, silent, service, restarts>>

(* browserWs 'close': the browser closed its end or is gone.  Before the    *)
(* backend's 'open' event nobody listens.  ('error' closes the backend too, *)
(* if that is open, and is followed by 'close'.)                            *)
BrowserClose(s) ==
    /\ accepted[s] \in {"open", "closing"} /\ browser[s] \in {"closing", "closed"}
    /\ accepted' = [accepted EXCEPT ![s] = "closed"]
    /\ backendWs' = [backendWs EXCEPT ![s] =
                       IF bridged[s] /\ @ = "open" THEN "closing" ELSE @]
    /\ early' = IF backendWs[s] = "dialing" THEN early \cup {s} ELSE early
    /\ IF browser[s] = "closing" THEN CloseEvent(s, 1000) ELSE UNCHANGED page
    /\ UNCHANGED <<code, bridged, silent, service, restarts>>

(* The proxy process restarts: both ends of every socket break.             *)
ProxyRestart ==
    /\ restarts < MaxRestarts
    /\ restarts' = restarts + 1
    /\ LET here == {s \in Sockets : accepted[s] \in {"asked", "open", "closing"}}
       IN /\ accepted' = [s \in Sockets |-> IF s \in here THEN "closed" ELSE accepted[s]]
          /\ code' = [s \in Sockets |-> IF s \in here THEN 1006 ELSE code[s]]
    /\ backendWs' = [s \in Sockets |-> IF backendWs[s] = "none" THEN "none" ELSE "closed"]
    /\ UNCHANGED <<page, bridged, early, silent, service>>

-----------------------------------------------------------------------------
(* chat-service.                                                            *)

(* ServeWS up to its read loop: the token and the unit were checked, the    *)
(* conversations listed, and one pump started for each.                     *)
ServeWS(s) ==
    /\ backendWs[s] = "dialing" /\ serve[s] = "none"
    /\ serve' = [serve EXCEPT ![s] = "reading"]
    /\ \E C \in SUBSET Convs : pumps' = [pumps EXCEPT ![s] = C]
    /\ UNCHANGED <<page, proxy, cancelled, restarts>>

LeaveLoop_NoWait(s) ==
    /\ serve[s] = "reading"
    /\ serve' = [serve EXCEPT ![s] = "closed"]
    /\ cancelled' = [cancelled EXCEPT ![s] = TRUE]
    /\ UNCHANGED <<page, proxy, pumps, restarts>>
LeaveLoop_NoCancel(s) ==
    /\ serve[s] = "reading"
    /\ serve' = [serve EXCEPT ![s] = "waiting"]
    /\ UNCHANGED <<page, proxy, pumps, cancelled, restarts>>
LeaveLoop(s) ==
    /\ serve[s] = "reading"
    /\ serve' = [serve EXCEPT ![s] = "waiting"]
    /\ cancelled' = [cancelled EXCEPT ![s] = TRUE]
    /\ UNCHANGED <<page, proxy, pumps, restarts>>

(* ReadMessage fails because the proxy closes or is gone ...                *)
ReadEnds(s) == backendWs[s] \in {"closing", "closed"} /\ LeaveLoop(s)

(* ... or although it is there: a frame above 4 KB, no pong for 60 s, or a  *)
(* broken connection.                                                       *)
ReadFails(s) == backendWs[s] \in {"dialing", "open"} /\ LeaveLoop(s)

(* A pump ends when StreamMessages, whose context is cancelled, closes its  *)
(* channel, ...                                                             *)
PumpStops(s, c) ==
    /\ c \in pumps[s] /\ cancelled[s]
    /\ pumps' = [pumps EXCEPT ![s] = @ \ {c}]
    /\ UNCHANGED <<page, proxy, serve, cancelled, restarts>>

(* ... or at a write error; the read loop goes on.                          *)
PumpFails(s, c) ==
    /\ c \in pumps[s] /\ backendWs[s] = "closed"
    /\ pumps' = [pumps EXCEPT ![s] = @ \ {c}]
    /\ UNCHANGED <<page, proxy, serve, cancelled, restarts>>

(* writeDone is closed after the last pump: ServeWS returns, which stops    *)
(* the ticker, ends the subscriptions and closes the connection.            *)
Return(s) ==
    /\ serve[s] = "waiting" /\ pumps[s] = {}
    /\ serve' = [serve EXCEPT ![s] = "ended"]
    /\ UNCHANGED <<page, proxy, pumps, cancelled, restarts>>

(* The chat-service process restarts: its sessions are gone.                *)
ServiceRestart ==
    /\ restarts < MaxRestarts
    /\ restarts' = restarts + 1
    /\ serve' = [s \in Sockets |-> IF serve[s] = "none" THEN "none" ELSE "ended"]
    /\ pumps' = [s \in Sockets |-> {}]
    /\ UNCHANGED <<page, proxy, cancelled>>

-----------------------------------------------------------------------------
Next ==
    \/ Unmount \/ ProxyRestart \/ ServiceRestart
    \/ \E s \in Sockets :
         \/ Mount(s) \/ TimerFires(s) \/ Opens(s) \/ OnClose(s) \/ ConnectionLost(s)
         \/ Upgrade(s) \/ BackendOpen(s) \/ BackendError(s) \/ BackendClose(s)
         \/ BrowserClose(s)
         \/ ServeWS(s) \/ ReadEnds(s) \/ ReadFails(s) \/ Return(s)
         \/ \E c \in Convs : PumpStops(s, c) \/ PumpFails(s, c)

Spec == Init /\ [][Next]_vars

(* Timers fire, the event loops of browser and proxy handle the events they *)
(* have, and goroutines run.  Nothing is assumed of the user, of failures,  *)
(* or of requests being answered; and a browser that has gone silently need *)
(* not ever yield a 'close' event at the proxy.                             *)
Fairness ==
    /\ WF_vars(\E s \in Sockets : TimerFires(s))
    /\ \A s \in Sockets :
         /\ WF_vars(OnClose(s)) /\ WF_vars(s \notin silent /\ BrowserClose(s))
         /\ WF_vars(ReadEnds(s)) /\ WF_vars(Return(s))
         /\ \A c \in Convs : WF_vars(PumpStops(s, c))

FairSpec == Spec /\ Fairness

-----------------------------------------------------------------------------
(* The types of the variables of hook, proxy and chat-service.              *)
TypeOK ==
    /\ mounted \in BOOLEAN /\ timer \in BOOLEAN
    /\ wsRef \in Sockets \cup {None} /\ newest \in Sockets \cup {None}
    /\ browser \in [Sockets -> BrowserStates]
    /\ onclose \in [Sockets -> BOOLEAN]
    /\ accepted \in [Sockets -> ProxyStates]
    /\ code \in [Sockets -> Codes]
    /\ backendWs \in [Sockets -> DialStates]
    /\ bridged \in [Sockets -> BOOLEAN]
    /\ early \in SUBSET Sockets /\ silent \in SUBSET Sockets
    /\ serve \in [Sockets -> ServeStates]
    /\ pumps \in [Sockets -> SUBSET Convs]
    /\ cancelled \in [Sockets -> BOOLEAN]
    /\ restarts \in 0 .. MaxRestarts

(* The hook has one socket at a time, whatever is still closing from an     *)
(* earlier mount: a socket that connects or is open is wsRef.current of a   *)
(* mounted page, and a reconnect is pending only while there is none.  So   *)
(* no message is received twice and sendMessage uses the socket that lives. *)
OneSocket ==
    /\ \A s \in Sockets : browser[s] \in {"connecting", "open"} => wsRef = s /\ mounted
    /\ wsRef # None => browser[wsRef] \in {"connecting", "open"}
    /\ timer => mounted /\ wsRef = None

(* A mounted page without a socket is about to open one, unless the proxy   *)
(* ended the last one with code 1000 after chat-service had closed it.      *)
DisconnectExplained ==
    mounted /\ wsRef = None /\ ~timer => code[newest] = 1000 /\ bridged[newest]

(* The proxy keeps a connection to chat-service after the browser's is gone *)
(* only if the browser left while it was still dialling: otherwise the      *)
(* handlers registered in 'open' close it.                                  *)
LeftBehindExplained ==
    \A s \in Sockets :
        accepted[s] = "closed" /\ backendWs[s] = "open" => s \in early

(* The session behind a socket that had been bridged ends once the browser  *)
(* is gone: the close reaches the proxy, chat-service's read loop, every    *)
(* pump through the cancelled context, and ServeWS returns.  Not promised   *)
(* for a browser that left while the proxy dialled, nor for one whose       *)
(* connection broke without the proxy being told: the proxy goes on         *)
(* answering chat-service's pings, and that session may never end.          *)
SessionsEnd ==
    \A s \in Sockets :
        bridged[s] /\ browser[s] = "closed" /\ s \notin early \cup silent
            ~> serve[s] = "ended"

(* The sockets of the model are used up.                                    *)
Exhausted == \A s \in Sockets : browser[s] # "unused"

(* What useChatWebSocket.ts says of itself, "Reconnects automatically after *)
(* 3 seconds on unexpected closure": a page that stays mounted and has lost *)
(* its socket gets another one.                                             *)
Reconnects == mounted /\ wsRef = None ~> wsRef # None \/ ~mounted \/ Exhausted

=============================================================================
