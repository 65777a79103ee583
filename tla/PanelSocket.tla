----------------------------- MODULE PanelSocket -----------------------------
(***************************************************************************)
(* The panel's live channel as one browser tab keeps it                    *)
(* (frontend/src/api/websocket.ts): a WebSocketClient opens a socket,      *)
(* retries with a growing delay, then slowly for ever, and obeys the       *)
(* events of the socket it holds now only.  A tab has two such clients,    *)
(* each with its socket: the layout's bridge (api/websocketBridge.ts) and  *)
(* one that the pages share (hooks/useWebSocket.ts).  Each connects        *)
(* whenever a hook of its own is mounted; this module is either of them.   *)
(*                                                                         *)
(* Delays are left out: a timer fires at any time after it was set.        *)
(***************************************************************************)
EXTENDS Naturals

CONSTANTS MaxAttempts,   \* maxReconnectAttempts
          MaxLosses      \* bound on attempts that fail and links that drop

ASSUME SocketAssumption == MaxAttempts \in Nat /\ MaxLosses \in Nat

VARIABLES ws,           \* the socket held: "none", "connecting", "open", or
                        \* "closing", its link gone and the event on its way
          orphan,       \* a socket that was replaced has yet to report closing
          timer,        \* reconnectTimer is set
          attempts,     \* reconnectAttempts
          isConnected,  \* the flag the client keeps
          losses        \* failures so far

socket == <<ws, orphan, timer, attempts, isConnected, losses>>

SocketInit == /\ ws = "none" /\ orphan = FALSE /\ timer = FALSE
              /\ attempts = 0 /\ isConnected = FALSE /\ losses = 0

ConnectKeepingTimer ==
    /\ ws \notin {"open", "connecting"}
    /\ ws' = "connecting"
    /\ orphan' = (orphan \/ ws = "closing")
    /\ UNCHANGED <<timer, attempts, isConnected, losses>>

(* connect(): nothing while the socket is open or opening, else a pending  *)
(* retry is cancelled and a new socket takes the place of a closing one.   *)
Connect ==
    /\ ws \notin {"open", "connecting"}
    /\ timer' = FALSE
    /\ ws' = "connecting"
    /\ orphan' = (orphan \/ ws = "closing")
    /\ UNCHANGED <<attempts, isConnected, losses>>

(* The "open" event.                                                       *)
Opened ==
    /\ ws = "connecting"
    /\ ws' = "open" /\ isConnected' = TRUE /\ attempts' = 0
    /\ UNCHANGED <<orphan, timer, losses>>

ScheduleReconnectWhileQuick ==
    /\ timer' = (attempts < MaxAttempts)
    /\ attempts' = IF attempts < MaxAttempts THEN attempts + 1 ELSE attempts

(* scheduleReconnect: quick retries are counted up to maxReconnectAttempts,*)
(* the slow ones after them are not.                                       *)
ScheduleReconnect ==
    /\ timer' = TRUE
    /\ attempts' = IF attempts < MaxAttempts THEN attempts + 1 ELSE attempts

(* The "close" event of the socket held.                                   *)
HandleClose ==
    /\ isConnected' = FALSE /\ ws' = "none"
    /\ ScheduleReconnect

(* A replaced socket's events are dropped: this.ws !== socket.             *)
HandleOrphan == UNCHANGED <<ws, timer, attempts, isConnected>>

(* The link goes, and the browser has yet to dispatch the close event.     *)
LinkLost ==
    /\ ws = "open" /\ losses < MaxLosses
    /\ ws' = "closing" /\ losses' = losses + 1
    /\ UNCHANGED <<orphan, timer, attempts, isConnected>>

(* A link or an attempt ends with the close event.                         *)
Closed ==
    \/ /\ ws = "closing"
       /\ HandleClose
       /\ UNCHANGED <<orphan, losses>>
    \/ /\ ws = "connecting" /\ losses < MaxLosses
       /\ losses' = losses + 1
       /\ HandleClose
       /\ UNCHANGED orphan

OrphanClosed == orphan /\ HandleOrphan /\ orphan' = FALSE /\ UNCHANGED losses

(* The timer: it forgets itself before it opens a socket.                  *)
Retry ==
    /\ timer
    /\ timer' = FALSE /\ ws' = "connecting"
    /\ UNCHANGED <<orphan, attempts, isConnected, losses>>

SocketNext == \/ Connect \/ Opened \/ LinkLost \/ Closed \/ OrphanClosed \/ Retry

(* A retry is pending only while no socket is held: two can never run side *)
(* by side, whichever of connect(), the timer and a late close event comes *)
(* first (websocket.ts:45-54, 149-167, 241-276).  Of one client by itself.*)
OneAttempt == timer => ws = "none"
=============================================================================
