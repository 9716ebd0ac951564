---------------------------- MODULE PushChannel -----------------------------
(***************************************************************************)
(* The realtime channel of one dashboard: the hook that keeps a WebSocket  *)
(* open for the selected sites (frontend/src/services/realtime.ts), the    *)
(* gateway's proxy, which joins it to a second one to the realtime service *)
(* (gateway/src/main.py), and the handler and the broadcasts at its end    *)
(* (realtime/src/websocket.py).                                            *)
(*                                                                         *)
(* A push and its arrival in the browser are one step: the messages of one *)
(* connection stay in order, and a WebSocket delivers none once it has     *)
(* been closed.  The history of latest and label shows nothing else.       *)
(*                                                                         *)
(* A valid token is stored throughout: without one, as after a logout in   *)
(* another tab, connect() makes neither a socket nor a timer and keeps its *)
(* label (realtime.ts:52-53), until the selection changes.                 *)
(***************************************************************************)
EXTENDS Naturals, FiniteSets

CONSTANTS
  Sites,
  Selections,  \* the sets of sites the dashboard may select
  Nothing,
  MaxChanges,  \* bound: how often the selection changes
  MaxFaults,   \* bound: how often something goes wrong
  Disruptions  \* what may go wrong

ASSUME PushAssumption ==
  /\ Selections \subseteq SUBSET Sites
  /\ MaxChanges \in Nat /\ MaxFaults \in Nat
  /\ Disruptions \subseteq {"identity", "network", "realtime", "redis"}

VARIABLES
  wanted,         \* siteIds of the hook
  current,        \* the number of sockets made so far: the last is socketRef's
  conn,           \* the ends of each connection: browser, gateway, realtime
  label,          \* connectionState
  connectedOnce,  \* hasConnectedOnceRef
  timer,          \* a reconnect is pending in reconnectTimerRef
  latest,         \* latestStats: the sites it is about and its connection
  registered,     \* the keys of ConnectionManager._connections
  broadcast,      \* what broadcast_site_status_changed() is doing
  known,          \* realtime:sites in Redis
  changes,        \* how often the selection has changed
  faults          \* how often something has gone wrong

hookVars == <<wanted, current, label, connectedOnce, timer, latest>>
realtimeVars == <<registered, broadcast, known>>
vars == <<hookVars, conn, realtimeVars, changes, faults>>

\* Every socket after the first takes a change or a fault.
Connections == 1..(1 + MaxChanges + MaxFaults)

-----------------------------------------------------------------------------
Unused == [browser |-> "none", gateway |-> "none", realtime |-> "none",
           asked |-> {}, sent |-> FALSE, sites |-> {}]

\* connect(): new WebSocket(...), which reaches the gateway's realtime_proxy().
New(sites) == [Unused EXCEPT !.browser = "connecting", !.gateway = "whoami", !.asked = sites]

Init ==
  /\ wanted = {}
  /\ current = 1
  /\ conn = [c \in Connections |-> IF c = 1 THEN New({}) ELSE Unused]
  /\ label = "connecting"
  /\ connectedOnce = FALSE
  /\ timer = FALSE
  /\ latest = Nothing
  /\ registered = {}
  /\ broadcast = Nothing
  /\ known \in SUBSET Sites
  /\ changes = 0
  /\ faults = 0

Fault(kind) ==
  /\ kind \in Disruptions
  /\ faults < MaxFaults
  /\ faults' = faults + 1

\* One end of connection c goes on.
Browser(c, state) == conn' = [conn EXCEPT ![c].browser = state]
Gateway(c, state) == conn' = [conn EXCEPT ![c].gateway = state]
Realtime(c, state) == conn' = [conn EXCEPT ![c].realtime = state]

-----------------------------------------------------------------------------
(* The hook *)

\* connect() sets the label before the socket is open.
Connecting == label' = IF connectedOnce THEN "reconnecting" ELSE "connecting"

ReselectInPlace(sites) ==
  /\ sites # wanted /\ changes < MaxChanges
  /\ changes' = changes + 1
  /\ wanted' = sites
  /\ UNCHANGED <<current, conn, label, timer, connectedOnce, latest, realtimeVars, faults>>

\* The selection changes: the effect's cleanup, and the effect for the new one.
Reselect(sites) ==
  /\ sites # wanted /\ changes < MaxChanges
  /\ changes' = changes + 1
  /\ wanted' = sites
  /\ current' = current + 1
  /\ conn' = [conn EXCEPT ![current].browser = "closed", ![current + 1] = New(sites)]
  /\ timer' = FALSE
  /\ Connecting
  /\ UNCHANGED <<connectedOnce, latest, realtimeVars, faults>>

ReconnectTwice ==
  /\ timer
  /\ current' = current + 1
  /\ conn' = [conn EXCEPT ![current + 1] = New(wanted)]
  /\ Connecting
  /\ UNCHANGED <<wanted, connectedOnce, timer, latest, realtimeVars, changes, faults>>

\* The reconnect timer fires.
Reconnect ==
  /\ timer
  /\ timer' = FALSE
  /\ current' = current + 1
  /\ conn' = [conn EXCEPT ![current + 1] = New(wanted)]
  /\ Connecting
  /\ UNCHANGED <<wanted, connectedOnce, latest, realtimeVars, changes, faults>>

\* onopen: the subscription is sent.
Open(c) ==
  /\ conn[c].browser = "connecting" /\ conn[c].gateway \in {"accepted", "piping", "ended"}
  /\ conn' = [conn EXCEPT ![c].browser = "open", ![c].sent = TRUE]
  /\ label' = "connected"
  /\ connectedOnce' = TRUE
  /\ UNCHANGED <<wanted, current, timer, latest, realtimeVars, changes, faults>>

CloseForGood(c) ==
  /\ Browser(c, "closed")
  /\ label' = "reconnecting"
  /\ UNCHANGED <<wanted, current, connectedOnce, timer, latest, realtimeVars, changes>>

\* onclose, of a socket the hook has not closed itself.
Close(c) ==
  /\ Browser(c, "closed")
  /\ label' = "reconnecting"
  /\ timer' = TRUE
  /\ UNCHANGED <<wanted, current, connectedOnce, latest, realtimeVars, changes>>

Live(c) == conn[c].browser \in {"connecting", "open"}

\* The gateway has closed its end, before or after it accepted the upgrade, or
\* the connection to it breaks.
SeeClosed(c) ==
  /\ \/ conn[c].browser = "connecting" /\ conn[c].gateway = "refused"
     \/ conn[c].browser = "open" /\ conn[c].gateway = "ended"
  /\ Close(c)
  /\ UNCHANGED faults

BreakNetwork(c) == Live(c) /\ Fault("network") /\ Close(c)

-----------------------------------------------------------------------------
(* The gateway *)

\* realtime_proxy(): identity accepts the token and the upgrade is accepted.
AcceptUpgrade(c) ==
  /\ conn[c].gateway = "whoami"
  /\ Gateway(c, "accepted")
  /\ UNCHANGED <<hookVars, realtimeVars, changes, faults>>

\* websockets.connect() reaches the realtime service, and both pumps start.
ConnectUpstream(c) ==
  /\ conn[c].gateway = "accepted"
  /\ conn' = [conn EXCEPT ![c].gateway = "piping", ![c].realtime = "waiting"]
  /\ UNCHANGED <<hookVars, realtimeVars, changes, faults>>

\* Identity or the realtime service cannot be reached: the exception closes the
\* client's end.
ProxyFails(c) ==
  /\ \/ conn[c].gateway = "whoami" /\ Fault("identity") /\ Gateway(c, "refused")
     \/ conn[c].gateway = "accepted" /\ Fault("realtime") /\ Gateway(c, "ended")
  /\ UNCHANGED <<hookVars, realtimeVars, changes>>

\* One of the pumps has come to its end; the proxy closes the other side.
EndProxy(c) ==
  /\ conn[c].gateway = "piping"
  /\ conn[c].browser = "closed" \/ conn[c].realtime \in {"ended", "failed"}
  /\ Gateway(c, "ended")
  /\ UNCHANGED <<hookVars, realtimeVars, changes, faults>>

-----------------------------------------------------------------------------
(* The realtime service *)

\* receive_json() returns the subscription, which may have overtaken the end of
\* the gateway's pumps, or fails because that came first.
ReceiveSubscription(c) ==
  /\ conn[c].realtime = "waiting"
  /\ \/ conn[c].sent /\ Realtime(c, "asking")
     \/ conn[c].gateway = "ended" /\ Realtime(c, "ended")
  /\ UNCHANGED <<hookVars, realtimeVars, changes, faults>>

\* known_site_ids() returns, and the connection is registered, for known sites
\* of any scope; one that becomes known later is not added.
Subscribe(c) ==
  /\ conn[c].realtime = "asking"
  /\ conn' = [conn EXCEPT ![c].realtime = "greeting",
       ![c].sites = IF conn[c].asked = {} THEN known ELSE conn[c].asked \cap known]
  /\ registered' = registered \cup {c}
  /\ UNCHANGED <<hookVars, broadcast, known, changes, faults>>

SubscribeFails(c) ==
  /\ conn[c].realtime = "asking"
  /\ Fault("redis")
  /\ Realtime(c, "ended")
  /\ UNCHANGED <<hookVars, realtimeVars, changes>>

\* A send to connection c does not raise: it does once either its
\* handler or the gateway's pumps have ended.
Stands(c) == conn[c].gateway = "piping" /\ conn[c].realtime \in {"greeting", "serving"}

\* A message sent to connection c arrives in the browser.
Arrives(c) == Stands(c) /\ conn[c].browser = "open"

SendStats(c) ==
  /\ latest' = IF Arrives(c) THEN [connection |-> c, sites |-> conn[c].sites] ELSE latest
  /\ UNCHANGED <<wanted, current, label, connectedOnce, timer, realtimeVars, changes, faults>>

\* The push on connect, and the one of every interval.
FirstPush(c) ==
  /\ conn[c].realtime = "greeting"
  /\ SendStats(c)
  /\ Realtime(c, "serving")

Push(c) ==
  /\ conn[c].realtime = "serving"
  /\ SendStats(c)
  /\ UNCHANGED conn

\* _send_stats_update() raises: its connection is closed, or Redis fails.
SendRaises(c) == (conn[c].gateway = "ended" /\ UNCHANGED faults) \/ Fault("redis")

\* The first push is made before the try: the connection stays registered.
FirstPushFails(c) ==
  /\ conn[c].realtime = "greeting"
  /\ SendRaises(c)
  /\ Realtime(c, "failed")
  /\ UNCHANGED <<hookVars, realtimeVars, changes>>

PushFails(c) ==
  /\ conn[c].realtime = "serving"
  /\ SendRaises(c)
  /\ Realtime(c, "ended")
  /\ registered' = registered \ {c}
  /\ UNCHANGED <<hookVars, broadcast, known, changes>>

\* The staleness sweep calls broadcast_site_status_changed() for a site.
BeginBroadcast(s) ==
  /\ broadcast = Nothing
  /\ LET targets == {c \in registered : s \in conn[c].sites}
     IN /\ targets # {}
        /\ broadcast' = [targets |-> targets, todo |-> targets, reached |-> {}]
  /\ UNCHANGED <<hookVars, conn, registered, known, changes, faults>>

SendStatusOrStop(c) ==
  /\ broadcast # Nothing /\ c \in broadcast.todo
  /\ broadcast' = [broadcast EXCEPT
       !.todo = IF Stands(c) THEN @ \ {c} ELSE {},
       !.reached = IF Arrives(c) THEN @ \cup {c} ELSE @]
  /\ UNCHANGED <<hookVars, conn, registered, known, changes, faults>>

\* One client after the other; what one of them raises is caught.
SendStatus(c) ==
  /\ broadcast # Nothing /\ c \in broadcast.todo
  /\ broadcast' = [broadcast EXCEPT
       !.todo = @ \ {c},
       !.reached = IF Arrives(c) THEN @ \cup {c} ELSE @]
  /\ UNCHANGED <<hookVars, conn, registered, known, changes, faults>>

EndBroadcast ==
  /\ broadcast # Nothing /\ broadcast.todo = {}
  /\ broadcast' = Nothing
  /\ UNCHANGED <<hookVars, conn, registered, known, changes, faults>>

\* record_event() meets a site for the first time.
SiteKnown(s) ==
  /\ s \notin known
  /\ known' = known \cup {s}
  /\ UNCHANGED <<hookVars, conn, registered, broadcast, changes, faults>>

\* The realtime service stops and starts again, with no connection.
RestartRealtime ==
  /\ Fault("realtime")
  /\ conn' = [c \in Connections |->
       IF conn[c].realtime \in {"none", "failed"} THEN conn[c]
       ELSE [conn[c] EXCEPT !.realtime = "ended"]]
  /\ registered' = {}
  /\ broadcast' = Nothing
  /\ UNCHANGED <<hookVars, known, changes>>

-----------------------------------------------------------------------------
\* What happens to a connection without anything going wrong.
Progress(c) ==
  \/ Open(c) \/ SeeClosed(c)
  \/ AcceptUpgrade(c) \/ ConnectUpstream(c) \/ EndProxy(c)
  \/ ReceiveSubscription(c) \/ Subscribe(c) \/ FirstPush(c)

Next ==
  \/ \E sites \in Selections : Reselect(sites)
  \/ Reconnect
  \/ \E c \in Connections :
       \/ Progress(c) \/ Push(c)
       \/ BreakNetwork(c) \/ ProxyFails(c)
       \/ SubscribeFails(c) \/ FirstPushFails(c) \/ PushFails(c)
       \/ SendStatus(c)
  \/ \E s \in Sites : BeginBroadcast(s) \/ SiteKnown(s)
  \/ EndBroadcast
  \/ RestartRealtime

Spec == Init /\ [][Next]_vars

\* Timers fire, and every request and handshake is answered or fails.
Fairness ==
  /\ WF_vars(Reconnect)
  /\ \A c \in Connections : WF_vars(Progress(c)) /\ WF_vars(Push(c))

FairSpec == Spec /\ Fairness

-----------------------------------------------------------------------------
(* Properties *)

\* Every variable has its type.
TypeOK ==
  /\ wanted \in Selections \cup {{}}
  /\ current \in Connections
  /\ conn \in [Connections ->
       [browser : {"none", "connecting", "open", "closed"},
        gateway : {"none", "whoami", "refused", "accepted", "piping", "ended"},
        realtime : {"none", "waiting", "asking", "greeting", "serving", "ended", "failed"},
        asked : SUBSET Sites, sent : BOOLEAN, sites : SUBSET Sites]]
  /\ \A c \in Connections : (conn[c] = Unused) <=> (c > current)
  /\ label \in {"connecting", "connected", "reconnecting"}
  /\ connectedOnce \in BOOLEAN /\ timer \in BOOLEAN
  /\ latest # Nothing => latest \in [connection : 1..current, sites : SUBSET Sites]
  /\ registered \subseteq 1..current
  /\ broadcast # Nothing =>
       broadcast \in [targets : SUBSET Connections, todo : SUBSET Connections,
                      reached : SUBSET Connections]
  /\ known \subseteq Sites
  /\ changes \in 0..MaxChanges /\ faults \in 0..MaxFaults

\* Every variable has its type.  The hook has one socket, or a timer that will
\* make one: it neither leaves an old socket open nor stays without any; and it
\* says "connected" exactly while its socket is open, whichever of selections,
\* timers and closing handshakes come first (realtime.ts:58-92;
\* realtime-channel.md:43).
OneSocketOrTimer ==
  /\ TypeOK
  /\ \A c \in 1..(current - 1) : conn[c].browser = "closed"
  /\ timer <=> (conn[current].browser = "closed")
  /\ label = "connected" <=> conn[current].browser = "open"

\* What arrives on the present socket is about selected sites, however often
\* the selection changed while it was opening (realtime.ts:48-95,
\* websocket.py:80-92).
StatsMatchSelection ==
  latest # Nothing /\ latest.connection = current /\ wanted # {} => latest.sites \subseteq wanted

\* A status change reaches every dashboard that was registered for the site,
\* but for those whose connection has broken or whose handler has ended by the
\* time the broadcast is through (websocket.py:99-112).
BroadcastReachesAll ==
  broadcast # Nothing /\ broadcast.todo = {} =>
    \A c \in broadcast.targets : c \in broadcast.reached \/ ~Arrives(c)

\* However connections broke before, a dashboard whose selection stays the same
\* ends up connected and shows stats of its present connection, as long as its
\* token stays valid (realtime.ts:75-79, websocket.py:86;
\* realtime-channel.md:43-45).
StatsResume ==
  \A sites \in Selections :
    <>[](wanted = sites) =>
      <>[](label = "connected" /\ latest # Nothing /\ latest.connection = current)
=============================================================================
