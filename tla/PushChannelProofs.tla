------------------------- MODULE PushChannelProofs --------------------------
(***************************************************************************)
(* Proofs, for any sites and selections and any number of changes and      *)
(* faults, that the hook keeps one socket, that what it shows is about the *)
(* selection, and that a broadcast reaches every dashboard it can.         *)
(***************************************************************************)
EXTENDS PushChannel, TLAPS

Connection ==
  [browser : {"none", "connecting", "open", "closed"},
   gateway : {"none", "whoami", "refused", "accepted", "piping", "ended"},
   realtime : {"none", "waiting", "asking", "greeting", "serving", "ended", "failed"},
   asked : SUBSET Sites, sent : BOOLEAN, sites : SUBSET Sites]

Last == 1 + MaxChanges + MaxFaults

\* A connection that has come to an end, or will without anything going wrong.
Doomed(x) ==
  x.browser = "closed" \/ x.gateway \in {"refused", "ended"} \/ x.realtime \in {"ended", "failed"}

\* What holds of the ends of a connection that was made.
Sound(x) ==
  /\ x.gateway # "none" /\ x.browser # "none"
  /\ x.sent => x.browser \in {"open", "closed"}
  /\ x.realtime # "none" => x.gateway \in {"piping", "ended"}
  /\ x.realtime \in {"asking", "greeting", "serving"} => x.sent
  /\ x.asked # {} => x.sites \subseteq x.asked

\* Its handler may still send.
Served(x) == x.realtime \in {"greeting", "serving"}

\* A connection that was registered: a message arrives unless it has ended.
Reachable(x) ==
  /\ x.sent /\ x.gateway \in {"piping", "ended"}
  /\ x.realtime \in {"greeting", "serving", "ended", "failed"}

Made ==
  /\ conn \in [Connections -> Connection]
  /\ \A c \in Connections : c > current => conn[c] = Unused
  /\ \A c \in Connections : c <= current => Sound(conn[c])

\* Every socket but the first is paid for by a change or a fault.
Budget ==
  /\ current \in Nat /\ current >= 1
  /\ changes \in 0..MaxChanges /\ faults \in 0..MaxFaults
  /\ current <= 1 + changes + faults
  /\ Doomed(conn[current]) => current <= changes + faults

Hook ==
  /\ wanted \in Selections \cup {{}}
  /\ label \in {"connecting", "connected", "reconnecting"}
  /\ connectedOnce \in BOOLEAN /\ timer \in BOOLEAN
  /\ \A c \in 1..(current - 1) : conn[c].browser = "closed"
  /\ timer <=> (conn[current].browser = "closed")
  /\ label = "connected" <=> conn[current].browser = "open"
  /\ conn[current].asked = wanted

Shown ==
  latest # Nothing =>
    /\ latest \in [connection : 1..current, sites : SUBSET Sites]
    /\ latest.connection = current /\ wanted # {} => latest.sites \subseteq wanted

Registered ==
  /\ known \subseteq Sites
  /\ registered \subseteq 1..current /\ \A c \in registered : Reachable(conn[c])

Told ==
  broadcast # Nothing =>
    /\ broadcast \in [targets : SUBSET Connections, todo : SUBSET Connections,
                      reached : SUBSET Connections]
    /\ broadcast.targets \subseteq 1..current
    /\ \A c \in broadcast.targets :
         Reachable(conn[c]) /\ (c \in broadcast.todo \/ c \in broadcast.reached \/ ~Arrives(c))

ChannelInv == Made /\ Budget /\ Hook /\ Shown /\ Registered /\ Told

-----------------------------------------------------------------------------
LEMMA InRange ==
  ASSUME ChannelInv
  PROVE  /\ Last \in Nat /\ Connections = 1..Last /\ current \in Connections
         /\ \A c \in 1..current : c \in Connections /\ c <= current /\ c \in Nat
         /\ Doomed(conn[current]) => current + 1 \in Connections
         /\ changes < MaxChanges => current + 1 \in Connections
<1>1. MaxChanges \in Nat /\ MaxFaults \in Nat
  BY PushAssumption
<1>2. Last \in Nat /\ Connections = 1..Last
  BY <1>1 DEF Last, Connections
<1>3. current \in Connections
  BY <1>1, <1>2 DEF ChannelInv, Budget, Last
<1>4. Doomed(conn[current]) => current + 1 \in Connections
  BY <1>1, <1>2 DEF ChannelInv, Budget, Last
<1>5. changes < MaxChanges => current + 1 \in Connections
  BY <1>1, <1>2 DEF ChannelInv, Budget, Last
<1>6. \A c \in 1..current : c \in Connections /\ c <= current /\ c \in Nat
  BY <1>2, <1>3 DEF ChannelInv, Budget
<1> QED
  BY <1>2, <1>3, <1>4, <1>5, <1>6

\* A connection on which something happens was made.
LEMMA UsedIsMade ==
  ASSUME ChannelInv, NEW c \in Connections,
         conn[c].gateway # "none" \/ conn[c].browser # "none" \/ conn[c].realtime # "none"
  PROVE  c \in 1..current /\ conn[c] \in Connection /\ Sound(conn[c])
<1>1. Unused.gateway = "none" /\ Unused.browser = "none" /\ Unused.realtime = "none"
  BY DEF Unused
<1>2. c \in Nat /\ c >= 1 /\ current \in Nat
  BY InRange DEF ChannelInv, Budget
<1>3. ~(c > current)
  BY <1>1 DEF ChannelInv, Made
<1> QED
  BY <1>2, <1>3 DEF ChannelInv, Made

\* The gateway and the realtime service move: the browser's end of connection c
\* and what it asked for stay, and what has ended stays ended.
LEMMA EndMoves ==
  ASSUME ChannelInv, NEW c \in 1..current, NEW r \in Connection,
         conn' = [conn EXCEPT ![c] = r], Sound(r),
         r.browser = conn[c].browser, r.asked = conn[c].asked, r.sent = conn[c].sent,
         conn[c].gateway \in {"piping", "ended"} => r.gateway \in {"piping", "ended"},
         conn[c].gateway = "ended" => r.gateway = "ended",
         Reachable(conn[c]) => Reachable(r) /\ (Served(r) => Served(conn[c])),
         Doomed(r) => Doomed(conn[c]) \/ faults' = faults + 1,
         faults' = faults \/ (faults' = faults + 1 /\ faults < MaxFaults),
         registered' \subseteq registered \cup {c}, c \in registered' => Reachable(r),
         \/ latest' = latest
         \/ latest' = [connection |-> c, sites |-> conn[c].sites],
         UNCHANGED <<wanted, current, label, connectedOnce, timer, broadcast, known, changes>>
  PROVE  ChannelInv'
<1>1. c \in Connections /\ c <= current /\ c \in Nat /\ current \in Nat /\ current \in Connections
  BY InRange DEF ChannelInv, Budget
<1>2. \A d \in Connections : conn'[d] = IF d = c THEN r ELSE conn[d]
  BY <1>1 DEF ChannelInv, Made
<1>3. Made'
  BY <1>1, <1>2 DEF ChannelInv, Made, Connections
<1>4. Budget'
  <2>1. Doomed(conn[current])' => Doomed(conn[current]) \/ faults' = faults + 1
    BY <1>1, <1>2 DEF Doomed
  <2>2. MaxFaults \in Nat /\ MaxChanges \in Nat
    BY PushAssumption
  <2> QED
    BY <2>1, <2>2 DEF ChannelInv, Budget
<1>5. Hook'
  <2>1. \A d \in 1..current : conn'[d].browser = conn[d].browser /\ conn'[d].asked = conn[d].asked
    BY <1>2, InRange
  <2>2. current \in 1..current /\ \A d \in 1..(current - 1) : d \in 1..current
    BY DEF ChannelInv, Budget
  <2> QED
    BY <2>1, <2>2 DEF ChannelInv, Hook
<1>6. Shown'
  <2>1. CASE latest' = latest
    BY <2>1 DEF ChannelInv, Shown
  <2>2. CASE latest' = [connection |-> c, sites |-> conn[c].sites]
    <3>1. conn[c] \in Connection /\ Sound(conn[c])
      BY <1>1 DEF ChannelInv, Made
    <3>2. conn[c].sites \in SUBSET Sites
      BY <3>1 DEF Connection
    <3>3. latest'.connection = c /\ latest'.sites = conn[c].sites
          /\ latest' \in [connection : 1..current, sites : SUBSET Sites]
      BY <2>2, <3>2
    <3>4. c = current /\ wanted # {} => conn[c].sites \subseteq wanted
      BY <3>1 DEF ChannelInv, Hook, Sound
    <3> QED
      BY <3>3, <3>4 DEF Shown
  <2> QED
    BY <2>1, <2>2
<1>7. \A d \in 1..current : Reachable(conn[d]) => Reachable(conn'[d])
  BY <1>2, InRange DEF Reachable
<1>8. Registered'
  BY <1>1, <1>2, <1>7 DEF ChannelInv, Registered
<1>9. Told'
  <2>1. \A d \in 1..current : Reachable(conn[d]) /\ ~Arrives(d) => ~Arrives(d)'
    BY <1>2, InRange DEF Reachable, Served, Arrives, Stands
  <2> QED
    BY <1>7, <2>1 DEF ChannelInv, Told, Connections
<1> QED
  BY <1>3, <1>4, <1>5, <1>6, <1>8, <1>9 DEF ChannelInv

LEMMA FaultCounts ==
  ASSUME NEW kind, Fault(kind)
  PROVE  faults' = faults + 1 /\ faults < MaxFaults
BY DEF Fault

\* Only the gateway's end is set.
LEMMA SetGateway ==
  ASSUME NEW x \in Connection, NEW e \in {"whoami", "refused", "accepted", "piping", "ended"}
  PROVE  /\ [x EXCEPT !.gateway = e] \in Connection
         /\ [x EXCEPT !.gateway = e].gateway = e
         /\ [x EXCEPT !.gateway = e].realtime = x.realtime
         /\ [x EXCEPT !.gateway = e].browser = x.browser
         /\ [x EXCEPT !.gateway = e].asked = x.asked
         /\ [x EXCEPT !.gateway = e].sent = x.sent
         /\ [x EXCEPT !.gateway = e].sites = x.sites
BY DEF Connection

\* Only the realtime service's end is set.
LEMMA SetRealtime ==
  ASSUME NEW x \in Connection, NEW e \in {"waiting", "asking", "greeting", "serving", "ended", "failed"}
  PROVE  /\ [x EXCEPT !.realtime = e] \in Connection
         /\ [x EXCEPT !.realtime = e].realtime = e
         /\ [x EXCEPT !.realtime = e].gateway = x.gateway
         /\ [x EXCEPT !.realtime = e].browser = x.browser
         /\ [x EXCEPT !.realtime = e].asked = x.asked
         /\ [x EXCEPT !.realtime = e].sent = x.sent
         /\ [x EXCEPT !.realtime = e].sites = x.sites
BY DEF Connection

LEMMA GatewayKeepsInv ==
  ASSUME ChannelInv, NEW c \in Connections,
         AcceptUpgrade(c) \/ ConnectUpstream(c) \/ ProxyFails(c) \/ EndProxy(c)
  PROVE  ChannelInv'
<1>1. c \in 1..current /\ conn[c] \in Connection /\ Sound(conn[c])
  <2>1. conn[c].gateway # "none"
    BY DEF AcceptUpgrade, ConnectUpstream, ProxyFails, EndProxy
  <2> QED
    BY <2>1, UsedIsMade
<1>2. c \notin registered \/ conn[c].gateway \in {"piping", "ended"}
  BY DEF ChannelInv, Registered, Reachable
<1>3. registered \subseteq registered \cup {c}
  OBVIOUS
<1>4. CASE AcceptUpgrade(c)
  <2> DEFINE r == [conn[c] EXCEPT !.gateway = "accepted"]
  <2>1. r \in Connection /\ r.gateway = "accepted" /\ r.realtime = conn[c].realtime
        /\ r.browser = conn[c].browser /\ r.asked = conn[c].asked /\ r.sent = conn[c].sent
        /\ r.sites = conn[c].sites
    BY <1>1, SetGateway, Zenon
  <2>2. conn' = [conn EXCEPT ![c] = r] /\ conn[c].gateway = "whoami"
        /\ UNCHANGED <<hookVars, realtimeVars, changes, faults>>
    BY <1>4 DEF AcceptUpgrade, Gateway
  <2>3. Sound(r) /\ (Doomed(r) => Doomed(conn[c])) /\ c \notin registered
        /\ ~Reachable(conn[c])
    BY <1>1, <1>2, <2>1, <2>2 DEF Sound, Doomed, Reachable
  <2> HIDE DEF r
  <2> QED
    BY <1>1, <1>3, <2>1, <2>2, <2>3, EndMoves DEF hookVars, realtimeVars
<1>5. CASE ConnectUpstream(c)
  <2> DEFINE accepted == [conn[c] EXCEPT !.gateway = "piping"]
             r == [accepted EXCEPT !.realtime = "waiting"]
  <2>1. accepted \in Connection /\ accepted.gateway = "piping"
        /\ accepted.browser = conn[c].browser /\ accepted.asked = conn[c].asked
        /\ accepted.sent = conn[c].sent /\ accepted.sites = conn[c].sites
    BY <1>1, SetGateway, Zenon
  <2>2. r \in Connection /\ r.gateway = "piping" /\ r.realtime = "waiting"
        /\ r.browser = conn[c].browser /\ r.asked = conn[c].asked /\ r.sent = conn[c].sent
        /\ r.sites = conn[c].sites
    <3> HIDE DEF accepted
    <3> QED
      BY <2>1, SetRealtime, Zenon
  <2>3. conn' = [conn EXCEPT ![c] = r] /\ conn[c].gateway = "accepted"
        /\ UNCHANGED <<hookVars, realtimeVars, changes, faults>>
    BY <1>5 DEF ConnectUpstream
  <2>4. Sound(r) /\ (Doomed(r) => Doomed(conn[c])) /\ c \notin registered
        /\ ~Reachable(conn[c])
    BY <1>1, <1>2, <2>2, <2>3 DEF Sound, Doomed, Reachable
  <2> HIDE DEF r
  <2> QED
    BY <1>1, <1>3, <2>2, <2>3, <2>4, EndMoves DEF hookVars, realtimeVars
<1>6. CASE ProxyFails(c)
  <2>1. PICK g \in {"whoami", "refused", "accepted", "piping", "ended"} :
          /\ g \in {"refused", "ended"}
          /\ Gateway(c, g) /\ conn[c].gateway \in {"whoami", "accepted"}
          /\ faults' = faults + 1 /\ faults < MaxFaults
    BY <1>6, FaultCounts DEF ProxyFails
  <2> DEFINE r == [conn[c] EXCEPT !.gateway = g]
  <2>2. r \in Connection /\ r.gateway = g /\ r.realtime = conn[c].realtime
        /\ r.browser = conn[c].browser /\ r.asked = conn[c].asked /\ r.sent = conn[c].sent
        /\ r.sites = conn[c].sites
    BY <1>1, SetGateway, Zenon
  <2>3. conn' = [conn EXCEPT ![c] = r] /\ UNCHANGED <<hookVars, realtimeVars, changes>>
    BY <1>6, <2>1 DEF ProxyFails, Gateway
  <2>4. Sound(r) /\ c \notin registered /\ ~Reachable(conn[c])
    BY <1>1, <1>2, <2>1, <2>2 DEF Sound, Reachable
  <2> HIDE DEF r
  <2> QED
    BY <1>1, <1>3, <2>1, <2>2, <2>3, <2>4, EndMoves DEF hookVars, realtimeVars
<1>7. CASE EndProxy(c)
  <2> DEFINE r == [conn[c] EXCEPT !.gateway = "ended"]
  <2>1. r \in Connection /\ r.gateway = "ended" /\ r.realtime = conn[c].realtime
        /\ r.browser = conn[c].browser /\ r.asked = conn[c].asked /\ r.sent = conn[c].sent
        /\ r.sites = conn[c].sites
    BY <1>1, SetGateway, Zenon
  <2>2. conn' = [conn EXCEPT ![c] = r] /\ conn[c].gateway = "piping" /\ Doomed(conn[c])
        /\ UNCHANGED <<hookVars, realtimeVars, changes, faults>>
    BY <1>7 DEF EndProxy, Gateway, Doomed
  <2>3. /\ Sound(r) /\ (c \in registered => Reachable(r))
        /\ Reachable(conn[c]) => Reachable(r) /\ (Served(r) => Served(conn[c]))
    BY <1>1, <2>1, <2>2 DEF Sound, Reachable, Served, ChannelInv, Registered
  <2> HIDE DEF r
  <2> QED
    BY <1>1, <1>3, <2>1, <2>2, <2>3, EndMoves DEF hookVars, realtimeVars
<1> QED
  BY <1>4, <1>5, <1>6, <1>7

\* The steps of the realtime service that only move its own end of a connection.
LEMMA ServiceKeepsInv ==
  ASSUME ChannelInv, NEW c \in Connections,
         \/ ReceiveSubscription(c) \/ SubscribeFails(c) \/ FirstPush(c) \/ FirstPushFails(c)
         \/ PushFails(c)
  PROVE  ChannelInv'
<1>1. c \in 1..current /\ conn[c] \in Connection /\ Sound(conn[c])
  <2>1. conn[c].realtime # "none"
    BY DEF ReceiveSubscription, SubscribeFails, FirstPush, FirstPushFails, PushFails
  <2> QED
    BY <2>1, UsedIsMade
<1>2. PICK e \in {"waiting", "asking", "greeting", "serving", "ended", "failed"} :
        /\ Realtime(c, e) /\ e \in {"asking", "serving", "ended", "failed"}
        /\ e \in {"asking", "serving"} => conn[c].sent
        /\ e \in {"ended", "failed"} => Doomed(conn[c]) \/ faults' = faults + 1
        /\ e = "asking" => conn[c].realtime = "waiting"
        /\ e = "serving" => conn[c].realtime = "greeting"
  BY <1>1 DEF ReceiveSubscription, SubscribeFails, FirstPush, FirstPushFails, PushFails, Doomed,
              SendRaises, Fault, Sound
<1>3. /\ conn[c].realtime # "none"
      /\ faults' = faults \/ (faults' = faults + 1 /\ faults < MaxFaults)
      /\ registered' = registered \/ registered' = registered \ {c}
      /\ latest' = latest \/ latest' = [connection |-> c, sites |-> conn[c].sites]
      /\ UNCHANGED <<wanted, current, label, connectedOnce, timer, broadcast, known, changes>>
  BY DEF ReceiveSubscription, SubscribeFails, FirstPush, FirstPushFails, PushFails,
         SendRaises, SendStats, Fault, hookVars, realtimeVars
<1> DEFINE r == [conn[c] EXCEPT !.realtime = e]
<1>4. r \in Connection /\ r.gateway = conn[c].gateway /\ r.realtime = e
      /\ r.browser = conn[c].browser /\ r.asked = conn[c].asked /\ r.sent = conn[c].sent
      /\ r.sites = conn[c].sites
  BY <1>1, SetRealtime, Zenon
<1>5. conn' = [conn EXCEPT ![c] = r]
  BY <1>2 DEF Realtime
<1>6. Sound(r)
  BY <1>1, <1>2, <1>3, <1>4 DEF Sound
<1>7. Doomed(r) => Doomed(conn[c]) \/ faults' = faults + 1
  BY <1>2, <1>4 DEF Doomed
<1>8. Reachable(conn[c]) => Reachable(r) /\ (Served(r) => Served(conn[c]))
  BY <1>2, <1>4 DEF Reachable, Served
<1>9. c \in registered' => Reachable(r)
  BY <1>3, <1>8 DEF ChannelInv, Registered
<1> HIDE DEF r
<1> QED
  BY <1>1, <1>3, <1>4, <1>5, <1>6, <1>7, <1>8, <1>9, EndMoves

LEMMA SubscribeKeepsInv ==
  ASSUME ChannelInv, NEW c \in Connections, Subscribe(c)
  PROVE  ChannelInv'
<1>1. conn[c].realtime = "asking" /\ c \in 1..current /\ conn[c] \in Connection /\ Sound(conn[c])
  BY UsedIsMade DEF Subscribe
<1> DEFINE seen == IF conn[c].asked = {} THEN known ELSE conn[c].asked \cap known
           greeting == [conn[c] EXCEPT !.realtime = "greeting"]
           r == [greeting EXCEPT !.sites = seen]
<1>2. seen \subseteq Sites /\ (conn[c].asked # {} => seen \subseteq conn[c].asked)
  BY DEF ChannelInv, Registered
<1>3. greeting \in Connection /\ greeting.gateway = conn[c].gateway /\ greeting.realtime = "greeting"
      /\ greeting.browser = conn[c].browser /\ greeting.asked = conn[c].asked
      /\ greeting.sent = conn[c].sent
  BY <1>1, SetRealtime, Zenon
<1>4. r \in Connection /\ r.gateway = conn[c].gateway /\ r.realtime = "greeting"
      /\ r.browser = conn[c].browser /\ r.asked = conn[c].asked /\ r.sent = conn[c].sent
      /\ r.sites = seen
  <2> HIDE DEF greeting, seen
  <2> QED
    BY <1>2, <1>3 DEF Connection
<1>5. conn' = [conn EXCEPT ![c] = r] /\ registered' = registered \cup {c}
      /\ UNCHANGED <<hookVars, broadcast, known, changes, faults>>
  BY DEF Subscribe
<1> HIDE DEF seen, r
<1>6. Sound(r) /\ (Doomed(r) => Doomed(conn[c])) /\ Reachable(r) /\ ~Reachable(conn[c])
  BY <1>1, <1>2, <1>4 DEF Sound, Doomed, Reachable
<1> QED
  BY <1>1, <1>4, <1>5, <1>6, EndMoves DEF hookVars

LEMMA PushKeepsInv ==
  ASSUME ChannelInv, NEW c \in Connections, Push(c)
  PROVE  ChannelInv'
<1>1. conn[c].realtime = "serving" /\ c \in 1..current /\ conn[c] \in Connection /\ Sound(conn[c])
  BY UsedIsMade DEF Push
<1>2. conn' = [conn EXCEPT ![c] = conn[c]]
  BY DEF Push, ChannelInv, Made
<1>3. /\ latest' = latest \/ latest' = [connection |-> c, sites |-> conn[c].sites]
      /\ UNCHANGED <<wanted, current, label, connectedOnce, timer, registered, broadcast, known,
                     changes, faults>>
  BY DEF Push, SendStats, realtimeVars
<1>4. c \in registered => Reachable(conn[c])
  BY DEF ChannelInv, Registered
<1> QED
  BY <1>1, <1>2, <1>3, <1>4, EndMoves

-----------------------------------------------------------------------------
(* The hook *)

\* Only the present socket opens or sees its end.
LEMMA SocketMoves ==
  ASSUME ChannelInv, NEW r \in Connection, conn' = [conn EXCEPT ![current] = r],
         conn[current].browser \in {"connecting", "open"}, r.browser \in {"open", "closed"},
         r.browser = "open" => conn[current].browser = "connecting",
         r.gateway = conn[current].gateway, r.realtime = conn[current].realtime,
         r.asked = conn[current].asked, r.sites = conn[current].sites,
         conn[current].sent => r.sent,
         r.browser = "closed" =>
           (Doomed(conn[current]) \/ faults' = faults + 1) /\ timer' = TRUE /\ label' = "reconnecting",
         r.browser = "open" => timer' = timer /\ label' = "connected",
         faults' = faults \/ (faults' = faults + 1 /\ faults < MaxFaults),
         connectedOnce' \in BOOLEAN,
         UNCHANGED <<wanted, current, latest, registered, broadcast, known, changes>>
  PROVE  ChannelInv'
<1>1. current \in Connections /\ current \in Nat /\ current \in 1..current
  BY InRange DEF ChannelInv, Budget
<1>2. \A d \in Connections : conn'[d] = IF d = current THEN r ELSE conn[d]
  BY <1>1 DEF ChannelInv, Made
<1>3. Sound(conn[current])
  BY <1>1 DEF ChannelInv, Made
<1>4. Sound(r)
  BY <1>3 DEF Sound
<1>5. Made'
  BY <1>1, <1>2, <1>4 DEF ChannelInv, Made, Connections
<1>6. Budget'
  <2>1. Doomed(conn[current])' => Doomed(conn[current]) \/ faults' = faults + 1
    BY <1>1, <1>2 DEF Doomed
  <2>2. MaxFaults \in Nat /\ MaxChanges \in Nat
    BY PushAssumption
  <2> QED
    BY <2>1, <2>2 DEF ChannelInv, Budget
<1>7. Hook'
  <2>1. \A d \in 1..(current - 1) : conn'[d] = conn[d]
    BY <1>1, <1>2, InRange
  <2>2. timer' \in BOOLEAN /\ (timer' <=> r.browser = "closed")
    <3>1. CASE r.browser = "closed"
      BY <3>1
    <3>2. CASE r.browser = "open"
      BY <3>2 DEF ChannelInv, Hook
    <3> QED
      BY <3>1, <3>2
  <2> QED
    BY <1>1, <1>2, <2>1, <2>2 DEF ChannelInv, Hook
<1>8. Shown'
  BY DEF ChannelInv, Shown
<1>9. \A d \in 1..current : Reachable(conn[d]) => Reachable(conn'[d])
  BY <1>2, InRange DEF Reachable
<1>10. Registered'
  BY <1>9 DEF ChannelInv, Registered
<1>11. Told'
  <2>1. Reachable(conn[current]) => conn[current].browser = "open"
    BY <1>3 DEF Sound, Reachable
  <2>2. \A d \in 1..current : Reachable(conn[d]) /\ ~Arrives(d) => ~Arrives(d)'
    BY <1>2, <2>1, InRange DEF Reachable, Arrives, Stands
  <2> QED
    BY <1>9, <2>2 DEF ChannelInv, Told, Connections
<1> QED
  BY <1>5, <1>6, <1>7, <1>8, <1>10, <1>11 DEF ChannelInv

LEMMA NewTyped ==
  ASSUME NEW sites \in SUBSET Sites
  PROVE  /\ Unused \in Connection /\ New(sites) \in Connection
         /\ New(sites).browser = "connecting" /\ New(sites).gateway = "whoami"
         /\ New(sites).realtime = "none" /\ New(sites).asked = sites
         /\ New(sites).sent = FALSE /\ New(sites).sites = {}
<1>1. Unused \in Connection /\ Unused.realtime = "none" /\ Unused.sent = FALSE /\ Unused.sites = {}
  BY DEF Unused, Connection
<1> DEFINE connecting == [Unused EXCEPT !.browser = "connecting"]
           asking == [connecting EXCEPT !.gateway = "whoami"]
<1>2. connecting \in Connection /\ connecting.browser = "connecting"
      /\ connecting.realtime = "none" /\ connecting.sent = FALSE /\ connecting.sites = {}
  BY <1>1 DEF Connection
<1>3. asking \in Connection /\ asking.browser = "connecting" /\ asking.gateway = "whoami"
      /\ asking.realtime = "none" /\ asking.sent = FALSE /\ asking.sites = {}
  <2> HIDE DEF connecting
  <2> QED
    BY <1>2, SetGateway
<1>4. [asking EXCEPT !.asked = sites] \in Connection
      /\ [asking EXCEPT !.asked = sites].browser = "connecting"
      /\ [asking EXCEPT !.asked = sites].gateway = "whoami"
      /\ [asking EXCEPT !.asked = sites].realtime = "none"
      /\ [asking EXCEPT !.asked = sites].asked = sites
      /\ [asking EXCEPT !.asked = sites].sent = FALSE
      /\ [asking EXCEPT !.asked = sites].sites = {}
  <2> HIDE DEF asking
  <2> QED
    BY <1>3 DEF Connection
<1> QED
  BY <1>1, <1>4 DEF New

\* The hook closes what it has and makes a new socket for the selection.
LEMMA SocketIsMade ==
  ASSUME ChannelInv, current + 1 \in Connections, NEW sites \in Selections \cup {{}},
         NEW old \in Connection, old.browser = "closed",
         old.gateway = conn[current].gateway, old.realtime = conn[current].realtime,
         old.asked = conn[current].asked, old.sent = conn[current].sent,
         old.sites = conn[current].sites,
         conn' = [conn EXCEPT ![current] = old, ![current + 1] = New(sites)],
         current' = current + 1, wanted' = sites, timer' = FALSE,
         label' \in {"connecting", "reconnecting"},
         changes' \in 0..MaxChanges, current' <= 1 + changes' + faults',
         UNCHANGED <<connectedOnce, latest, registered, broadcast, known, faults>>
  PROVE  ChannelInv'
<1>1. current \in Connections /\ current \in Nat /\ current >= 1 /\ Connections = 1..Last
      /\ Last \in Nat
  BY InRange DEF ChannelInv, Budget
<1> DEFINE new == New(sites)
<1>3. new \in Connection /\ new.browser = "connecting" /\ new.gateway = "whoami"
      /\ new.realtime = "none" /\ new.asked = sites /\ new.sent = FALSE /\ new.sites = {}
  <2>1. sites \subseteq Sites
    BY PushAssumption
  <2> QED
    BY <2>1, NewTyped
<1> HIDE DEF new
<1>4. conn' = [conn EXCEPT ![current] = old, ![current + 1] = new]
  BY DEF new
<1>5. /\ conn'[current] = old /\ conn'[current + 1] = new
      /\ \A d \in Connections : d # current /\ d # current + 1 => conn'[d] = conn[d]
      /\ \A d \in 1..current : d # current => conn'[d] = conn[d]
  <2>1. conn'[current] = old
    BY <1>1, <1>4 DEF ChannelInv, Made
  <2>2. conn'[current + 1] = new
    BY <1>1, <1>4 DEF ChannelInv, Made
  <2>3. \A d \in Connections : d # current /\ d # current + 1 => conn'[d] = conn[d]
    BY <1>1, <1>4 DEF ChannelInv, Made
  <2>4. \A d \in 1..current : d # current + 1 /\ d \in Connections
    BY <1>1, InRange
  <2> QED
    BY <2>1, <2>2, <2>3, <2>4
<1>6. Sound(new) /\ ~Doomed(new)
  BY <1>3 DEF Sound, Doomed
<1>7. Sound(old)
  BY <1>1 DEF ChannelInv, Made, Sound
<1>8. Made'
  <2>1. conn' \in [Connections -> Connection]
    BY <1>3, <1>4 DEF ChannelInv, Made
  <2>2. \A d \in Connections : d > current + 1 => conn'[d] = Unused
    BY <1>1, <1>5 DEF ChannelInv, Made
  <2>3. \A d \in Connections : d <= current + 1 => Sound(conn'[d])
    BY <1>1, <1>5, <1>6, <1>7 DEF ChannelInv, Made
  <2> QED
    BY <1>1, <2>1, <2>2, <2>3 DEF Made, Connections, Last
<1>9. Budget'
  <2>1. conn'[current'] = new
    BY <1>5
  <2>2. ~Doomed(conn[current])'
    BY <1>6, <2>1 DEF Doomed
  <2>3. current' \in Nat /\ current' >= 1
    BY <1>1
  <2>4. faults' \in 0..MaxFaults
    BY DEF ChannelInv, Budget
  <2> QED
    BY <2>2, <2>3, <2>4 DEF Budget
<1>10. Hook'
  <2>1. \A d \in 1..(current' - 1) : conn'[d].browser = "closed"
    <3>1. \A d \in 1..(current' - 1) : d \in 1..current /\ (d # current => d \in 1..(current - 1))
      BY <1>1
    <3> QED
      BY <1>5, <3>1 DEF ChannelInv, Hook
  <2>2. conn'[current'] = new
    BY <1>5
  <2> QED
    BY <1>3, <2>1, <2>2 DEF ChannelInv, Hook
<1>11. Shown'
  BY <1>1 DEF ChannelInv, Shown
<1>12. \A d \in 1..current : Reachable(conn[d]) => Reachable(conn'[d])
  BY <1>1, <1>5, InRange DEF Reachable
<1>13. 1..current \subseteq 1..current'
  BY <1>1
<1>14. Registered'
  BY <1>12, <1>13 DEF ChannelInv, Registered
<1>15. Told'
  <2>1. \A d \in 1..current : Reachable(conn[d]) /\ ~Arrives(d) => ~Arrives(d)'
    BY <1>1, <1>5, InRange DEF Reachable, Arrives, Stands
  <2> QED
    BY <1>12, <1>13, <2>1 DEF ChannelInv, Told, Connections
<1> QED
  BY <1>8, <1>9, <1>10, <1>11, <1>14, <1>15 DEF ChannelInv

LEMMA HookKeepsInv ==
  ASSUME ChannelInv, NEW c \in Connections, Open(c) \/ SeeClosed(c) \/ BreakNetwork(c)
  PROVE  ChannelInv'
<1>1. conn[c].browser \in {"connecting", "open"}
  BY DEF Open, SeeClosed, BreakNetwork, Live
<1>2. c \in 1..current /\ conn[c] \in Connection /\ Sound(conn[c])
  BY <1>1, UsedIsMade
<1>3. c = current
  <2>1. c \notin 1..(current - 1)
    BY <1>1 DEF ChannelInv, Hook
  <2> QED
    BY <1>2, <2>1 DEF ChannelInv, Budget
<1>4. CASE Open(c)
  <2> DEFINE up == [conn[c] EXCEPT !.browser = "open"]
             r == [up EXCEPT !.sent = TRUE]
  <2>1. up \in Connection /\ up.browser = "open" /\ up.gateway = conn[c].gateway
        /\ up.realtime = conn[c].realtime /\ up.asked = conn[c].asked /\ up.sites = conn[c].sites
    BY <1>2 DEF Connection
  <2>2. r \in Connection /\ r.browser = "open" /\ r.gateway = conn[c].gateway
        /\ r.realtime = conn[c].realtime /\ r.asked = conn[c].asked /\ r.sites = conn[c].sites
        /\ r.sent
    <3> HIDE DEF up
    <3> QED
      BY <2>1 DEF Connection
  <2>3. conn' = [conn EXCEPT ![c] = r] /\ conn[c].browser = "connecting" /\ label' = "connected"
        /\ connectedOnce' = TRUE
        /\ UNCHANGED <<wanted, current, timer, latest, realtimeVars, changes, faults>>
    BY <1>4 DEF Open
  <2> HIDE DEF r
  <2> QED
    BY <1>1, <1>3, <2>2, <2>3, SocketMoves DEF realtimeVars
<1>5. CASE SeeClosed(c) \/ BreakNetwork(c)
  <2> DEFINE r == [conn[c] EXCEPT !.browser = "closed"]
  <2>1. r \in Connection /\ r.browser = "closed" /\ r.gateway = conn[c].gateway
        /\ r.realtime = conn[c].realtime /\ r.asked = conn[c].asked /\ r.sites = conn[c].sites
        /\ r.sent = conn[c].sent
    BY <1>2 DEF Connection
  <2>2. /\ conn' = [conn EXCEPT ![c] = r] /\ label' = "reconnecting" /\ timer' = TRUE
        /\ UNCHANGED <<wanted, current, connectedOnce, latest, realtimeVars, changes>>
    BY <1>5 DEF SeeClosed, BreakNetwork, Close, Browser
  <2>3. /\ Doomed(conn[c]) \/ faults' = faults + 1
        /\ faults' = faults \/ (faults' = faults + 1 /\ faults < MaxFaults)
    BY <1>5 DEF SeeClosed, BreakNetwork, Fault, Doomed
  <2>4. connectedOnce' \in BOOLEAN
    BY <2>2 DEF ChannelInv, Hook
  <2> HIDE DEF r
  <2> QED
    BY <1>1, <1>3, <2>1, <2>2, <2>3, <2>4, SocketMoves DEF realtimeVars
<1> QED
  BY <1>4, <1>5

LEMMA SelectionKeepsInv ==
  ASSUME ChannelInv, NEW sites \in Selections, Reselect(sites)
  PROVE  ChannelInv'
<1>1. current + 1 \in Connections /\ current \in Connections /\ current \in Nat
  BY InRange DEF Reselect, ChannelInv, Budget
<1>2. conn[current] \in Connection
  BY <1>1 DEF ChannelInv, Made
<1> DEFINE old == [conn[current] EXCEPT !.browser = "closed"]
<1>3. old \in Connection /\ old.browser = "closed" /\ old.gateway = conn[current].gateway
      /\ old.realtime = conn[current].realtime /\ old.asked = conn[current].asked
      /\ old.sites = conn[current].sites /\ old.sent = conn[current].sent
  BY <1>2 DEF Connection
<1>4. conn' = [conn EXCEPT ![current] = old, ![current + 1] = New(sites)]
  BY DEF Reselect
<1>5. changes' \in 0..MaxChanges /\ current' <= 1 + changes' + faults'
  BY PushAssumption DEF Reselect, ChannelInv, Budget
<1>6. label' \in {"connecting", "reconnecting"}
  BY DEF Reselect, Connecting
<1> HIDE DEF old
<1> QED
  BY <1>1, <1>3, <1>4, <1>5, <1>6, SocketIsMade DEF Reselect, realtimeVars

LEMMA ReconnectKeepsInv ==
  ASSUME ChannelInv, Reconnect
  PROVE  ChannelInv'
<1>1. conn[current].browser = "closed" /\ Doomed(conn[current])
  BY DEF Reconnect, ChannelInv, Hook, Doomed
<1>2. current + 1 \in Connections /\ current \in Connections /\ current \in Nat
  BY <1>1, InRange DEF ChannelInv, Budget
<1> DEFINE old == conn[current]
<1>3. old \in Connection /\ current # current + 1
  BY <1>2 DEF ChannelInv, Made
<1>4. conn' = [conn EXCEPT ![current] = old, ![current + 1] = New(wanted)]
  BY <1>2, <1>3 DEF Reconnect, ChannelInv, Made
<1>5. changes' \in 0..MaxChanges /\ current' <= 1 + changes' + faults'
  BY <1>1 DEF Reconnect, ChannelInv, Budget
<1>6. label' \in {"connecting", "reconnecting"} /\ wanted \in Selections \cup {{}}
  BY DEF Reconnect, Connecting, ChannelInv, Hook
<1> QED
  BY <1>1, <1>2, <1>3, <1>4, <1>5, <1>6, SocketIsMade DEF Reconnect, realtimeVars

-----------------------------------------------------------------------------
(* Broadcasts and the realtime service as a whole *)

LEMMA BroadcastKeepsInv ==
  ASSUME ChannelInv,
         \/ \E s \in Sites : BeginBroadcast(s) \/ SiteKnown(s)
         \/ \E c \in Connections : SendStatus(c)
         \/ EndBroadcast
  PROVE  ChannelInv'
<1>1. UNCHANGED <<hookVars, conn, registered, changes, faults>>
  BY DEF BeginBroadcast, SiteKnown, SendStatus, EndBroadcast
<1>2. Made' /\ Budget' /\ Hook' /\ Shown'
  BY <1>1 DEF ChannelInv, Made, Budget, Hook, Shown, hookVars
<1>3. known' \subseteq Sites
  BY DEF ChannelInv, Registered, BeginBroadcast, SiteKnown, SendStatus, EndBroadcast
<1>4. Registered'
  BY <1>1, <1>3 DEF ChannelInv, Registered, hookVars
<1>5. Told'
  <2>1. CASE UNCHANGED broadcast
    BY <1>1, <2>1 DEF ChannelInv, Told, Arrives, Stands, hookVars
  <2>2. CASE \E s \in Sites : BeginBroadcast(s)
    <3>1. PICK targets \in SUBSET registered :
            broadcast' = [targets |-> targets, todo |-> targets, reached |-> {}]
      BY <2>2 DEF BeginBroadcast
    <3>2. targets \subseteq 1..current /\ targets \subseteq Connections
          /\ \A c \in targets : Reachable(conn[c])
      BY <3>1, InRange DEF ChannelInv, Registered
    <3> QED
      BY <1>1, <3>1, <3>2 DEF Told, hookVars
  <2>3. CASE \E c \in Connections : SendStatus(c)
    <3>1. PICK c \in Connections : SendStatus(c)
      BY <2>3
    <3> DEFINE reached == IF Arrives(c) THEN broadcast.reached \cup {c} ELSE broadcast.reached
               todo == broadcast.todo \ {c}
    <3>2. broadcast \in [targets : SUBSET Connections, todo : SUBSET Connections,
                         reached : SUBSET Connections]
      BY <3>1 DEF SendStatus, ChannelInv, Told
    <3>3. broadcast' = [targets |-> broadcast.targets, todo |-> todo, reached |-> reached]
      BY <3>1, <3>2 DEF SendStatus
    <3>4. \A d \in broadcast.targets : d \in todo \/ d \in reached \/ ~Arrives(d)
      BY <3>1 DEF SendStatus, ChannelInv, Told
    <3>5. todo \subseteq Connections /\ reached \subseteq Connections
      BY <3>2
    <3>6. \A d \in Connections : Arrives(d)' <=> Arrives(d)
      BY <1>1 DEF Arrives, Stands
    <3>7. broadcast.targets \subseteq 1..current /\ broadcast.targets \subseteq Connections
          /\ \A d \in broadcast.targets : Reachable(conn[d])
      BY <3>1, <3>2 DEF SendStatus, ChannelInv, Told
    <3>8. /\ broadcast'.targets = broadcast.targets /\ broadcast'.todo = todo
          /\ broadcast'.reached = reached
          /\ broadcast' \in [targets : SUBSET Connections, todo : SUBSET Connections,
                             reached : SUBSET Connections]
      BY <3>3, <3>5, <3>7
    <3> HIDE DEF todo, reached
    <3> QED
      BY <1>1, <3>4, <3>6, <3>7, <3>8 DEF Told, hookVars
  <2>4. CASE EndBroadcast
    BY <2>4 DEF EndBroadcast, Told
  <2> QED
    BY <2>1, <2>2, <2>3, <2>4 DEF SiteKnown
<1> QED
  BY <1>2, <1>4, <1>5 DEF ChannelInv

LEMMA RestartKeepsInv ==
  ASSUME ChannelInv, RestartRealtime
  PROVE  ChannelInv'
<1>1. /\ registered' = {} /\ broadcast' = Nothing /\ UNCHANGED <<hookVars, known, changes>>
      /\ faults' = faults + 1 /\ faults < MaxFaults
  BY DEF RestartRealtime, Fault
<1> DEFINE r(c) == IF conn[c].realtime \in {"none", "failed"} THEN conn[c]
                   ELSE [conn[c] EXCEPT !.realtime = "ended"]
<1>2. conn' = [c \in Connections |-> r(c)]
  BY DEF RestartRealtime
<1>3. \A c \in Connections :
        /\ r(c) \in Connection
        /\ r(c).browser = conn[c].browser /\ r(c).asked = conn[c].asked
        /\ conn[c] = Unused => r(c) = Unused
        /\ Sound(conn[c]) => Sound(r(c))
  <2> SUFFICES ASSUME NEW c \in Connections
               PROVE  /\ r(c) \in Connection
                      /\ r(c).browser = conn[c].browser /\ r(c).asked = conn[c].asked
                      /\ conn[c] = Unused => r(c) = Unused
                      /\ Sound(conn[c]) => Sound(r(c))
    OBVIOUS
  <2>1. conn[c] \in Connection /\ Unused.realtime = "none"
    BY DEF ChannelInv, Made, Unused
  <2>2. CASE conn[c].realtime \in {"none", "failed"}
    BY <2>1, <2>2
  <2>3. CASE conn[c].realtime \notin {"none", "failed"}
    <3> DEFINE ended == [conn[c] EXCEPT !.realtime = "ended"]
    <3>1. ended \in Connection /\ ended.realtime = "ended" /\ ended.gateway = conn[c].gateway
          /\ ended.browser = conn[c].browser /\ ended.asked = conn[c].asked
          /\ ended.sent = conn[c].sent /\ ended.sites = conn[c].sites
      BY <2>1, SetRealtime, Zenon
    <3>2. r(c) = ended
      BY <2>3
    <3>3. conn[c] # Unused
      BY <2>1, <2>3
    <3> HIDE DEF ended, r
    <3>4. Sound(conn[c]) => Sound(ended)
      BY <2>3, <3>1 DEF Sound
    <3> QED
      BY <3>1, <3>2, <3>3, <3>4
  <2> QED
    BY <2>2, <2>3
<1> HIDE DEF r
<1>4. \A c \in Connections : conn'[c] = r(c)
  BY <1>2
<1>5. current' = current /\ current \in Connections
      /\ \A c \in 1..current : c \in Connections
  BY <1>1, InRange DEF hookVars
<1>6. Made'
  BY <1>2, <1>3, <1>4, <1>5 DEF ChannelInv, Made, Connections
<1>7. Budget'
  BY <1>1, <1>5, PushAssumption DEF ChannelInv, Budget
<1>8. Hook'
  <2>1. \A c \in 1..current : conn'[c].browser = conn[c].browser /\ conn'[c].asked = conn[c].asked
    BY <1>3, <1>4, <1>5
  <2>2. current \in 1..current /\ \A c \in 1..(current - 1) : c \in 1..current
    BY DEF ChannelInv, Budget
  <2> QED
    BY <1>1, <2>1, <2>2 DEF ChannelInv, Hook, hookVars
<1>9. Shown' /\ Registered' /\ Told'
  BY <1>1 DEF ChannelInv, Shown, Registered, Told, hookVars
<1> QED
  BY <1>6, <1>7, <1>8, <1>9 DEF ChannelInv

-----------------------------------------------------------------------------
LEMMA InitChannel == Init => ChannelInv
<1> SUFFICES ASSUME Init
             PROVE  ChannelInv
  OBVIOUS
<1>1. Last \in Nat /\ Last >= 1 /\ Connections = 1..Last /\ 1 \in Connections
      /\ MaxChanges \in Nat /\ MaxFaults \in Nat
  BY PushAssumption DEF Last, Connections
<1> DEFINE new == New({})
<1>2. new \in Connection /\ new.browser = "connecting" /\ new.gateway = "whoami"
      /\ new.realtime = "none" /\ new.asked = {} /\ new.sent = FALSE /\ new.sites = {}
      /\ Unused \in Connection
  BY NewTyped
<1>3. conn = [c \in Connections |-> IF c = 1 THEN new ELSE Unused]
  BY DEF Init
<1> HIDE DEF new
<1>4. conn[1] = new /\ conn \in [Connections -> Connection]
      /\ \A c \in Connections : c > 1 => conn[c] = Unused
  BY <1>1, <1>2, <1>3
<1>5. Sound(new) /\ ~Doomed(new)
  BY <1>2 DEF Sound, Doomed
<1>6. Made
  <2>1. \A c \in Connections : c <= 1 => c = 1
    BY <1>1
  <2> QED
    BY <1>4, <1>5, <2>1 DEF Init, Made
<1>7. Budget
  BY <1>1, <1>4, <1>5 DEF Init, Budget
<1>8. Hook
  <2>1. 1..(current - 1) = {}
    BY DEF Init
  <2>2. conn[current] = new /\ wanted = {} /\ label = "connecting" /\ ~connectedOnce /\ timer = FALSE
        /\ connectedOnce \in BOOLEAN
    BY <1>4 DEF Init
  <2> QED
    BY <1>2, <2>1, <2>2 DEF Hook
<1> QED
  BY <1>6, <1>7, <1>8 DEF Init, ChannelInv, Shown, Registered, Told

LEMMA NextChannel == ChannelInv /\ [Next]_vars => ChannelInv'
<1> SUFFICES ASSUME ChannelInv, [Next]_vars
             PROVE  ChannelInv'
  OBVIOUS
<1>1. CASE \E sites \in Selections : Reselect(sites)
  BY <1>1, SelectionKeepsInv
<1>2. CASE Reconnect
  BY <1>2, ReconnectKeepsInv
<1>3. ASSUME NEW c \in Connections,
             \/ Progress(c) \/ Push(c) \/ BreakNetwork(c) \/ ProxyFails(c)
             \/ SubscribeFails(c) \/ FirstPushFails(c) \/ PushFails(c) \/ SendStatus(c)
      PROVE  ChannelInv'
  BY <1>3, HookKeepsInv, GatewayKeepsInv, ServiceKeepsInv, SubscribeKeepsInv, PushKeepsInv,
     BroadcastKeepsInv DEF Progress
<1>4. CASE (\E s \in Sites : BeginBroadcast(s) \/ SiteKnown(s)) \/ EndBroadcast
  BY <1>4, BroadcastKeepsInv
<1>5. CASE RestartRealtime
  BY <1>5, RestartKeepsInv
<1>6. CASE UNCHANGED vars
  BY <1>6 DEF vars, hookVars, realtimeVars, ChannelInv, Made, Budget, Hook, Shown, Registered, Told,
              Arrives, Stands
<1> QED
  BY <1>1, <1>2, <1>3, <1>4, <1>5, <1>6 DEF Next

LEMMA ChannelHolds == Spec => []ChannelInv
BY InitChannel, NextChannel, PTL DEF Spec

\* A connection is in use exactly when it was made.
LEMMA ChannelTyped == ChannelInv => TypeOK
<1> SUFFICES ASSUME ChannelInv
             PROVE  TypeOK
  OBVIOUS
<1>1. current \in Connections
  BY InRange
<1>2. Unused.gateway = "none"
  BY DEF Unused
<1>3. \A c \in Connections : (conn[c] = Unused) <=> (c > current)
  BY <1>1, <1>2 DEF ChannelInv, Made, Sound, Budget, Connections
<1> QED
  BY <1>1, <1>3 DEF ChannelInv, Made, Connection, Budget, Hook, Shown, Registered, Told, TypeOK

\* Every variable has its type, and whatever the hook, the gateway and the
\* realtime service do, the hook has one socket or a timer that will make one
\* and tells whether it is connected (realtime.ts:58-92).
THEOREM HookKeepsOneSocket == Spec => []OneSocketOrTimer
<1>1. ChannelInv => OneSocketOrTimer
  BY ChannelTyped DEF ChannelInv, Hook, OneSocketOrTimer
<1> QED
  BY <1>1, ChannelHolds, PTL

\* Stats that arrive on the present socket are about the selection: a socket is
\* made for one selection, and a change of it makes another
\* (realtime.ts:48-95, websocket.py:80-92).
THEOREM StatsAreOfSelection == Spec => []StatsMatchSelection
<1>1. ChannelInv => StatsMatchSelection
  BY DEF ChannelInv, Shown, StatsMatchSelection
<1> QED
  BY <1>1, ChannelHolds, PTL

\* A broadcast that has come to its end has reached every dashboard registered
\* for the site whose connection still stands (websocket.py:99-112).
THEOREM StatusReachesAll == Spec => []BroadcastReachesAll
<1>1. ChannelInv => BroadcastReachesAll
  BY DEF ChannelInv, Told, BroadcastReachesAll
<1> QED
  BY <1>1, ChannelHolds, PTL
=============================================================================
