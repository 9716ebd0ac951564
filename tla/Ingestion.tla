----------------------------- MODULE Ingestion ------------------------------
(***************************************************************************)
(* The ingestion service (services/ingestion/src): a UDP listener starts a *)
(* task for each datagram, which parses it, asks identity for the site of  *)
(* its exporter through a cache (attribution.py) and publishes its flows   *)
(* one by one on a producer that all tasks share (producer.py).            *)
(*                                                                         *)
(* The tasks run on one event loop: the code between two awaits is a step. *)
(* Time is a number of ticks since something happened, which stops at Cap: *)
(* all that is ever asked of it is whether it is below _CACHE_TTL_SECONDS. *)
(***************************************************************************)
EXTENDS Naturals, Sequences, TLC

CONSTANTS
  Exporters,
  Sites,
  NoSite,      \* None: no site is onboarded for an exporter
  Tasks,       \* bound: datagrams being processed at one time
  Fields,      \* what addresses, protocol and counts a record may have
  Datagrams,   \* the datagrams that may come in
  TTL,         \* _CACHE_TTL_SECONDS, in ticks
  Cap,         \* bound: where times stop
  MaxFaults,   \* bound: how often something goes wrong
  Disruptions  \* what may go wrong besides the normal operations

-----------------------------------------------------------------------------
(* netflow_v5.py, and the events made of its flows (producer.py) *)

HEADER_LEN == 24
RECORD_LEN == 48

\* The ports that tell an application.
PORT_APPLICATIONS ==
  [p \in {20, 21} |-> "FTP"] @@ [p \in {67, 68} |-> "DHCP"] @@
  22 :> "SSH" @@ 23 :> "TELNET" @@ 25 :> "SMTP" @@ 53 :> "DNS" @@ 80 :> "HTTP" @@
  110 :> "POP3" @@ 123 :> "NTP" @@ 143 :> "IMAP" @@ 443 :> "HTTPS" @@ 445 :> "SMB" @@
  3306 :> "MYSQL" @@ 3389 :> "RDP" @@ 5432 :> "POSTGRESQL" @@ 8080 :> "HTTP-ALT"

Port == 0..65535

\* A record of a datagram: its ports, and all its other fields in one.
Record == [fields : Fields, src_port : Port, dst_port : Port]

\* The destination's port decides, then the source's.
GuessApplication(dst_port, src_port) ==
  CASE dst_port \in DOMAIN PORT_APPLICATIONS -> PORT_APPLICATIONS[dst_port]
    [] dst_port \notin DOMAIN PORT_APPLICATIONS /\ src_port \in DOMAIN PORT_APPLICATIONS ->
         PORT_APPLICATIONS[src_port]
    [] OTHER -> "OTHER"

\* parse_packet() raises MalformedPacketError.
Malformed(d) ==
  \/ d.length < HEADER_LEN
  \/ d.version # 5
  \/ d.length < HEADER_LEN + d.count * RECORD_LEN

\* The flow that parse_packet() makes of a record.
ParsedFlow(r) ==
  [fields |-> r.fields, ports |-> <<r.src_port, r.dst_port>>,
   application |-> GuessApplication(r.dst_port, r.src_port)]

\* ParsedPacket.flows: as many as the header announces.  What follows is ignored.
Flows(d) == [i \in 1..d.count |-> ParsedFlow(d.records[i])]

\* build_event(): the flow at its site and at the time of the datagram's header.
BuildEvent(flow, site, d) == [site_id |-> site, observed_at |-> d.unix_secs, flow |-> flow]

ASSUME ConstantsAssumption ==
  /\ NoSite \notin Sites
  /\ \A d \in Datagrams :
       /\ {d.length, d.version, d.count, d.unix_secs} \subseteq Nat
       /\ d.records \in Seq(Record)
       /\ d.length >= HEADER_LEN => Len(d.records) = (d.length - HEADER_LEN) \div RECORD_LEN
  /\ TTL \in Nat \ {0} /\ Cap \in Nat /\ Cap >= TTL /\ MaxFaults \in Nat
  /\ Disruptions \subseteq {"identity", "start", "broker", "restart"}

VARIABLES
  siteOf,    \* identity's site of each network_identity
  task,      \* what _process_packet() is doing for each datagram, and its locals
  cache,     \* _cache; age: how long ago "now" was read
  producer,  \* _producer: none, or published and starting, started or not started
  counted,   \* the counter of metrics that the last step has incremented, if any,
             \* and the event it has published
  ago,       \* history: how long ago each answer was true of each exporter
  faults     \* how often something has gone wrong

vars == <<siteOf, task, cache, producer, counted, ago, faults>>

Answers == Sites \cup {NoSite}
Nothing == <<>>
Counted(counter) == <<counter>>
Later(time) == IF time < Cap THEN time + 1 ELSE Cap

-----------------------------------------------------------------------------
Free == [step |-> "free"]

Init ==
  /\ siteOf \in [Exporters -> Answers]
  /\ task = [t \in Tasks |-> Free]
  /\ cache = [e \in {} |-> 0]
  /\ producer = "none"
  /\ counted = Nothing
  /\ ago = [e \in Exporters |-> [a \in Answers |-> IF a = siteOf[e] THEN 0 ELSE Cap]]
  /\ faults = 0

Fault(kind) ==
  /\ kind \in Disruptions
  /\ faults < MaxFaults
  /\ faults' = faults + 1

\* Task t is over: it has returned or an exception has ended it.
End(t) == task' = [task EXCEPT ![t] = Free]

At(t, step) == task[t].step = step

\* An entry that attribute_site() uses.
Hit(e) == e \in DOMAIN cache /\ cache[e].age < TTL

PublishAfterStart(t, site, flows, sent) ==
  IF flows = <<>> THEN End(t) /\ UNCHANGED producer
  ELSE /\ task' = [task EXCEPT ![t] =
            [@ EXCEPT !.step = IF producer = "started" THEN "send" ELSE "start",
                      !.age = 0, !.site = site, !.flows = flows, !.sent = sent]]
       /\ UNCHANGED producer

PublishWithoutStart(t, site, flows, sent) ==
  IF flows = <<>> THEN End(t) /\ UNCHANGED producer
  ELSE /\ task' = [task EXCEPT ![t] =
            [@ EXCEPT !.step = "send", !.age = 0, !.site = site, !.flows = flows, !.sent = sent]]
       /\ producer' = IF producer = "none" THEN "starting" ELSE producer

\* The loop of _process_packet() goes on, with the flows that are left of those
\* of its datagram, after it has sent some events: get_producer() makes _producer
\* before it awaits its start(), and the task sends at once on one that another
\* task has made.
Publish(t, site, flows, sent) ==
  IF flows = <<>> THEN End(t) /\ UNCHANGED producer
  ELSE /\ task' = [task EXCEPT ![t] =
            [@ EXCEPT !.step = IF producer = "none" THEN "start" ELSE "send",
                      !.age = 0, !.site = site, !.flows = flows, !.sent = sent]]
       /\ producer' = IF producer = "none" THEN "starting" ELSE producer

\* The answer of attribute_site() is there; the flows of None are dropped.
Attributed(t, site) ==
  IF site = NoSite THEN End(t) /\ UNCHANGED producer
  ELSE Publish(t, site, Flows(task[t].datagram), <<>>)

-----------------------------------------------------------------------------
(* listener.py and attribution.py *)

\* datagram_received() starts a task.
Receive(t, e, d) ==
  /\ task[t] = Free
  /\ task' = [task EXCEPT ![t] =
       [step |-> "new", exporter |-> e, datagram |-> d, age |-> 0, site |-> NoSite,
        flows |-> <<>>, sent |-> <<>>]]
  /\ counted' = Counted("received")
  /\ UNCHANGED <<siteOf, cache, producer, ago, faults>>

BeginRenewing(t) ==
  /\ At(t, "new")
  /\ LET e == task[t].exporter
     IN IF Malformed(task[t].datagram)
        THEN End(t) /\ counted' = Counted("malformed") /\ UNCHANGED <<producer, cache>>
        ELSE /\ IF Hit(e)
                THEN Attributed(t, cache[e].site) /\ cache' = [cache EXCEPT ![e].age = 0]
                ELSE /\ task' = [task EXCEPT ![t].step = "lookup", ![t].age = 0]
                     /\ UNCHANGED <<producer, cache>>
             /\ counted' = Nothing
  /\ UNCHANGED <<siteOf, ago, faults>>

\* The task runs: it rejects its datagram, finds the exporter in the cache, or
\* asks identity.
Begin(t) ==
  /\ At(t, "new")
  /\ LET e == task[t].exporter
     IN IF Malformed(task[t].datagram)
        THEN End(t) /\ counted' = Counted("malformed") /\ UNCHANGED producer
        ELSE /\ IF Hit(e) THEN Attributed(t, cache[e].site)
                ELSE /\ task' = [task EXCEPT ![t].step = "lookup", ![t].age = 0]
                     /\ UNCHANGED producer
             /\ counted' = Nothing
  /\ UNCHANGED <<siteOf, cache, ago, faults>>

\* Identity answers; its answer is under way.
Lookup(t) ==
  /\ At(t, "lookup")
  /\ task' = [task EXCEPT ![t].step = "answer", ![t].site = siteOf[task[t].exporter]]
  /\ counted' = Nothing
  /\ UNCHANGED <<siteOf, cache, producer, ago, faults>>

\* The request fails or times out: attribute_site() goes on with None.
LookupFails(t) ==
  /\ At(t, "lookup")
  /\ Fault("identity")
  /\ task' = [task EXCEPT ![t].step = "answer", ![t].site = NoSite]
  /\ ago' = [ago EXCEPT ![task[t].exporter][NoSite] = 0]
  /\ counted' = Nothing
  /\ UNCHANGED <<siteOf, cache, producer>>

StampedAfter(t) ==
  /\ At(t, "answer")
  /\ cache' = [e \in DOMAIN cache \cup {task[t].exporter} |->
       IF e = task[t].exporter THEN [site |-> task[t].site, age |-> 0] ELSE cache[e]]
  /\ Attributed(t, task[t].site)
  /\ counted' = IF task[t].site = NoSite THEN Counted("unattributed") ELSE Nothing
  /\ UNCHANGED <<siteOf, ago, faults>>

\* The answer arrives: it is cached with the time at which the task asked.
Attribute(t) ==
  /\ At(t, "answer")
  /\ cache' = [e \in DOMAIN cache \cup {task[t].exporter} |->
       IF e = task[t].exporter THEN [site |-> task[t].site, age |-> task[t].age] ELSE cache[e]]
  /\ Attributed(t, task[t].site)
  /\ counted' = IF task[t].site = NoSite THEN Counted("unattributed") ELSE Nothing
  /\ UNCHANGED <<siteOf, ago, faults>>

-----------------------------------------------------------------------------
(* producer.py *)

\* get_producer(): start() has connected to the broker.
ProducerStarts(t) ==
  /\ At(t, "start")
  /\ producer' = "started"
  /\ task' = [task EXCEPT ![t].step = "send"]
  /\ counted' = Nothing
  /\ UNCHANGED <<siteOf, cache, ago, faults>>

\* start() raises, which ends the task; _producer stays what it is.
StartFails(t) ==
  /\ At(t, "start")
  /\ Fault("start")
  /\ producer' = "unstarted"
  /\ End(t)
  /\ counted' = Nothing
  /\ UNCHANGED <<siteOf, cache, ago>>

SentReattributed(t) ==
  /\ At(t, "send") /\ producer = "started"
  /\ LET e == task[t].exporter
         event == BuildEvent(Head(task[t].flows), IF Hit(e) THEN cache[e].site ELSE task[t].site,
                             task[t].datagram)
     IN /\ counted' = <<"published", event>>
        /\ Publish(t, task[t].site, Tail(task[t].flows), Append(task[t].sent, event))
  /\ UNCHANGED <<siteOf, cache, ago, faults>>

\* send_and_wait() returns. On a producer that has not started it waits.
Sent(t) ==
  /\ At(t, "send") /\ producer = "started"
  /\ LET event == BuildEvent(Head(task[t].flows), task[t].site, task[t].datagram)
     IN /\ counted' = <<"published", event>>
        /\ Publish(t, task[t].site, Tail(task[t].flows), Append(task[t].sent, event))
  /\ UNCHANGED <<siteOf, cache, ago, faults>>

\* send_and_wait() raises, which ends the task and what is left of its datagram.
SendFails(t) ==
  /\ At(t, "send")
  /\ Fault("broker")
  /\ End(t)
  /\ counted' = Nothing
  /\ UNCHANGED <<siteOf, cache, producer, ago>>

-----------------------------------------------------------------------------
(* The environment *)

\* A site is onboarded for an exporter or deleted, in identity.
ChangeSite(e, site) ==
  /\ siteOf[e] # site
  /\ siteOf' = [siteOf EXCEPT ![e] = site]
  /\ ago' = [ago EXCEPT ![e][site] = 0]
  /\ counted' = Nothing
  /\ UNCHANGED <<task, cache, producer, faults>>

Tick ==
  /\ task' = [t \in Tasks |->
       IF At(t, "lookup") \/ At(t, "answer") THEN [task[t] EXCEPT !.age = Later(@)] ELSE task[t]]
  /\ cache' = [e \in DOMAIN cache |-> [cache[e] EXCEPT !.age = Later(@)]]
  /\ ago' = [e \in Exporters |-> [a \in Answers |->
       IF a = siteOf[e] THEN 0 ELSE Later(ago[e][a])]]
  /\ counted' = Nothing
  /\ UNCHANGED <<siteOf, producer, faults>>

\* The process ends, with every task on it, and starts again.
Restart ==
  /\ Fault("restart")
  /\ task' = [t \in Tasks |-> Free]
  /\ cache' = [e \in {} |-> 0]
  /\ producer' = "none"
  /\ counted' = Nothing
  /\ UNCHANGED <<siteOf, ago>>

-----------------------------------------------------------------------------
Await(t) ==
  Lookup(t) \/ LookupFails(t) \/ ProducerStarts(t) \/ StartFails(t) \/ Sent(t) \/ SendFails(t)

TaskStep(t) == Begin(t) \/ Await(t) \/ Attribute(t)

Next ==
  \/ \E t \in Tasks : TaskStep(t) \/ (\E e \in Exporters, d \in Datagrams : Receive(t, e, d))
  \/ \E e \in Exporters, site \in Answers : ChangeSite(e, site)
  \/ Tick
  \/ Restart

Spec == Init /\ [][Next]_vars

\* The loop runs every task that can run, each request has a timeout, and time
\* goes on.
Fairness == WF_vars(Tick) /\ \A t \in Tasks : WF_vars(TaskStep(t))

FairSpec == Spec /\ Fairness

-----------------------------------------------------------------------------
(* Properties *)

Flow == [fields : Fields, ports : Port \X Port,
         application : {"OTHER"} \cup {PORT_APPLICATIONS[p] : p \in DOMAIN PORT_APPLICATIONS}]
Event == [site_id : Sites, observed_at : {d.unix_secs : d \in Datagrams}, flow : Flow]

\* Every variable has its type, and one task starts the producer.
TypeOK ==
  /\ siteOf \in [Exporters -> Answers]
  /\ task \in [Tasks -> {Free} \cup
       [step : {"new", "lookup", "answer", "start", "send"}, exporter : Exporters,
        datagram : Datagrams, age : 0..Cap, site : Answers, flows : Seq(Flow), sent : Seq(Event)]]
  /\ DOMAIN cache \subseteq Exporters
  /\ \A e \in DOMAIN cache : cache[e] \in [site : Answers, age : 0..Cap]
  /\ producer \in {"none", "starting", "started", "unstarted"}
  /\ {t \in Tasks : At(t, "start")} # {} <=> producer = "starting"
  /\ \A t, u \in Tasks : At(t, "start") /\ At(u, "start") => t = u
  /\ counted \in {Nothing} \cup {Counted(c) : c \in {"received", "malformed", "unattributed"}}
              \cup ({"published"} \X Event)
  /\ ago \in [Exporters -> [Answers -> 0..Cap]]
  /\ faults \in 0..MaxFaults

\* In this step, which is no restart, attribute_site() answers task t with site.
Verdict(t, site) ==
  /\ At(t, "new") \/ At(t, "answer")
  /\ faults' = faults
  /\ ~Malformed(task[t].datagram) /\ task[t].datagram.count > 0
  /\ IF site = NoSite THEN task'[t] = Free
     ELSE task'[t] # Free /\ task'[t].step \in {"start", "send"} /\ task'[t].site = site

\* Flows are attributed to, or dropped for want of, a site that was the answer
\* less than _CACHE_TTL_SECONDS ago or since the task asked, however long the
\* lookups of several tasks take and in whatever order their answers come
\* (attribution.py:22-40).
AttributedRecently ==
  [][\A t \in Tasks, site \in Answers :
       Verdict(t, site) =>
         LET past == ago[task[t].exporter][site]
         IN past < TTL \/ past <= task[t].age]_vars

\* What task t has sent when this step is done.
SentBy(t) == task[t].sent \o SubSeq(counted', 2, Len(counted'))

\* A task that nothing goes wrong for has sent each of the records its datagram
\* announces, once, in their order and at one site, although the cache changes
\* while it sends them; or it has sent nothing, and the datagram is counted.
\* Only one dropped for an answer that was cached already is not counted
\* (listener.py:36-52, netflow_v5.py:115-157, attribution.py:24, 40-41).
DatagramsAccounted ==
  [][\A t \in Tasks :
       task[t] # Free /\ task'[t] = Free /\ faults' = faults =>
         LET d == task[t].datagram
             e == task[t].exporter
         IN IF Malformed(d) THEN SentBy(t) = <<>> /\ counted' = Counted("malformed")
            ELSE \/ \E site \in Sites :
                      SentBy(t) = [i \in 1..d.count |-> BuildEvent(ParsedFlow(d.records[i]), site, d)]
                 \/ /\ SentBy(t) = <<>>
                    /\ counted' = Counted("unattributed") \/ (Hit(e) /\ cache[e].site = NoSite)]_vars

\* Every datagram's task comes to an end, whatever lookups, the broker and other
\* tasks do: a producer that one task makes gets started, or its start() is seen to
\* fail.  In that last case, which nothing but a restart mends, the tasks that send
\* wait for ever (listener.py:36-52, producer.py:21-26).
TasksEnd ==
  \A t \in Tasks :
    ~(task[t] = Free) ~> (task[t] = Free \/ (At(t, "send") /\ producer = "unstarted"))

\* When the site of an exporter no longer changes, the cache comes to agree with
\* it, also after lookups that failed or were overtaken (attribution.py:22-40).
OnboardingTakesEffect ==
  \A e \in Exporters, site \in Answers :
    <>[](siteOf[e] = site) => <>[](Hit(e) => cache[e].site = site)
=============================================================================
