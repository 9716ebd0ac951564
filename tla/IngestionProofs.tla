-------------------------- MODULE IngestionProofs ---------------------------
(***************************************************************************)
(* Proofs, for any exporters, sites, datagrams and numbers of tasks and    *)
(* faults, that the listener accounts for every datagram and attributes    *)
(* its flows to a site that was the exporter's not long ago.               *)
(***************************************************************************)
EXTENDS Ingestion, SequenceTheorems, TLAPS

\* What task[t] may be while the task works.
Busy ==
  [step : {"new", "lookup", "answer", "start", "send"}, exporter : Exporters,
   datagram : Datagrams, age : 0..Cap, site : Answers, flows : Seq(Flow), sent : Seq(Event)]

\* The events sent and the flows left are together those of the datagram, in order.
Progress(site, flows, sent, d) ==
  /\ site \in Sites /\ flows \in Seq(Flow) /\ sent \in Seq(Event)
  /\ Len(sent) + Len(flows) = d.count
  /\ \A i \in 1..Len(sent) : sent[i] = BuildEvent(ParsedFlow(d.records[i]), site, d)
  /\ \A i \in 1..Len(flows) : flows[i] = ParsedFlow(d.records[Len(sent) + i])

\* What the locals of a task are worth at each of its awaits.
Sound(k) ==
  /\ k.step \in {"new", "lookup", "answer"} => k.sent = <<>>
  /\ k.step \in {"lookup", "answer", "start", "send"} => ~Malformed(k.datagram)
  /\ k.step \in {"start", "send"} =>
       k.flows # <<>> /\ Progress(k.site, k.flows, k.sent, k.datagram)

TasksSound == \A t \in Tasks : Sound(task[t])

\* An answer in the cache, or on its way to a task, was true of the exporter when
\* it was asked for or later.
AnswersDated ==
  /\ \A e \in Exporters : ago[e][siteOf[e]] = 0
  /\ \A e \in DOMAIN cache : ago[e][cache[e].site] <= cache[e].age
  /\ \A t \in Tasks : At(t, "answer") => ago[task[t].exporter][task[t].site] <= task[t].age

\* Neither part holds without the other: what a task has sent is in order only
\* because it began with all the flows of a whole datagram, and an answer is
\* dated when it is cached only because it was while it was under way.
IInv == TypeOK /\ TasksSound /\ AnswersDated

-----------------------------------------------------------------------------
(* The parser's operators *)

\* A datagram that is not rejected has all the records that its header announces.
LEMMA RecordsSuffice ==
  ASSUME NEW d \in Datagrams, ~Malformed(d)
  PROVE  d.count \in Nat /\ \A i \in 1..d.count : d.records[i] \in Record
<1>1. d.length \in Nat /\ d.count \in Nat /\ d.records \in Seq(Record)
  BY ConstantsAssumption
<1>2. d.length >= 24 + d.count * 48
  BY <1>1 DEF Malformed, HEADER_LEN, RECORD_LEN
<1>3. d.length >= 24 /\ Len(d.records) = (d.length - 24) \div 48
  BY <1>1, <1>2, ConstantsAssumption DEF HEADER_LEN, RECORD_LEN
<1>4. d.count <= (d.length - 24) \div 48
  BY <1>1, <1>2
<1>5. d.count <= Len(d.records) /\ Len(d.records) \in Nat
  BY <1>1, <1>3, <1>4, LenProperties
<1>6. \A i \in 1..Len(d.records) : d.records[i] \in Record
  BY <1>1, ElementOfSeq
<1> QED
  BY <1>1, <1>5, <1>6

LEMMA ParsedFlowType ==
  ASSUME NEW r \in Record
  PROVE  ParsedFlow(r) \in Flow
<1>1. GuessApplication(r.dst_port, r.src_port)
        \in {"OTHER"} \cup {PORT_APPLICATIONS[p] : p \in DOMAIN PORT_APPLICATIONS}
  <2> DEFINE known == DOMAIN PORT_APPLICATIONS
  <2>1. CASE r.dst_port \in known
    BY <2>1, Zenon DEF GuessApplication
  <2>2. CASE r.dst_port \notin known /\ r.src_port \in known
    BY <2>2, Zenon DEF GuessApplication
  <2>3. CASE r.dst_port \notin known /\ r.src_port \notin known
    BY <2>3, Zenon DEF GuessApplication
  <2> QED
    BY <2>1, <2>2, <2>3
<1>2. r.fields \in Fields /\ r.src_port \in Port /\ r.dst_port \in Port
  BY DEF Record
<1> QED
  BY <1>1, <1>2, Zenon DEF ParsedFlow, Flow

\* A task begins to publish with nothing sent and all the flows left.
LEMMA FlowsBegin ==
  ASSUME NEW d \in Datagrams, ~Malformed(d), NEW site \in Sites
  PROVE  /\ Progress(site, Flows(d), <<>>, d)
         /\ Len(Flows(d)) = d.count
         /\ d.count = 0 <=> Flows(d) = <<>>
<1>1. d.count \in Nat /\ \A i \in 1..d.count : ParsedFlow(d.records[i]) \in Flow
  BY RecordsSuffice, ParsedFlowType
<1>2. Flows(d) \in [1..d.count -> Flow] /\ \A i \in 1..d.count : Flows(d)[i] = ParsedFlow(d.records[i])
  BY <1>1 DEF Flows
<1>3. Flows(d) \in Seq(Flow) /\ Len(Flows(d)) = d.count
  <2>1. \A n \in Nat : \A f \in [1..n -> Flow] : f \in Seq(Flow) /\ Len(f) = n
    OBVIOUS
  <2> QED
    BY <1>1, <1>2, <2>1
<1>4. <<>> \in Seq(Event) /\ Len(<<>>) = 0 /\ (Flows(d) # <<>> => Len(Flows(d)) \in Nat \ {0})
  BY <1>3, EmptySeq
<1> QED
  BY <1>1, <1>2, <1>3, <1>4 DEF Progress

LEMMA EventType ==
  ASSUME NEW flow \in Flow, NEW site \in Sites, NEW d \in Datagrams
  PROVE  BuildEvent(flow, site, d) \in Event
BY DEF BuildEvent, Event

\* One event more is sent, and it is the next.
LEMMA SentGoesOn ==
  ASSUME NEW d \in Datagrams, NEW site, NEW flows, NEW sent,
         Progress(site, flows, sent, d), flows # <<>>
  PROVE  LET event == BuildEvent(Head(flows), site, d)
         IN event \in Event /\ Progress(site, Tail(flows), Append(sent, event), d)
<1> DEFINE event == BuildEvent(Head(flows), site, d)
<1>1. /\ Head(flows) \in Flow /\ Tail(flows) \in Seq(Flow) /\ Len(Tail(flows)) = Len(flows) - 1
      /\ \A i \in 1..Len(Tail(flows)) : Tail(flows)[i] = flows[i + 1]
  BY HeadTailProperties DEF Progress
<1>2. event \in Event
  BY <1>1, EventType DEF Progress
<1>3. /\ Append(sent, event) \in Seq(Event) /\ Len(Append(sent, event)) = Len(sent) + 1
      /\ \A i \in 1..Len(sent) : Append(sent, event)[i] = sent[i]
      /\ Append(sent, event)[Len(sent) + 1] = event
  BY <1>2, AppendProperties DEF Progress
<1>4. Len(flows) \in Nat \ {0} /\ Len(sent) \in Nat
  BY EmptySeq, LenProperties DEF Progress
<1>5. Head(flows) = flows[1] /\ flows[1] = ParsedFlow(d.records[Len(sent) + 1])
  BY <1>4 DEF Progress
<1>6. \A i \in 1..Len(Tail(flows)) :
        Tail(flows)[i] = ParsedFlow(d.records[Len(Append(sent, event)) + i])
  <2> SUFFICES ASSUME NEW i \in 1..Len(Tail(flows))
               PROVE  Tail(flows)[i] = ParsedFlow(d.records[Len(Append(sent, event)) + i])
    OBVIOUS
  <2>1. i + 1 \in 1..Len(flows) /\ Len(sent) + (i + 1) = Len(Append(sent, event)) + i
    BY <1>1, <1>3, <1>4
  <2>2. flows[i + 1] = ParsedFlow(d.records[Len(sent) + (i + 1)])
    BY <2>1 DEF Progress
  <2> QED
    BY <1>1, <2>1, <2>2
<1>7. \A i \in 1..Len(Append(sent, event)) :
        Append(sent, event)[i] = BuildEvent(ParsedFlow(d.records[i]), site, d)
  <2> SUFFICES ASSUME NEW i \in 1..Len(Append(sent, event))
               PROVE  Append(sent, event)[i] = BuildEvent(ParsedFlow(d.records[i]), site, d)
    OBVIOUS
  <2>1. CASE i \in 1..Len(sent)
    BY <2>1, <1>3 DEF Progress
  <2>2. CASE i = Len(sent) + 1
    BY <2>2, <1>3, <1>5
  <2> QED
    BY <1>3, <1>4, <2>1, <2>2
<1>8. Len(Append(sent, event)) + Len(Tail(flows)) = d.count
  BY <1>1, <1>3, <1>4 DEF Progress
<1> QED
  BY <1>1, <1>2, <1>3, <1>6, <1>7, <1>8 DEF Progress

\* When no flow is left, the datagram has been sent as it is.
LEMMA SentWhole ==
  ASSUME NEW d \in Datagrams, NEW site, NEW sent, Progress(site, <<>>, sent, d)
  PROVE  sent = [i \in 1..d.count |-> BuildEvent(ParsedFlow(d.records[i]), site, d)]
<1>1. Len(sent) = d.count /\ DOMAIN sent = 1..Len(sent) /\ sent \in [1..Len(sent) -> Event]
  BY LenProperties, EmptySeq DEF Progress
<1> QED
  BY <1>1 DEF Progress

-----------------------------------------------------------------------------
(* A step of one task *)

\* At most one task awaits start(), and the producer is starting just then.
StartedByOne ==
  /\ {t \in Tasks : At(t, "start")} # {} <=> producer = "starting"
  /\ \A t, u \in Tasks : At(t, "start") /\ At(u, "start") => t = u

\* Task t becomes k and leaves the producer as that says: it has nothing to do
\* with its start(), begins to await it, or has done so.
Becomes(t, k) ==
  /\ k \in {Free} \cup Busy
  /\ task' = [task EXCEPT ![t] = k]
  /\ Sound(k)
  /\ producer' \in {"none", "starting", "started", "unstarted"}
  /\ \/ k.step # "start" /\ ~At(t, "start") /\ (producer' = "starting" <=> producer = "starting")
     \/ k.step = "start" /\ ~At(t, "start") /\ producer # "starting" /\ producer' = "starting"
     \/ k.step # "start" /\ At(t, "start") /\ producer' # "starting"

LEMMA FreeIsSound == Free.step = "free" /\ Sound(Free)
BY DEF Free, Sound

LEMMA TaskTypes ==
  ASSUME TypeOK
  PROVE  /\ task \in [Tasks -> {Free} \cup Busy]
         /\ \A t \in Tasks : task[t].step # "free" => task[t] \in Busy
         /\ \A t \in Tasks : task[t] # Free => task[t] \in Busy
         /\ StartedByOne
<1>1. task \in [Tasks -> {Free} \cup Busy]
  BY DEF TypeOK, Busy
<1>2. Free.step = "free"
  BY FreeIsSound
<1>3. StartedByOne
  BY DEF TypeOK, StartedByOne
<1> QED
  BY <1>1, <1>2, <1>3

LEMMA BecomesKeepsTasks ==
  ASSUME IInv, NEW t \in Tasks, NEW k, Becomes(t, k)
  PROVE  /\ task' \in [Tasks -> {Free} \cup Busy]
         /\ StartedByOne'
         /\ TasksSound'
<1>1. task \in [Tasks -> {Free} \cup Busy] /\ StartedByOne
  BY TaskTypes DEF IInv
<1>2. task'[t] = k /\ \A u \in Tasks \ {t} : task'[u] = task[u]
  BY <1>1 DEF Becomes
<1>3. task' \in [Tasks -> {Free} \cup Busy]
  BY <1>1 DEF Becomes
<1>4. TasksSound'
  BY <1>2 DEF Becomes, IInv, TasksSound
<1>5. \A u \in Tasks : At(u, "start")' <=> IF u = t THEN k.step = "start" ELSE At(u, "start")
  BY <1>2 DEF At
<1>6. StartedByOne'
  <2>1. CASE k.step # "start" /\ ~At(t, "start") /\ (producer' = "starting" <=> producer = "starting")
    <3>1. \A u \in Tasks : At(u, "start")' <=> At(u, "start")
      BY <2>1, <1>5
    <3> QED
      BY <2>1, <3>1, <1>1 DEF StartedByOne
  <2>2. CASE k.step = "start" /\ ~At(t, "start") /\ producer # "starting" /\ producer' = "starting"
    <3>1. \A u \in Tasks : ~At(u, "start")
      BY <2>2, <1>1 DEF StartedByOne
    <3>2. \A u \in Tasks : At(u, "start")' <=> u = t
      BY <2>2, <1>5, <3>1
    <3> QED
      BY <2>2, <3>2 DEF StartedByOne
  <2>3. CASE k.step # "start" /\ At(t, "start") /\ producer' # "starting"
    <3>1. \A u \in Tasks : At(u, "start") => u = t
      BY <2>3, <1>1 DEF StartedByOne
    <3>2. \A u \in Tasks : ~At(u, "start")'
      BY <2>3, <1>5, <3>1
    <3> QED
      BY <2>3, <3>2 DEF StartedByOne
  <2> QED
    BY <2>1, <2>2, <2>3 DEF Becomes
<1> QED
  BY <1>3, <1>4, <1>6

LEMMA EndBecomes ==
  ASSUME IInv, NEW t \in Tasks, End(t),
         producer' \in {"none", "starting", "started", "unstarted"},
         At(t, "start") => producer' # "starting",
         ~At(t, "start") => producer' = producer
  PROVE  Becomes(t, Free)
<1>1. Free.step # "start" /\ Sound(Free)
  BY FreeIsSound
<1> QED
  BY <1>1 DEF End, Becomes

\* Where the loop of _process_packet() goes on, the task ends with its last flow,
\* or awaits the producer with what is left.
LEMMA PublishBecomes ==
  ASSUME IInv, NEW t \in Tasks, task[t] # Free, ~At(t, "start"), ~Malformed(task[t].datagram),
         NEW site, NEW flows, NEW sent, Progress(site, flows, sent, task[t].datagram),
         Publish(t, site, flows, sent)
  PROVE  \E k : /\ Becomes(t, k) /\ k.step # "answer"
               /\ IF flows = <<>> THEN k = Free
                  ELSE k # Free /\ k.step \in {"start", "send"} /\ k.site = site
<1>1. task[t] \in Busy /\ producer \in {"none", "starting", "started", "unstarted"} /\ Cap \in Nat
  BY TaskTypes, ConstantsAssumption DEF IInv, TypeOK
<1>2. CASE flows = <<>>
  <2>1. Becomes(t, Free)
    BY <1>1, <1>2, EndBecomes DEF Publish
  <2> QED
    BY <1>2, <2>1, FreeIsSound
<1>3. CASE flows # <<>>
  <2> DEFINE next == IF producer = "none" THEN "start" ELSE "send"
             k == [task[t] EXCEPT !.step = next, !.age = 0, !.site = site, !.flows = flows,
                                  !.sent = sent]
  <2>1. /\ task' = [task EXCEPT ![t] = k]
        /\ producer' = IF producer = "none" THEN "starting" ELSE producer
    BY <1>3 DEF Publish
  <2>2. site \in Answers /\ flows \in Seq(Flow) /\ sent \in Seq(Event)
    BY DEF Progress, Answers
  <2>3. /\ k \in Busy /\ k.step = next /\ k.site = site /\ k.flows = flows /\ k.sent = sent
        /\ k.datagram = task[t].datagram
    <3>1. next \in {"start", "send"}
      OBVIOUS
    <3> HIDE DEF next
    <3>2. 0 \in 0..Cap
      BY <1>1
    <3> QED
      BY <1>1, <2>2, <3>1, <3>2 DEF Busy
  <2>4. Sound(k)
    <3>1. next \in {"start", "send"}
      OBVIOUS
    <3> HIDE DEF next, k
    <3> QED
      BY <2>3, <3>1, <1>3 DEF Sound
  <2>5. Becomes(t, k)
    <3> HIDE DEF k
    <3> QED
      BY <1>1, <2>1, <2>3, <2>4 DEF Becomes
  <2>6. k # Free
    <3> HIDE DEF k
    <3> QED
      BY <2>3, FreeIsSound
  <2> HIDE DEF k
  <2> QED
    BY <1>3, <2>3, <2>5, <2>6
<1> QED
  BY <1>2, <1>3

\* Whatever answer attribute_site() gives, the flows are dropped or begin to go out.
LEMMA AttributedBecomes ==
  ASSUME IInv, NEW t \in Tasks, At(t, "new") \/ At(t, "answer"), ~Malformed(task[t].datagram),
         NEW site \in Answers, Attributed(t, site)
  PROVE  \E k : /\ Becomes(t, k) /\ k.step # "answer"
               /\ IF site = NoSite \/ task[t].datagram.count = 0 THEN k = Free
                  ELSE k # Free /\ k.step \in {"start", "send"} /\ k.site = site
<1> DEFINE d == task[t].datagram
<1>1. task[t] \in Busy /\ task[t] # Free /\ ~At(t, "start") /\ d \in Datagrams
  BY TaskTypes, FreeIsSound DEF IInv, At, Busy
<1>2. CASE site = NoSite
  <2>1. Becomes(t, Free)
    BY <1>1, <1>2, EndBecomes DEF Attributed, IInv, TypeOK
  <2> QED
    BY <1>2, <2>1, FreeIsSound
<1>3. CASE site # NoSite
  <2>1. site \in Sites /\ Publish(t, site, Flows(d), <<>>)
    BY <1>3 DEF Attributed, Answers
  <2>2. Progress(site, Flows(d), <<>>, d) /\ (d.count = 0 <=> Flows(d) = <<>>)
    BY <1>1, <2>1, FlowsBegin
  <2>3. \E k : /\ Becomes(t, k) /\ k.step # "answer"
              /\ IF Flows(d) = <<>> THEN k = Free
                 ELSE k # Free /\ k.step \in {"start", "send"} /\ k.site = site
    BY <1>1, <2>1, <2>2, PublishBecomes
  <2> QED
    BY <1>3, <2>2, <2>3
<1> QED
  BY <1>2, <1>3

-----------------------------------------------------------------------------
(* The invariant *)

CountedType ==
  {Nothing} \cup {Counted(c) : c \in {"received", "malformed", "unattributed"}}
    \cup ({"published"} \X Event)

Entry == [site : Answers, age : 0..Cap]

LEMMA StepKeepsInv ==
  ASSUME IInv, NEW t \in Tasks, NEW k, Becomes(t, k), siteOf' = siteOf,
         counted' \in CountedType, faults' \in 0..MaxFaults,
         ago' \in [Exporters -> [Answers -> 0..Cap]],
         \A e \in Exporters, a \in Answers : ago'[e][a] <= ago[e][a],
         DOMAIN cache' \subseteq Exporters,
         \A e \in DOMAIN cache' : cache'[e] \in Entry /\ ago'[e][cache'[e].site] <= cache'[e].age,
         k.step = "answer" => ago'[k.exporter][k.site] <= k.age
  PROVE  IInv'
<1>1. task' \in [Tasks -> {Free} \cup Busy] /\ StartedByOne' /\ TasksSound'
  BY BecomesKeepsTasks
<1>2. TypeOK'
  <2>1. siteOf' \in [Exporters -> Answers] /\ producer' \in {"none", "starting", "started", "unstarted"}
    BY DEF IInv, TypeOK, Becomes
  <2>2. \A e \in DOMAIN cache' : cache'[e] \in [site : Answers, age : 0..Cap]
    BY DEF Entry
  <2> QED
    BY <1>1, <2>1, <2>2 DEF TypeOK, Busy, StartedByOne, CountedType
<1>3. AnswersDated'
  <2>1. \A e \in Exporters : ago'[e][siteOf'[e]] = 0
    <3> SUFFICES ASSUME NEW e \in Exporters PROVE ago'[e][siteOf[e]] = 0
      OBVIOUS
    <3>1. siteOf[e] \in Answers /\ ago[e][siteOf[e]] = 0
      BY DEF IInv, TypeOK, AnswersDated
    <3>2. ago'[e][siteOf[e]] \in 0..Cap /\ ago'[e][siteOf[e]] <= 0
      BY <3>1
    <3> QED
      BY <3>2, ConstantsAssumption
  <2>2. ASSUME NEW u \in Tasks, At(u, "answer")'
        PROVE  ago'[task'[u].exporter][task'[u].site] <= task'[u].age
    <3>1. CASE u = t
      <4>1. task'[u] = k
        BY <3>1, TaskTypes DEF IInv, Becomes
      <4> QED
        BY <4>1, <2>2 DEF At
    <3>2. CASE u # t
      <4>1. task'[u] = task[u]
        BY <3>2, TaskTypes DEF IInv, Becomes
      <4>2. task[u] \in Busy /\ ago[task[u].exporter][task[u].site] <= task[u].age
        BY <4>1, <2>2, TaskTypes, FreeIsSound DEF At, IInv, AnswersDated
      <4>3. task[u].exporter \in Exporters /\ task[u].site \in Answers /\ task[u].age \in 0..Cap
        BY <4>2 DEF Busy
      <4> DEFINE e == task[u].exporter
                 a == task[u].site
      <4>4. ago'[e][a] <= ago[e][a] /\ ago'[e][a] \in 0..Cap /\ ago[e][a] \in 0..Cap
        BY <4>3 DEF IInv, TypeOK
      <4> QED
        BY <4>1, <4>2, <4>3, <4>4, ConstantsAssumption
    <3> QED
      BY <3>1, <3>2
  <2> QED
    BY <2>1, <2>2 DEF AnswersDated
<1> QED
  BY <1>1, <1>2, <1>3 DEF IInv

\* The frame of most steps: neither the cache nor the history changes.
LEMMA StepApartKeepsInv ==
  ASSUME IInv, NEW t \in Tasks, NEW k, Becomes(t, k), UNCHANGED <<siteOf, cache, ago>>,
         counted' \in CountedType, faults' \in 0..MaxFaults,
         k.step = "answer" => ago[k.exporter][k.site] <= k.age
  PROVE  IInv'
<1>1. \A e \in Exporters, a \in Answers : ago'[e][a] <= ago[e][a]
  BY ConstantsAssumption DEF IInv, TypeOK
<1>2. /\ ago' \in [Exporters -> [Answers -> 0..Cap]] /\ DOMAIN cache' \subseteq Exporters
      /\ \A e \in DOMAIN cache' : cache'[e] \in Entry /\ ago'[e][cache'[e].site] <= cache'[e].age
  BY DEF IInv, TypeOK, AnswersDated, Entry
<1> QED
  BY <1>1, <1>2, StepKeepsInv

LEMMA CountedTypes ==
  /\ Nothing \in CountedType
  /\ \A c \in {"received", "malformed", "unattributed"} : Counted(c) \in CountedType
  /\ \A event \in Event : <<"published", event>> \in CountedType
BY DEF CountedType

LEMMA FaultType ==
  ASSUME IInv
  PROVE  /\ faults \in 0..MaxFaults
         /\ \A kind : Fault(kind) => faults' \in 0..MaxFaults
BY ConstantsAssumption DEF IInv, TypeOK, Fault

\* What an action may say of the task it is about.
LEMMA TaskFacts ==
  ASSUME IInv, NEW t \in Tasks, task[t].step # "free"
  PROVE  /\ task[t] \in Busy /\ task[t] # Free
         /\ task[t].exporter \in Exporters /\ task[t].datagram \in Datagrams
         /\ task[t].site \in Answers /\ task[t].age \in 0..Cap
         /\ Sound(task[t])
BY TaskTypes, FreeIsSound DEF IInv, Busy, TasksSound

LEMMA ReceiveKeepsInv ==
  ASSUME IInv, NEW t \in Tasks, NEW e \in Exporters, NEW d \in Datagrams, Receive(t, e, d)
  PROVE  IInv'
<1> DEFINE k == [step |-> "new", exporter |-> e, datagram |-> d, age |-> 0, site |-> NoSite,
                 flows |-> <<>>, sent |-> <<>>]
<1>1. k \in Busy
  <2>1. <<>> \in Seq(Flow) /\ <<>> \in Seq(Event)
    BY EmptySeq
  <2>2. 0 \in 0..Cap /\ NoSite \in Answers
    BY ConstantsAssumption DEF Answers
  <2> QED
    BY <2>1, <2>2 DEF Busy
<1>2. Sound(k)
  BY DEF Sound
<1>3. k.step = "new" /\ ~At(t, "start")
  BY FreeIsSound DEF Receive, At
<1>4. task' = [task EXCEPT ![t] = k] /\ counted' = Counted("received") /\ faults' = faults
      /\ UNCHANGED <<siteOf, cache, ago, producer>>
  BY DEF Receive
<1> HIDE DEF k
<1>5. Becomes(t, k)
  BY <1>1, <1>2, <1>3, <1>4 DEF Becomes, IInv, TypeOK
<1> QED
  BY <1>3, <1>4, <1>5, StepApartKeepsInv, CountedTypes, FaultType

LEMMA BeginKeepsInv ==
  ASSUME IInv, NEW t \in Tasks, Begin(t)
  PROVE  IInv'
<1> DEFINE e == task[t].exporter
<1>1. /\ task[t].step = "new" /\ ~At(t, "start") /\ faults' = faults
      /\ UNCHANGED <<siteOf, cache, ago>>
  BY DEF Begin, At
<1>2. CASE Malformed(task[t].datagram)
  <2>1. Becomes(t, Free)
    BY <1>1, <1>2, EndBecomes DEF Begin, IInv, TypeOK
  <2>2. counted' = Counted("malformed")
    BY <1>2 DEF Begin
  <2> QED
    BY <1>1, <2>1, <2>2, StepApartKeepsInv, CountedTypes, FaultType, FreeIsSound
<1>3. CASE ~Malformed(task[t].datagram) /\ Hit(e)
  <2>1. Attributed(t, cache[e].site) /\ counted' = Nothing /\ cache[e].site \in Answers
    BY <1>3 DEF Begin, Hit, IInv, TypeOK
  <2>2. PICK k : Becomes(t, k) /\ k.step # "answer"
    BY <1>1, <1>3, <2>1, AttributedBecomes DEF At
  <2> QED
    BY <1>1, <2>1, <2>2, StepApartKeepsInv, CountedTypes, FaultType
<1>4. CASE ~Malformed(task[t].datagram) /\ ~Hit(e)
  <2> DEFINE k == [task[t] EXCEPT !.step = "lookup", !.age = 0, !.site = task[t].site]
  <2>1. task' = [task EXCEPT ![t] = k] /\ counted' = Nothing /\ producer' = producer
    <3>1. k = [task[t] EXCEPT !.step = "lookup", !.age = 0]
      BY <1>1, TaskFacts DEF Busy
    <3> QED
      BY <1>4, <3>1 DEF Begin
  <2>2. k \in Busy /\ k.step = "lookup" /\ k.datagram = task[t].datagram /\ k.sent = task[t].sent
    <3>1. 0 \in 0..Cap
      BY ConstantsAssumption
    <3> QED
      BY <1>1, <3>1, TaskFacts DEF Busy
  <2> HIDE DEF k
  <2>3. Sound(k)
    BY <1>1, <1>4, <2>2, TaskFacts DEF Sound
  <2>4. Becomes(t, k)
    BY <1>1, <2>1, <2>2, <2>3 DEF Becomes, IInv, TypeOK
  <2> QED
    BY <1>1, <2>1, <2>2, <2>4, StepApartKeepsInv, CountedTypes, FaultType
<1> QED
  BY <1>2, <1>3, <1>4

LEMMA LookupKeepsInv ==
  ASSUME IInv, NEW t \in Tasks, NEW site \in Answers, At(t, "lookup"),
         task' = [task EXCEPT ![t].step = "answer", ![t].site = site], counted' = Nothing,
         faults' \in 0..MaxFaults, UNCHANGED <<siteOf, cache, producer>>,
         ago' \in [Exporters -> [Answers -> 0..Cap]],
         \A e \in Exporters, a \in Answers : ago'[e][a] <= ago[e][a],
         ago'[task[t].exporter][site] = 0
  PROVE  IInv'
<1> DEFINE k == [task[t] EXCEPT !.step = "answer", !.age = task[t].age, !.site = site]
<1>1. task[t].step = "lookup" /\ ~At(t, "start")
  BY DEF At
<1>2. /\ k \in Busy /\ k.step = "answer" /\ k.datagram = task[t].datagram /\ k.sent = task[t].sent
      /\ k.exporter = task[t].exporter /\ k.site = site /\ k.age \in 0..Cap
  BY <1>1, TaskFacts DEF Busy
<1>3. task' = [task EXCEPT ![t] = k]
  <2>1. k = [task[t] EXCEPT !.step = "answer", !.site = site]
    BY <1>1, TaskFacts DEF Busy
  <2> QED
    BY <2>1
<1> HIDE DEF k
<1>4. Sound(k)
  BY <1>1, <1>2, TaskFacts DEF Sound
<1>5. Becomes(t, k)
  BY <1>1, <1>2, <1>3, <1>4 DEF Becomes, IInv, TypeOK
<1>6. ago'[k.exporter][k.site] <= k.age
  BY <1>2, ConstantsAssumption
<1>7. ASSUME NEW e \in DOMAIN cache'
      PROVE  cache'[e] \in Entry /\ ago'[e][cache'[e].site] <= cache'[e].age
  <2>1. /\ cache'[e] \in Entry /\ e \in Exporters /\ cache[e].site \in Answers /\ cache[e].age \in 0..Cap
        /\ ago[e][cache[e].site] <= cache[e].age
    BY <1>7 DEF IInv, TypeOK, AnswersDated, Entry
  <2>2. /\ ago'[e][cache[e].site] <= ago[e][cache[e].site] /\ ago'[e][cache[e].site] \in 0..Cap
        /\ ago[e][cache[e].site] \in 0..Cap
    BY <2>1 DEF IInv, TypeOK
  <2> QED
    BY <2>1, <2>2, ConstantsAssumption
<1>8. DOMAIN cache' \subseteq Exporters
  BY DEF IInv, TypeOK
<1> QED
  BY <1>5, <1>6, <1>7, <1>8, StepKeepsInv, CountedTypes

LEMMA AttributeKeepsInv ==
  ASSUME IInv, NEW t \in Tasks, Attribute(t)
  PROVE  IInv'
<1> DEFINE e == task[t].exporter
<1>1. /\ task[t].step = "answer" /\ ~At(t, "start") /\ faults' = faults /\ UNCHANGED <<siteOf, ago>>
      /\ Attributed(t, task[t].site) /\ e \in Exporters /\ task[t].site \in Answers
      /\ task[t].age \in 0..Cap /\ ~Malformed(task[t].datagram)
  BY TaskFacts DEF Attribute, At, Sound
<1>2. PICK k : Becomes(t, k) /\ k.step # "answer"
  BY <1>1, AttributedBecomes DEF At
<1>3. counted' \in CountedType
  BY CountedTypes DEF Attribute
<1>4. ago[e][task[t].site] <= task[t].age
  BY <1>1 DEF IInv, AnswersDated, At
<1>5. ASSUME NEW x \in DOMAIN cache'
      PROVE  x \in Exporters /\ cache'[x] \in Entry /\ ago'[x][cache'[x].site] <= cache'[x].age
  <2>1. CASE x = e
    <3>1. cache'[x] = [site |-> task[t].site, age |-> task[t].age]
      BY <1>5, <2>1 DEF Attribute
    <3> QED
      BY <1>1, <1>4, <2>1, <3>1 DEF Entry
  <2>2. CASE x # e
    <3>1. x \in DOMAIN cache /\ cache'[x] = cache[x]
      BY <1>5, <2>2 DEF Attribute
    <3> QED
      BY <1>1, <3>1 DEF IInv, TypeOK, AnswersDated, Entry
  <2> QED
    BY <2>1, <2>2
<1>6. ago' \in [Exporters -> [Answers -> 0..Cap]] /\ \A x \in Exporters, a \in Answers : ago'[x][a] <= ago[x][a]
  BY <1>1, ConstantsAssumption DEF IInv, TypeOK
<1> QED
  BY <1>1, <1>2, <1>3, <1>5, <1>6, FaultType, StepKeepsInv

LEMMA ProducerStartsKeepsInv ==
  ASSUME IInv, NEW t \in Tasks, ProducerStarts(t)
  PROVE  IInv'
<1> DEFINE k == [task[t] EXCEPT !.step = "send"]
<1>1. task[t].step = "start" /\ At(t, "start")
  BY DEF ProducerStarts, At
<1>2. /\ k \in Busy /\ k.step = "send" /\ k.datagram = task[t].datagram /\ k.site = task[t].site
      /\ k.flows = task[t].flows /\ k.sent = task[t].sent
  BY <1>1, TaskFacts DEF Busy
<1>3. /\ task' = [task EXCEPT ![t] = k] /\ counted' = Nothing /\ producer' = "started"
      /\ faults' = faults /\ UNCHANGED <<siteOf, cache, ago>>
  BY DEF ProducerStarts
<1> HIDE DEF k
<1>4. Sound(k)
  BY <1>1, <1>2, TaskFacts DEF Sound
<1>5. Becomes(t, k)
  BY <1>1, <1>2, <1>3, <1>4 DEF Becomes
<1> QED
  BY <1>2, <1>3, <1>5, StepApartKeepsInv, CountedTypes, FaultType

\* What Sent(t) publishes, and how the task goes on after it.
LEMMA SentBecomes ==
  ASSUME IInv, NEW t \in Tasks, Sent(t)
  PROVE  LET d == task[t].datagram
             site == task[t].site
             event == BuildEvent(Head(task[t].flows), site, d)
         IN /\ event \in Event /\ counted' = <<"published", event>>
            /\ Progress(site, Tail(task[t].flows), Append(task[t].sent, event), d)
            /\ \E k : /\ Becomes(t, k) /\ k.step # "answer"
                     /\ IF Tail(task[t].flows) = <<>> THEN k = Free ELSE k # Free
<1> DEFINE d == task[t].datagram
           site == task[t].site
           event == BuildEvent(Head(task[t].flows), site, d)
           flows == Tail(task[t].flows)
           sent == Append(task[t].sent, event)
<1>1. /\ task[t].step = "send" /\ ~At(t, "start") /\ task[t] # Free
      /\ d \in Datagrams /\ ~Malformed(d)
      /\ task[t].flows # <<>> /\ Progress(site, task[t].flows, task[t].sent, d)
  BY TaskFacts DEF Sent, At, Sound
<1>2. event \in Event /\ Progress(site, flows, sent, d)
  BY <1>1, SentGoesOn
<1>3. counted' = <<"published", event>> /\ Publish(t, site, flows, sent)
  BY DEF Sent
<1> HIDE DEF event, flows, sent
<1>4. \E k : /\ Becomes(t, k) /\ k.step # "answer"
            /\ IF flows = <<>> THEN k = Free ELSE k # Free
  BY <1>1, <1>2, <1>3, PublishBecomes
<1> QED
  BY <1>2, <1>3, <1>4 DEF event, flows, sent

LEMMA SentKeepsInv ==
  ASSUME IInv, NEW t \in Tasks, Sent(t)
  PROVE  IInv'
<1>1. counted' \in CountedType /\ \E k : Becomes(t, k) /\ k.step # "answer"
  BY SentBecomes, CountedTypes
<1>2. faults' = faults /\ UNCHANGED <<siteOf, cache, ago>>
  BY DEF Sent
<1> QED
  BY <1>1, <1>2, StepApartKeepsInv, FaultType

LEMMA FailuresKeepInv ==
  ASSUME IInv, NEW t \in Tasks, StartFails(t) \/ SendFails(t)
  PROVE  IInv'
<1>1. faults' \in 0..MaxFaults /\ counted' = Nothing /\ UNCHANGED <<siteOf, cache, ago>>
  BY FaultType DEF StartFails, SendFails
<1>2. Becomes(t, Free)
  BY EndBecomes DEF StartFails, SendFails, At, IInv, TypeOK
<1> QED
  BY <1>1, <1>2, StepApartKeepsInv, CountedTypes, FreeIsSound

LEMMA TaskStepKeepsInv ==
  ASSUME IInv, NEW t \in Tasks, TaskStep(t)
  PROVE  IInv'
<1>1. CASE Lookup(t)
  <2>1. task[t].step = "lookup" /\ task[t].exporter \in Exporters
    BY <1>1, TaskFacts DEF Lookup, At
  <2>2. siteOf[task[t].exporter] \in Answers /\ ago[task[t].exporter][siteOf[task[t].exporter]] = 0
    BY <2>1 DEF IInv, TypeOK, AnswersDated
  <2>3. \A e \in Exporters, a \in Answers : ago[e][a] <= ago[e][a]
    BY ConstantsAssumption DEF IInv, TypeOK
  <2>4. ago \in [Exporters -> [Answers -> 0..Cap]]
    BY DEF IInv, TypeOK
  <2> QED
    BY <1>1, <2>2, <2>3, <2>4, FaultType, LookupKeepsInv DEF Lookup
<1>2. CASE LookupFails(t)
  <2>1. task[t].exporter \in Exporters /\ NoSite \in Answers /\ 0 \in 0..Cap
    BY <1>2, TaskFacts, ConstantsAssumption DEF LookupFails, At, Answers
  <2>2. ago' = [ago EXCEPT ![task[t].exporter][NoSite] = 0]
    BY <1>2 DEF LookupFails
  <2>3. ago \in [Exporters -> [Answers -> 0..Cap]]
    BY DEF IInv, TypeOK
  <2>4. /\ ago' \in [Exporters -> [Answers -> 0..Cap]] /\ ago'[task[t].exporter][NoSite] = 0
        /\ \A e \in Exporters, a \in Answers : ago'[e][a] <= ago[e][a]
    BY <2>1, <2>2, <2>3, ConstantsAssumption
  <2>5. faults' \in 0..MaxFaults
    BY <1>2, FaultType DEF LookupFails
  <2> QED
    BY <1>2, <2>1, <2>4, <2>5, LookupKeepsInv DEF LookupFails
<1> QED
  BY <1>1, <1>2, BeginKeepsInv, AttributeKeepsInv, ProducerStartsKeepsInv, SentKeepsInv,
     FailuresKeepInv DEF TaskStep, Await

\* An answer that was dated remains so: its age and its task's grow together.
LEMMA TickKeepsInv ==
  ASSUME IInv, Tick
  PROVE  IInv'
<1>1. \A n \in 0..Cap : Later(n) \in 0..Cap
  BY ConstantsAssumption DEF Later
<1>2. \A m, n \in 0..Cap : m <= n => Later(m) <= Later(n)
  BY ConstantsAssumption DEF Later
<1>3. ASSUME NEW t \in Tasks
      PROVE  /\ task'[t] = task[t] \/ (task[t] \in Busy /\ task'[t] = [task[t] EXCEPT !.age = Later(task[t].age)])
             /\ At(t, "answer") => task[t] \in Busy /\ task'[t] = [task[t] EXCEPT !.age = Later(task[t].age)]
             /\ task'[t] \in {Free} \cup Busy /\ task'[t].step = task[t].step /\ Sound(task'[t])
  <2>1. task[t] \in {Free} \cup Busy /\ Sound(task[t])
    BY TaskTypes DEF IInv, TasksSound
  <2>2. CASE At(t, "lookup") \/ At(t, "answer")
    <3>1. task[t] \in Busy /\ task[t].age \in 0..Cap
      BY <2>2, TaskFacts DEF At
    <3>2. task'[t] = [task[t] EXCEPT !.age = Later(task[t].age)]
      BY <2>2 DEF Tick
    <3>3. /\ task'[t] \in Busy /\ task'[t].step = task[t].step /\ task'[t].sent = task[t].sent
          /\ task'[t].datagram = task[t].datagram /\ task'[t].flows = task[t].flows
          /\ task'[t].site = task[t].site
      BY <3>1, <3>2, <1>1 DEF Busy
    <3> QED
      BY <2>1, <3>1, <3>2, <3>3 DEF Sound
  <2>3. CASE ~(At(t, "lookup") \/ At(t, "answer"))
    BY <2>1, <2>3 DEF Tick
  <2> QED
    BY <2>2, <2>3
<1>4. task' \in [Tasks -> {Free} \cup Busy] /\ TasksSound' /\ \A t \in Tasks : \A s : At(t, s)' <=> At(t, s)
  <2>1. task' = [t \in Tasks |-> task'[t]]
    BY DEF Tick
  <2> QED
    BY <1>3, <2>1 DEF TasksSound, At
<1>5. StartedByOne'
  <2>1. StartedByOne /\ producer' = producer
    BY TaskTypes DEF Tick, IInv
  <2> QED
    BY <1>4, <2>1 DEF StartedByOne
<1>6. /\ DOMAIN cache' = DOMAIN cache /\ DOMAIN cache \subseteq Exporters
      /\ \A e \in DOMAIN cache : /\ cache[e].site \in Answers /\ cache[e].age \in 0..Cap
                               /\ cache'[e] = [site |-> cache[e].site, age |-> Later(cache[e].age)]
  BY DEF Tick, IInv, TypeOK
<1>7. ago' = [e \in Exporters |-> [a \in Answers |-> IF a = siteOf[e] THEN 0 ELSE Later(ago[e][a])]]
  BY DEF Tick
<1>8. ago' \in [Exporters -> [Answers -> 0..Cap]]
  BY <1>1, <1>7, ConstantsAssumption DEF IInv, TypeOK
<1>9. ASSUME NEW e \in Exporters, NEW a \in Answers, NEW n \in 0..Cap, ago[e][a] <= n
      PROVE  ago'[e][a] <= Later(n)
  <2>1. ago[e][a] \in 0..Cap /\ Later(ago[e][a]) <= Later(n) /\ Later(n) \in 0..Cap
    BY <1>1, <1>2, <1>9 DEF IInv, TypeOK
  <2> QED
    BY <2>1, <1>7, ConstantsAssumption
<1>10. AnswersDated'
  <2>1. \A e \in Exporters : ago'[e][siteOf'[e]] = 0
    BY <1>7 DEF Tick, IInv, TypeOK
  <2>2. \A e \in DOMAIN cache' : ago'[e][cache'[e].site] <= cache'[e].age
    BY <1>6, <1>9 DEF IInv, AnswersDated
  <2>3. ASSUME NEW t \in Tasks, At(t, "answer")'
        PROVE  ago'[task'[t].exporter][task'[t].site] <= task'[t].age
    <3>1. At(t, "answer") /\ task'[t] = [task[t] EXCEPT !.age = Later(task[t].age)]
      BY <1>3, <1>4, <2>3
    <3>2. task[t] \in Busy /\ ago[task[t].exporter][task[t].site] <= task[t].age
      BY <1>3, <3>1 DEF IInv, AnswersDated
    <3>3. task[t].exporter \in Exporters /\ task[t].site \in Answers /\ task[t].age \in 0..Cap
      BY <3>2 DEF Busy
    <3>4. /\ task'[t].exporter = task[t].exporter /\ task'[t].site = task[t].site
          /\ task'[t].age = Later(task[t].age)
      BY <3>1, <3>2 DEF Busy
    <3> QED
      BY <1>9, <3>2, <3>3, <3>4
  <2> QED
    BY <2>1, <2>2, <2>3 DEF AnswersDated
<1>11. TypeOK'
  <2>1. /\ siteOf' = siteOf /\ producer' = producer /\ faults' = faults /\ counted' = Nothing
    BY DEF Tick
  <2>2. \A e \in DOMAIN cache' : cache'[e] \in [site : Answers, age : 0..Cap]
    BY <1>1, <1>6
  <2> QED
    BY <1>4, <1>5, <1>6, <1>8, <2>1, <2>2 DEF TypeOK, IInv, Busy, StartedByOne
<1> QED
  BY <1>4, <1>10, <1>11 DEF IInv

LEMMA EnvironmentKeepsInv ==
  ASSUME IInv, Restart \/ \E e \in Exporters, site \in Answers : ChangeSite(e, site)
  PROVE  IInv'
<1>1. CASE Restart
  <2>1. /\ task' = [t \in Tasks |-> Free] /\ cache' = [e \in {} |-> 0] /\ producer' = "none"
        /\ counted' = Nothing /\ faults' \in 0..MaxFaults /\ UNCHANGED <<siteOf, ago>>
    BY <1>1, FaultType DEF Restart
  <2>2. \A t \in Tasks : task'[t] = Free /\ task'[t].step = "free" /\ Sound(task'[t])
    BY <2>1, FreeIsSound
  <2>3. TypeOK'
    BY <2>1, <2>2 DEF TypeOK, IInv, At
  <2> QED
    BY <2>1, <2>2, <2>3 DEF IInv, TasksSound, AnswersDated, At
<1>2. ASSUME NEW e \in Exporters, NEW site \in Answers, ChangeSite(e, site)
      PROVE  IInv'
  <2>1. /\ siteOf' = [siteOf EXCEPT ![e] = site] /\ ago' = [ago EXCEPT ![e][site] = 0]
        /\ counted' = Nothing /\ UNCHANGED <<task, cache, producer, faults>>
    BY <1>2 DEF ChangeSite
  <2>2. siteOf \in [Exporters -> Answers] /\ ago \in [Exporters -> [Answers -> 0..Cap]]
    BY DEF IInv, TypeOK
  <2>3. /\ siteOf' \in [Exporters -> Answers] /\ ago' \in [Exporters -> [Answers -> 0..Cap]]
        /\ \A x \in Exporters, a \in Answers : ago'[x][a] = ago[x][a] \/ ago'[x][a] = 0
    BY <2>1, <2>2, ConstantsAssumption
  <2>4. TypeOK'
    BY <2>1, <2>3 DEF TypeOK, IInv, At
  <2>5. \A x \in Exporters : ago'[x][siteOf'[x]] = 0
    BY <2>1, <2>2 DEF IInv, AnswersDated
  <2>6. ASSUME NEW x \in Exporters, NEW a \in Answers, NEW n \in 0..Cap, ago[x][a] <= n
        PROVE  ago'[x][a] <= n
    <3>1. 0 <= n
      BY ConstantsAssumption
    <3>2. ago'[x][a] = ago[x][a] \/ ago'[x][a] = 0
      BY <2>3
    <3> QED
      BY <2>6, <3>1, <3>2
  <2>7. \A x \in DOMAIN cache : ago'[x][cache[x].site] <= cache[x].age
    BY <2>6 DEF IInv, TypeOK, AnswersDated
  <2>8. \A t \in Tasks : At(t, "answer") => ago'[task[t].exporter][task[t].site] <= task[t].age
    BY <2>6, TaskFacts DEF IInv, AnswersDated, At
  <2> QED
    BY <2>1, <2>4, <2>5, <2>7, <2>8 DEF IInv, TasksSound, AnswersDated, At
<1> QED
  BY <1>1, <1>2

LEMMA InitHolds == Init => IInv
<1> SUFFICES ASSUME Init PROVE IInv
  OBVIOUS
<1>1. \A t \in Tasks : task[t] = Free /\ task[t].step = "free" /\ Sound(task[t])
  BY FreeIsSound DEF Init
<1>2. ago \in [Exporters -> [Answers -> 0..Cap]]
  BY ConstantsAssumption DEF Init
<1>3. \A e \in Exporters : ago[e][siteOf[e]] = 0
  BY DEF Init
<1>4. TypeOK
  BY <1>1, <1>2, ConstantsAssumption DEF Init, TypeOK, At
<1> QED
  BY <1>1, <1>3, <1>4 DEF Init, IInv, TasksSound, AnswersDated, At

LEMMA IngestionInductive == Spec => []IInv
<1>1. IInv /\ [Next]_vars => IInv'
  <2> SUFFICES ASSUME IInv, [Next]_vars PROVE IInv'
    OBVIOUS
  <2>1. CASE UNCHANGED vars
    BY <2>1 DEF vars, IInv, TypeOK, TasksSound, AnswersDated, At
  <2> QED
    BY <2>1, TaskStepKeepsInv, ReceiveKeepsInv, TickKeepsInv, EnvironmentKeepsInv DEF Next
<1> QED
  BY <1>1, InitHolds, PTL DEF Spec

-----------------------------------------------------------------------------
(* What the service promises *)

\* Every variable has its type at every step, and one task at most awaits the
\* producer's start (listener.py, attribution.py, producer.py:24-33).
THEOREM IngestionTyped == Spec => []TypeOK
<1>1. IInv => TypeOK
  BY DEF IInv
<1> QED
  BY <1>1, IngestionInductive, PTL

\* The tasks run one at a time: none changes what another works on.
LEMMA OthersStay ==
  ASSUME IInv, NEW t \in Tasks, NEW u \in Tasks, u # t, TaskStep(u)
  PROVE  task'[t] = task[t]
<1>1. task \in [Tasks -> {Free} \cup Busy]
  BY TaskTypes DEF IInv
<1>2. CASE Begin(u)
  BY <1>1, <1>2 DEF Begin, Attributed, Publish, End
<1>3. CASE Attribute(u)
  BY <1>1, <1>3 DEF Attribute, Attributed, Publish, End
<1>4. CASE Lookup(u) \/ LookupFails(u)
  BY <1>1, <1>4 DEF Lookup, LookupFails
<1>5. CASE ProducerStarts(u) \/ StartFails(u) \/ SendFails(u)
  BY <1>1, <1>5 DEF ProducerStarts, StartFails, SendFails, End
<1>6. CASE Sent(u)
  BY <1>1, <1>6 DEF Sent, Publish, End
<1> QED
  BY <1>2, <1>3, <1>4, <1>5, <1>6 DEF TaskStep, Await

\* Of the steps that are no fault, these change what a task at work does.
LEMMA WhoMovesTask ==
  ASSUME IInv, [Next]_vars, NEW t \in Tasks, task[t] # Free, faults' = faults
  PROVE  \/ task'[t] = task[t]
         \/ Begin(t) \/ Lookup(t) \/ Attribute(t) \/ ProducerStarts(t) \/ Sent(t)
         \/ Tick
<1>1. \A kind : ~Fault(kind)
  BY FaultType, ConstantsAssumption DEF Fault
<1>2. ASSUME NEW u \in Tasks, TaskStep(u)
      PROVE  \/ task'[t] = task[t]
             \/ Begin(t) \/ Lookup(t) \/ Attribute(t) \/ ProducerStarts(t) \/ Sent(t)
  <2>1. CASE u = t
    BY <1>1, <1>2, <2>1 DEF TaskStep, Await, LookupFails, StartFails, SendFails
  <2>2. CASE u # t
    BY <1>2, <2>2, OthersStay
  <2> QED
    BY <2>1, <2>2
<1>3. ASSUME NEW u \in Tasks, NEW e \in Exporters, NEW d \in Datagrams, Receive(u, e, d)
      PROVE  task'[t] = task[t]
  BY <1>3, TaskTypes DEF Receive, IInv
<1>4. ASSUME NEW e \in Exporters, NEW site \in Answers, ChangeSite(e, site)
      PROVE  task'[t] = task[t]
  BY <1>4 DEF ChangeSite
<1>5. ~Restart
  BY <1>1 DEF Restart
<1>6. CASE UNCHANGED vars
  BY <1>6 DEF vars
<1> QED
  BY <1>2, <1>3, <1>4, <1>5, <1>6 DEF Next

\* A tick ends no task and lets none begin to publish.
LEMMA TickKeepsSteps ==
  ASSUME IInv, Tick, NEW t \in Tasks, task[t] # Free
  PROVE  task'[t] # Free /\ task'[t].step = task[t].step
<1>1. task[t] \in Busy
  BY TaskTypes DEF IInv
<1>2. task'[t] = task[t] \/ task'[t] = [task[t] EXCEPT !.age = Later(task[t].age)]
  BY DEF Tick
<1>3. task'[t].step = task[t].step /\ task[t].step # "free"
  BY <1>1, <1>2 DEF Busy
<1> QED
  BY <1>3, FreeIsSound

\* What the task that makes a step is after it.
LEMMA BecomesIs ==
  ASSUME IInv, NEW t \in Tasks, NEW k, Becomes(t, k)
  PROVE  task'[t] = k
BY TaskTypes DEF IInv, Becomes

\* A verdict is an answer of the cache, or one that has just arrived.
LEMMA VerdictsAreAnswers ==
  ASSUME IInv, [Next]_vars, NEW t \in Tasks, NEW site \in Answers, Verdict(t, site)
  PROVE  \/ At(t, "new") /\ Hit(task[t].exporter) /\ site = cache[task[t].exporter].site
         \/ At(t, "answer") /\ site = task[t].site
<1> DEFINE e == task[t].exporter
           d == task[t].datagram
<1>1. /\ At(t, "new") \/ At(t, "answer")
      /\ faults' = faults /\ ~Malformed(d) /\ d.count > 0
      /\ IF site = NoSite THEN task'[t] = Free
         ELSE task'[t] # Free /\ task'[t].step \in {"start", "send"} /\ task'[t].site = site
  BY DEF Verdict
<1>2. task[t] # Free /\ task[t].step # "free" /\ d \in Datagrams
  BY <1>1, TaskFacts, FreeIsSound DEF At
<1>3. d.count # 0
  BY <1>1, <1>2, ConstantsAssumption
<1>4. ASSUME NEW a \in Answers, Attributed(t, a)
      PROVE  site = a
  <2>1. PICK k : /\ Becomes(t, k)
                 /\ IF a = NoSite \/ d.count = 0 THEN k = Free
                    ELSE k # Free /\ k.step \in {"start", "send"} /\ k.site = a
    BY <1>1, <1>4, AttributedBecomes
  <2>2. task'[t] = k
    BY <2>1, BecomesIs
  <2> QED
    BY <1>1, <1>3, <2>1, <2>2
<1>5. task'[t] # task[t] /\ ~(task'[t] # Free /\ task'[t].step \in {"new", "lookup", "answer"})
  BY <1>1, <1>2 DEF At
<1>6. ~Tick
  BY <1>1, <1>2, <1>5, TickKeepsSteps DEF At
<1>7. CASE Begin(t)
  <2>1. At(t, "new")
    BY <1>7 DEF Begin
  <2>2. CASE Hit(e)
    <3>1. Attributed(t, cache[e].site) /\ cache[e].site \in Answers
      BY <1>1, <1>7, <2>2 DEF Begin, Hit, IInv, TypeOK
    <3> QED
      BY <1>4, <2>1, <2>2, <3>1
  <2>3. CASE ~Hit(e)
    <3>1. task' = [task EXCEPT ![t].step = "lookup", ![t].age = 0]
      BY <1>1, <1>7, <2>3 DEF Begin
    <3>2. task[t] \in Busy /\ task \in [Tasks -> {Free} \cup Busy]
      BY <1>2, TaskTypes DEF IInv
    <3>3. task'[t].step = "lookup"
      BY <3>1, <3>2 DEF Busy
    <3> QED
      BY <1>5, <3>3, FreeIsSound
  <2> QED
    BY <2>2, <2>3
<1>8. CASE Attribute(t)
  <2>1. At(t, "answer") /\ Attributed(t, task[t].site) /\ task[t].site \in Answers
    BY <1>2, <1>8, TaskFacts DEF Attribute
  <2> QED
    BY <1>4, <2>1
<1>9. ~Lookup(t) /\ ~ProducerStarts(t) /\ ~Sent(t)
  BY <1>1 DEF Lookup, ProducerStarts, Sent, At
<1> QED
  BY <1>1, <1>2, <1>5, <1>6, <1>7, <1>8, <1>9, WhoMovesTask

\* Flows are attributed to, or dropped for want of, a site that was the answer
\* less than _CACHE_TTL_SECONDS ago or since the task asked, for any number of
\* tasks and lookups that overlap (attribution.py:22-40).
THEOREM AnswersAreRecent == Spec => AttributedRecently
<1> DEFINE Recent ==
      \A t \in Tasks, site \in Answers :
        Verdict(t, site) =>
          LET past == ago[task[t].exporter][site]
          IN past < TTL \/ past <= task[t].age
<1>1. IInv /\ [Next]_vars => [Recent]_vars
  <2> SUFFICES ASSUME IInv, [Next]_vars, NEW t \in Tasks, NEW site \in Answers, Verdict(t, site)
               PROVE  ago[task[t].exporter][site] < TTL \/ ago[task[t].exporter][site] <= task[t].age
    OBVIOUS
  <2> DEFINE e == task[t].exporter
  <2>1. CASE At(t, "new") /\ Hit(e) /\ site = cache[e].site
    <3>1. e \in DOMAIN cache /\ cache[e].age < TTL /\ cache[e].age \in 0..Cap
      BY <2>1 DEF Hit, IInv, TypeOK
    <3>2. e \in Exporters /\ ago[e][site] \in 0..Cap /\ ago[e][site] <= cache[e].age
      BY <2>1, <3>1 DEF IInv, TypeOK, AnswersDated
    <3> QED
      BY <3>1, <3>2, ConstantsAssumption
  <2>2. CASE At(t, "answer") /\ site = task[t].site
    BY <2>2 DEF IInv, AnswersDated
  <2> QED
    BY <2>1, <2>2, VerdictsAreAnswers
<1> QED
  BY <1>1, IngestionInductive, PTL DEF Spec, AttributedRecently

\* What a step that publishes nothing adds to what its task has sent.
LEMMA SentByNothing ==
  ASSUME NEW t \in Tasks, task[t].sent = <<>>, NEW c, counted' = Nothing \/ counted' = Counted(c)
  PROVE  SentBy(t) = <<>>
<1>1. Len(counted') \in Nat /\ Len(counted') < 2
  BY DEF Nothing, Counted
<1>2. SubSeq(counted', 2, Len(counted')) = <<>>
  BY <1>1, SubSeqEmpty
<1> QED
  BY <1>2, EmptySeq, ConcatEmptySeq DEF SentBy

LEMMA SentByPublished ==
  ASSUME NEW t \in Tasks, task[t].sent \in Seq(Event), NEW event \in Event,
         counted' = <<"published", event>>
  PROVE  SentBy(t) = Append(task[t].sent, event)
<1> DEFINE c == <<"published", event>>
<1>1. Len(c) = 2 /\ c[2] = event /\ <<event>> \in Seq(Event) /\ Len(<<event>>) = 1
      /\ <<event>>[1] = event
  OBVIOUS
<1>2. \A i \in 2..2 : c[i] \in Event
  BY <1>1
<1> HIDE DEF c
<1>3. SubSeq(c, 2, 2) \in Seq(Event) /\ Len(SubSeq(c, 2, 2)) = 1 /\ SubSeq(c, 2, 2)[1] = event
  <2>1. /\ SubSeq(c, 2, 2) \in Seq(Event)
        /\ Len(SubSeq(c, 2, 2)) = IF 2 <= 2 THEN 2 - 2 + 1 ELSE 0
        /\ \A i \in 1..2 - 2 + 1 : SubSeq(c, 2, 2)[i] = c[2 + i - 1]
    BY <1>2, SubSeqProperties
  <2> QED
    BY <1>1, <2>1
<1>4. SubSeq(c, 2, 2) = <<event>>
  <2>1. ASSUME NEW q \in Seq(Event), Len(q) = 1, q[1] = event
        PROVE  q = <<event>>
    <3>1. \A i \in 1..Len(q) : q[i] = <<event>>[i]
      BY <2>1, <1>1
    <3> QED
      BY <2>1, <3>1, <1>1, SeqEqual
  <2> QED
    BY <1>3, <2>1
<1>5. SubSeq(counted', 2, Len(counted')) = <<event>>
  BY <1>1, <1>4 DEF c
<1> QED
  BY <1>5, AppendIsConcat DEF SentBy

\* What must be true of task t's datagram when the task ends with this step.
Accounted(t) ==
  LET d == task[t].datagram
      e == task[t].exporter
  IN IF Malformed(d) THEN SentBy(t) = <<>> /\ counted' = Counted("malformed")
     ELSE \/ \E site \in Sites :
               SentBy(t) = [i \in 1..d.count |-> BuildEvent(ParsedFlow(d.records[i]), site, d)]
          \/ /\ SentBy(t) = <<>>
             /\ counted' = Counted("unattributed") \/ (Hit(e) /\ cache[e].site = NoSite)

\* An answer that ends its task is None, or the datagram announces no record.
LEMMA AttributedAccounts ==
  ASSUME IInv, NEW t \in Tasks, At(t, "new") \/ At(t, "answer"), ~Malformed(task[t].datagram),
         NEW site \in Answers, Attributed(t, site), task'[t] = Free, SentBy(t) = <<>>,
         site = NoSite =>
           \/ counted' = Counted("unattributed")
           \/ Hit(task[t].exporter) /\ cache[task[t].exporter].site = NoSite
  PROVE  Accounted(t)
<1> DEFINE d == task[t].datagram
<1>1. PICK k : /\ Becomes(t, k)
               /\ IF site = NoSite \/ d.count = 0 THEN k = Free
                  ELSE k # Free /\ k.step \in {"start", "send"} /\ k.site = site
  BY AttributedBecomes
<1>2. site = NoSite \/ d.count = 0
  BY <1>1, BecomesIs
<1>3. CASE site = NoSite
  BY <1>3 DEF Accounted
<1>4. CASE site \in Sites /\ d.count = 0
  <2>1. [i \in 1..d.count |-> BuildEvent(ParsedFlow(d.records[i]), site, d)] = <<>>
    BY <1>4
  <2> QED
    BY <1>4, <2>1 DEF Accounted
<1> QED
  BY <1>2, <1>3, <1>4 DEF Answers

LEMMA BeginAccounts ==
  ASSUME IInv, NEW t \in Tasks, Begin(t), task'[t] = Free
  PROVE  Accounted(t)
<1> DEFINE e == task[t].exporter
<1>1. task[t].step = "new" /\ task[t].sent = <<>> /\ task[t] \in Busy
  BY TaskFacts DEF Begin, At, Sound
<1>2. CASE Malformed(task[t].datagram)
  <2>1. counted' = Counted("malformed")
    BY <1>2 DEF Begin
  <2> QED
    BY <1>1, <1>2, <2>1, SentByNothing DEF Accounted
<1>3. CASE ~Malformed(task[t].datagram) /\ Hit(e)
  <2>1. Attributed(t, cache[e].site) /\ cache[e].site \in Answers /\ counted' = Nothing
    BY <1>3 DEF Begin, Hit, IInv, TypeOK
  <2> QED
    BY <1>1, <1>3, <2>1, SentByNothing, AttributedAccounts DEF At
<1>4. CASE ~Malformed(task[t].datagram) /\ ~Hit(e)
  <2>1. task' = [task EXCEPT ![t].step = "lookup", ![t].age = 0]
    BY <1>4 DEF Begin
  <2>2. task'[t].step = "lookup"
    BY <1>1, <2>1, TaskTypes DEF Busy, IInv
  <2> QED
    BY <2>2, FreeIsSound
<1> QED
  BY <1>2, <1>3, <1>4

LEMMA AttributeAccounts ==
  ASSUME IInv, NEW t \in Tasks, Attribute(t), task'[t] = Free
  PROVE  Accounted(t)
<1>1. /\ task[t].step = "answer" /\ task[t].sent = <<>> /\ ~Malformed(task[t].datagram)
      /\ task[t].site \in Answers /\ Attributed(t, task[t].site)
      /\ counted' = IF task[t].site = NoSite THEN Counted("unattributed") ELSE Nothing
  BY TaskFacts DEF Attribute, At, Sound
<1>2. SentBy(t) = <<>>
  BY <1>1, SentByNothing
<1> QED
  BY <1>1, <1>2, AttributedAccounts DEF At

LEMMA SentAccounts ==
  ASSUME IInv, NEW t \in Tasks, Sent(t), task'[t] = Free
  PROVE  Accounted(t)
<1> DEFINE d == task[t].datagram
           site == task[t].site
           event == BuildEvent(Head(task[t].flows), site, d)
           flows == Tail(task[t].flows)
           sent == Append(task[t].sent, event)
<1>1. /\ event \in Event /\ counted' = <<"published", event>>
      /\ Progress(site, flows, sent, d)
      /\ \E k : Becomes(t, k) /\ IF flows = <<>> THEN k = Free ELSE k # Free
  BY SentBecomes
<1>2. d \in Datagrams /\ ~Malformed(d) /\ task[t].sent \in Seq(Event)
  BY TaskFacts DEF Sent, At, Sound, Busy
<1>3. SentBy(t) = sent
  BY <1>1, <1>2, SentByPublished
<1>4. flows = <<>> /\ site \in Sites
  BY <1>1, BecomesIs DEF Progress
<1> HIDE DEF event, flows, sent
<1>5. sent = [i \in 1..d.count |-> BuildEvent(ParsedFlow(d.records[i]), site, d)]
  BY <1>1, <1>2, <1>4, SentWhole
<1> QED
  BY <1>2, <1>3, <1>4, <1>5 DEF Accounted

\* Every task that nothing goes wrong for has sent each record that its datagram
\* announces, once, in their order and at one site, or nothing and the datagram
\* is counted or was dropped for a cached answer, for datagrams of any length and
\* any number of tasks that share cache and producer (listener.py:36-52,
\* netflow_v5.py:115-157, attribution.py:24, 40-41).
THEOREM EveryDatagramAccounted == Spec => DatagramsAccounted
<1>1. IInv /\ [Next]_vars =>
        [\A t \in Tasks : task[t] # Free /\ task'[t] = Free /\ faults' = faults => Accounted(t)]_vars
  <2> SUFFICES ASSUME IInv, [Next]_vars, NEW t \in Tasks,
                      task[t] # Free, task'[t] = Free, faults' = faults
               PROVE  Accounted(t)
    OBVIOUS
  <2>1. ~Tick /\ task'[t] # task[t]
    BY TickKeepsSteps
  <2>2. ~Lookup(t) /\ ~ProducerStarts(t)
    <3>1. task[t] \in Busy /\ task \in [Tasks -> {Free} \cup Busy]
      BY TaskTypes DEF IInv
    <3>2. CASE Lookup(t)
      <4>1. task'[t].step = "answer"
        BY <3>1, <3>2 DEF Lookup, Busy
      <4> QED
        BY <4>1, FreeIsSound
    <3>3. CASE ProducerStarts(t)
      <4>1. task'[t].step = "send"
        BY <3>1, <3>3 DEF ProducerStarts, Busy
      <4> QED
        BY <4>1, FreeIsSound
    <3> QED
      BY <3>2, <3>3
  <2> QED
    BY <2>1, <2>2, WhoMovesTask, BeginAccounts, AttributeAccounts, SentAccounts
<1> QED
  BY <1>1, IngestionInductive, PTL DEF Spec, DatagramsAccounted, Accounted
=============================================================================
