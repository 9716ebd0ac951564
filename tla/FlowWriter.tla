----------------------------- MODULE FlowWriter -----------------------------
(***************************************************************************)
(* The flow-writer service: a Kafka consumer with a dedupe cache           *)
(* (services/flow-writer/src/consumer.py) that feeds a BatchWriter         *)
(* (services/flow-writer/src/batch_writer.py), started and stopped by the  *)
(* lifespan of services/flow-writer/src/main.py.                           *)
(*                                                                         *)
(* The process runs on one asyncio event loop, so a step is the code       *)
(* between two awaits that can suspend.  The critical sections under       *)
(* BatchWriter._lock contain no await: the lock is never contended, and    *)
(* add() with the flush() it may call is one step up to the insert, as is  *)
(* a timer's wake-up with its flush().  The insert itself is a suspension: *)
(* the task stays in it while every other task may run.                    *)
(***************************************************************************)
EXTENDS Naturals, Sequences, Functions

CONSTANTS
  Keys,         \* the dedupe keys of the flow records in play
  Quarantined,  \* a message that is not JSON or has an unsupported schema_version
  Malformed,    \* a message that FlowRecordEvent.model_validate() rejects
  Messages,     \* the messages the topic may carry
  Timers,       \* names for the _flush_after_delay() tasks alive at one time
  Loop,         \* the task of _consume_loop()
  Main,         \* the task of the lifespan
  None,         \* BatchWriter._flush_task before a timer is armed
  MaxSize,      \* settings.batch_max_size
  MaxLog,       \* bound: messages ever published
  MaxReplays,   \* bound: restarts and rebalances
  Disruptions   \* what may go wrong besides the normal operations

ASSUME ConstantsAssumption ==
  /\ Messages \subseteq Keys \cup {Quarantined, Malformed}
  /\ Quarantined \notin Keys /\ Malformed \notin Keys
  /\ Quarantined # Malformed
  /\ Loop \notin Timers /\ Main \notin Timers /\ Loop # Main
  /\ None \notin Timers \cup {Loop, Main}
  /\ MaxSize \in Nat \ {0}
  /\ MaxLog \in Nat /\ MaxReplays \in Nat
  /\ Disruptions \subseteq {"crash", "stop", "rebalance", "insert", "expiry"}

Task == Timers \cup {Loop, Main}

VARIABLES
  log,        \* the topic's partition: every message published, in order
  position,   \* offset of the next message the consumer delivers
  committed,  \* the group's committed offset, 0 before the first commit
  seen,       \* DedupeCache._seen
  events,     \* the accepted FlowRecordEvent objects: n is the n-th, events[n] its key
  buffer,     \* BatchWriter._buffer
  flushTask,  \* BatchWriter._flush_task
  status,     \* what each task is doing
  batch,      \* flush()'s local `batch` of each task that is inserting
  table,      \* the events with a row in ClickHouse's flow_record
  forgotten,  \* history: keys that have left a dedupe cache
  replays     \* how many restarts and rebalances there have been

consumerVars == <<log, position, committed>>
dedupeVars == <<seen, forgotten, events>>
writerVars == <<buffer, flushTask, status, batch>>
vars == <<log, position, committed, seen, events, buffer, flushTask, status,
          batch, table, forgotten, replays>>

-----------------------------------------------------------------------------
\* What a task does when it is not suspended in flush()'s insert.
Resting(t) ==
  CASE t = Loop -> "idle"
    [] t = Main -> "serving"
    [] OTHER -> "free"

\* What a task does once the flush() it called has returned.
AfterFlush(t) == IF t = Main THEN "flushed" ELSE Resting(t)

\* What a task does once the flush() it called has raised: nothing awaits the
\* consume loop's task, so the exception ends it for good.
AfterError(t) == IF t = Loop THEN "dead" ELSE AfterFlush(t)

Inserting == {t \in Task : status[t] = "inserting"}

\* The events the process holds: buffered, or in an insert under way.
Held == Range(buffer) \cup UNION {Range(batch[t]) : t \in Task}

StartOffsetUnset == committed

\* Where a consumer starts: the committed offset; with none, the end of the
\* log, since auto_offset_reset is left at aiokafka's "latest".
StartOffset == IF committed = 0 THEN Len(log) + 1 ELSE committed

Init ==
  /\ log = <<>> /\ position = 1 /\ committed = 0
  /\ seen = {} /\ events = <<>> /\ forgotten = {}
  /\ buffer = <<>> /\ flushTask = None
  /\ status = [t \in Task |-> Resting(t)]
  /\ batch = [t \in Task |-> <<>>]
  /\ table = {}
  /\ replays = 0

-----------------------------------------------------------------------------
(* BatchWriter *)

CancelledAlsoSelf(self, pending) == {pending} \ {None}

\* The pending timer that a flush by task self cancels, never self.
Cancelled(self, pending) == {pending} \ {None, self}

FlushWithoutSwap(self, buf, pending, st) ==
  /\ buffer' = buf
  /\ flushTask' = None
  /\ status' = [t \in Task |->
       CASE t \in Cancelled(self, pending) -> "free"
         [] t = self -> IF buf = <<>> THEN AfterFlush(self) ELSE "inserting"
         [] OTHER -> st[t]]
  /\ batch' = [batch EXCEPT ![self] = buf]

FlushKeepsTimer(self, buf, pending, st) ==
  /\ buffer' = <<>>
  /\ flushTask' = pending
  /\ status' = [st EXCEPT ![self] = IF buf = <<>> THEN AfterFlush(self) ELSE "inserting"]
  /\ batch' = [batch EXCEPT ![self] = buf]

\* flush() called by task self, up to its insert, from a moment at which the
\* buffer is buf, the pending timer is pending and the tasks are as in st.
Flush(self, buf, pending, st) ==
  LET cancelled == Cancelled(self, pending)
  IN /\ buffer' = <<>>
     /\ flushTask' = None
     /\ status' = [t \in Task |->
          CASE t \in cancelled -> "free"
            [] t = self -> IF buf = <<>> THEN AfterFlush(self) ELSE "inserting"
            [] OTHER -> st[t]]
     /\ batch' = [t \in Task |->
          CASE t \in cancelled -> <<>>
            [] t = self -> buf
            [] OTHER -> batch[t]]

AddWithoutTimer(event) ==
  LET buf == Append(buffer, event)
  IN IF Len(buf) >= MaxSize
     THEN Flush(Loop, buf, None, status)
     ELSE buffer' = buf /\ UNCHANGED <<flushTask, status, batch>>

AddPastLimit(event) ==
  \E t \in IF flushTask = None
           THEN {u \in Timers : status[u] = "free"} ELSE {flushTask} :
    LET buf == Append(buffer, event)
        st == IF flushTask = None
              THEN [status EXCEPT ![t] = "sleeping"] ELSE status
    IN IF Len(buf) > MaxSize
       THEN Flush(Loop, buf, t, st)
       ELSE /\ buffer' = buf
            /\ flushTask' = t
            /\ status' = st
            /\ UNCHANGED batch

\* add(): append, arm a timer unless one is armed, flush when full.
Add(event) ==
  \E t \in IF flushTask = None
           THEN {u \in Timers : status[u] = "free"} ELSE {flushTask} :
    LET buf == Append(buffer, event)
        st == IF flushTask = None
              THEN [status EXCEPT ![t] = "sleeping"] ELSE status
    IN IF Len(buf) >= MaxSize
       THEN Flush(Loop, buf, t, st)
       ELSE /\ buffer' = buf
            /\ flushTask' = t
            /\ status' = st
            /\ UNCHANGED batch

\* _flush_after_delay(): the sleep is over and the timer flushes.
WakeTimer(t) ==
  /\ status[t] = "sleeping"
  /\ Flush(t, buffer, flushTask, status)
  /\ UNCHANGED <<consumerVars, dedupeVars, table, replays>>

InsertSucceeds(t) ==
  /\ t \in Inserting
  /\ table' = table \cup Range(batch[t])
  /\ status' = [status EXCEPT ![t] = AfterFlush(t)]
  /\ batch' = [batch EXCEPT ![t] = <<>>]
  /\ UNCHANGED <<consumerVars, dedupeVars, buffer, flushTask, replays>>

InsertFailsRequeues(t) ==
  /\ "insert" \in Disruptions
  /\ t \in Inserting
  /\ table' \in {table, table \cup Range(batch[t])}
  /\ buffer' = batch[t] \o buffer
  /\ status' = [status EXCEPT ![t] = AfterError(t)]
  /\ batch' = [batch EXCEPT ![t] = <<>>]
  /\ UNCHANGED <<consumerVars, dedupeVars, flushTask, replays>>

\* insert() raises.  The batch was already taken out of the buffer and is not
\* put back; the server may or may not have stored it before the error.
InsertFails(t) ==
  /\ "insert" \in Disruptions
  /\ t \in Inserting
  /\ table' \in {table, table \cup Range(batch[t])}
  /\ status' = [status EXCEPT ![t] = AfterError(t)]
  /\ batch' = [batch EXCEPT ![t] = <<>>]
  /\ UNCHANGED <<consumerVars, dedupeVars, buffer, flushTask, replays>>

-----------------------------------------------------------------------------
(* The consumer and its dedupe cache *)

\* seen_before(): evict, then look the key up and remember it.
SeenBefore(key, evicted) == key \in seen \ evicted

RememberNothing(key, evicted) ==
  /\ seen' = seen \ evicted
  /\ forgotten' = forgotten \cup evicted

Remember(key, evicted) ==
  /\ seen' = (seen \ evicted) \cup {key}
  /\ forgotten' = forgotten \cup evicted

\* Entries older than the TTL at this call; the cache's time is abstracted to
\* the choice of which entries they are.
Evictable == IF "expiry" \in Disruptions THEN SUBSET seen ELSE {{}}

\* The consume loop gets the next message: aiokafka has advanced the position
\* by the time the message is handled.
Receive ==
  /\ status[Main] = "serving"
  /\ status[Loop] = "idle"
  /\ position <= Len(log)
  /\ position' = position + 1
  /\ UNCHANGED <<log, committed, table, replays>>

DropMessage ==
  /\ Receive
  /\ log[position] = Quarantined
  /\ UNCHANGED <<dedupeVars, writerVars>>

\* model_validate() raises and nothing catches it: the consume loop is gone,
\* while the service and its consumer stay up.
RejectMessage ==
  /\ Receive
  /\ log[position] = Malformed
  /\ status' = [status EXCEPT ![Loop] = "dead"]
  /\ UNCHANGED <<dedupeVars, buffer, flushTask, batch>>

SkipDuplicate ==
  /\ Receive
  /\ log[position] \in Keys
  /\ \E evicted \in Evictable :
       /\ SeenBefore(log[position], evicted)
       /\ Remember(log[position], evicted)
  /\ UNCHANGED <<events, writerVars>>

AcceptEvent ==
  /\ Receive
  /\ log[position] \in Keys
  /\ \E evicted \in Evictable :
       /\ ~SeenBefore(log[position], evicted)
       /\ Remember(log[position], evicted)
  /\ events' = Append(events, log[position])
  /\ Add(Len(events) + 1)

HandleMessage == DropMessage \/ RejectMessage \/ SkipDuplicate \/ AcceptEvent

\* enable_auto_commit: a background task commits the position, whatever the
\* consume loop is doing with the messages before it.
AutoCommit ==
  /\ status[Main] = "serving"
  /\ committed # position
  /\ committed' = position
  /\ UNCHANGED <<log, position, dedupeVars, writerVars, table, replays>>

-----------------------------------------------------------------------------
(* The stream around the service, and the process *)

\* The ingestion service publishes.
Publish(m) ==
  /\ Len(log) < MaxLog
  /\ log' = Append(log, m)
  /\ UNCHANGED <<position, committed, dedupeVars, writerVars, table, replays>>

\* The group rebalances and the consumer resumes from the committed offset.
Rebalance ==
  /\ "rebalance" \in Disruptions
  /\ status[Main] = "serving"
  /\ replays < MaxReplays
  /\ replays' = replays + 1
  /\ position' = StartOffset
  /\ UNCHANGED <<log, committed, dedupeVars, writerVars, table>>

\* Shutdown, first await: consumer.stop() ends the loop at its next message
\* and tries a last commit.
StopConsumer ==
  /\ "stop" \in Disruptions
  /\ status[Main] = "serving"
  /\ status' = [status EXCEPT ![Main] = "stopped"]
  /\ committed' \in {committed, position}
  /\ UNCHANGED <<log, position, dedupeVars, buffer, flushTask, batch, table, replays>>

\* Shutdown, second await: writer.flush().
FinalFlush ==
  /\ status[Main] = "stopped"
  /\ Flush(Main, buffer, flushTask, status)
  /\ UNCHANGED <<consumerVars, dedupeVars, table, replays>>

\* The process is gone.  An insert it had under way may reach the server.
EndProcess ==
  /\ \E landed \in SUBSET Inserting :
       table' = table \cup UNION {Range(batch[t]) : t \in landed}
  /\ buffer' = <<>> /\ flushTask' = None
  /\ status' = [t \in Task |-> IF t = Main THEN "down" ELSE Resting(t)]
  /\ batch' = [t \in Task |-> <<>>]
  /\ seen' = {} /\ forgotten' = forgotten \cup seen
  /\ UNCHANGED <<consumerVars, events, replays>>

\* The lifespan ends; timers still inserting are not awaited.
Exit == status[Main] = "flushed" /\ EndProcess

Crash ==
  /\ "crash" \in Disruptions
  /\ status[Main] # "down"
  /\ EndProcess

\* run_consumer() in a new process.
Restart ==
  /\ status[Main] = "down"
  /\ replays < MaxReplays
  /\ replays' = replays + 1
  /\ status' = [status EXCEPT ![Main] = "serving"]
  /\ position' = StartOffset
  /\ UNCHANGED <<log, committed, dedupeVars, buffer, flushTask, batch, table>>

-----------------------------------------------------------------------------
TimerStep == \E t \in Timers : WakeTimer(t)
InsertStep == \E t \in Task : InsertSucceeds(t) \/ InsertFails(t)
ProcessStep == StopConsumer \/ FinalFlush \/ Exit \/ Crash \/ Restart

Next ==
  \/ HandleMessage
  \/ TimerStep
  \/ InsertStep
  \/ AutoCommit
  \/ Rebalance
  \/ ProcessStep
  \/ \E m \in Messages : Publish(m)

Spec == Init /\ [][Next]_vars

\* The event loop runs every ready task, a sleep ends, and an insert returns
\* or times out.  Nothing is assumed of the stream or of the operator.
Fairness ==
  /\ WF_vars(HandleMessage)
  /\ \A t \in Timers : WF_vars(WakeTimer(t))
  /\ \A t \in Task : WF_vars(InsertSucceeds(t) \/ InsertFails(t))

FairSpec == Spec /\ Fairness

-----------------------------------------------------------------------------
(* Properties *)

EventIds == 1..Len(events)

\* Every variable has its type: the program's state as far as it is modelled.
TypeOK ==
  /\ log \in Seq(Messages)
  /\ position \in Nat \ {0} /\ committed \in Nat
  /\ seen \subseteq Keys /\ forgotten \subseteq Keys
  /\ events \in Seq(Keys)
  /\ buffer \in Seq(EventIds)
  /\ flushTask \in Timers \cup {None}
  /\ status \in [Task -> {"free", "sleeping", "inserting", "idle", "dead",
                          "serving", "stopped", "flushed", "down"}]
  /\ \A t \in Timers : status[t] \in {"free", "sleeping", "inserting"}
  /\ status[Loop] \in {"idle", "inserting", "dead"}
  /\ status[Main] \in {"serving", "stopped", "inserting", "flushed", "down"}
  /\ batch \in [Task -> Seq(EventIds)]
  /\ table \subseteq EventIds
  /\ replays \in Nat

\* Whenever events wait in the buffer exactly one timer is asleep to flush
\* them, and _flush_task is that timer; with nothing buffered no timer is
\* asleep and _flush_task is None (batch_writer.py:71-94).
TimerGuardsBuffer ==
  /\ (flushTask = None) <=> (buffer = <<>>)
  /\ \A t \in Timers : (status[t] = "sleeping") <=> (t = flushTask)

\* The buffer never reaches max_size between steps, and no insert carries an
\* empty batch or more than max_size rows (batch_writer.py:74-78, 95).
BatchesBounded ==
  /\ Len(buffer) < MaxSize
  /\ \A t \in Task :
       /\ Len(batch[t]) <= MaxSize
       /\ (batch[t] # <<>>) <=> (t \in Inserting)

\* An accepted event is in one place: once in the buffer, or once in the batch
\* of one task, or in the table, so that two flushes that overlap never write
\* the same event (batch_writer.py:86, 99).
OneHolder ==
  /\ Held \cap table = {}
  /\ IsInjective(buffer)
  /\ \A t \in Task : IsInjective(batch[t]) /\ Range(batch[t]) \cap Range(buffer) = {}
  /\ \A t, u \in Task : t # u => Range(batch[t]) \cap Range(batch[u]) = {}

\* Two rows for one dedupe key mean that the key left a dedupe cache in
\* between: redelivery within a cache entry's life never writes twice, however
\* rebalances, flushes and failed inserts interleave (consumer.py:31-37, 77-80).
DuplicatesOnlyOfForgotten ==
  \A m, n \in Held \cup table : m # n /\ events[m] = events[n] => events[m] \in forgotten

\* A step that swaps the buffer out gives up no event: neither the batch it
\* takes nor one that another task is inserting, whoever's timer it cancels
\* (the comment at batch_writer.py:87-90).
SwapLosesNothing ==
  [][buffer # <<>> /\ buffer' = <<>> /\ status'[Main] # "down" => Held \subseteq Held']_vars

\* The buffers, timers and batches keep the delivery ledger's promise
\* (batch_writer.py:60-101): an event is accepted, held, and settled once.
Ledger == INSTANCE DeliveryLedger WITH accepted <- Len(events), held <- Held, stored <- table

ImplementsLedger == Ledger!Spec

Disturbed ==
  \/ status[Loop] = "dead"
  \/ status[Main] # "serving" \/ replays > 0
  \/ EventIds \ (Held \cup table) # {}

\* An event does not stay in the process for ever: its timer goes off and its
\* insert ends, or the process does (batch_writer.py:80-82).
EventsSettle == \A n \in 1..(MaxLog * (MaxReplays + 1)) : (n \in Held) ~> (n \notin Held)

\* A published flow record gets a row unless the service was disturbed: its loop
\* died, it was stopped or set back to another offset, or an insert failed
\* (consumer.py:57-80, batch_writer.py:71-101).
RecordsReachTable ==
  \A key \in Keys :
    (key \in Range(log)) ~> ((\E n \in table : events[n] = key) \/ Disturbed)

(* What the documents promise and the code does not keep *)

\* event-flow-record.md:33 "At-least-once delivery", of the records the service
\* has taken from the stream: what it accepted and committed is stored or is on
\* its way into the table.
AcceptedIsDelivered ==
  \A i \in 1..Len(log) :
    i < committed /\ log[i] \in Range(events) => \E n \in Held \cup table : events[n] = log[i]
=============================================================================
