-------------------------- MODULE FlowWriterProofs --------------------------
(***************************************************************************)
(* Proofs about FlowWriter, for any sets of keys, messages and timers and  *)
(* any bounds: its safety invariants, what a swap of the buffer keeps,     *)
(* that it implements the delivery ledger and so settles each event once,  *)
(* and that it loses nothing unless an insert or the process fails.        *)
(***************************************************************************)
EXTENDS FlowWriter, SequenceTheorems, TLAPS

Statuses == {"free", "sleeping", "inserting", "idle", "dead",
             "serving", "stopped", "flushed", "down"}

\* The statuses a task may have.
StatusOK(st) ==
  /\ st \in [Task -> Statuses]
  /\ \A t \in Timers : st[t] \in {"free", "sleeping", "inserting"}
  /\ st[Loop] \in {"idle", "inserting", "dead"}
  /\ st[Main] \in {"serving", "stopped", "inserting", "flushed", "down"}

\* The part of TypeOK about the writer and the table.
WriterTypeOK ==
  /\ buffer \in Seq(EventIds)
  /\ flushTask \in Timers \cup {None}
  /\ StatusOK(status)
  /\ batch \in [Task -> Seq(EventIds)]
  /\ table \subseteq EventIds

\* The part about the stream, the consumer and the dedupe cache.
ConsumerTypeOK ==
  /\ log \in Seq(Messages)
  /\ position \in Nat \ {0} /\ committed \in Nat
  /\ seen \subseteq Keys /\ forgotten \subseteq Keys
  /\ events \in Seq(Keys)
  /\ replays \in Nat

WriterInv == WriterTypeOK /\ TimerGuardsBuffer /\ BatchesBounded /\ OneHolder

\* What the dedupe cache knows of the accepted events.  An event whose key the
\* cache holds was accepted once since the key was last forgotten.
DedupeInv ==
  /\ \A n \in EventIds : events[n] \in seen \cup forgotten
  /\ \A m, n \in EventIds : m # n /\ events[m] = events[n] => events[m] \in forgotten

IInv == ConsumerTypeOK /\ WriterInv /\ DedupeInv

-----------------------------------------------------------------------------
(* Sequences *)

\* The empty sequence holds nothing, and no value twice.
LEMMA EmptySequence ==
  /\ Range(<<>>) = {}
  /\ IsInjective(<<>>)
  /\ Len(<<>>) = 0
  /\ \A S : <<>> \in Seq(S)
BY EmptySeq DEF Range, IsInjective

\* Appending adds one place and one value.
LEMMA RangeOfAppend ==
  ASSUME NEW S, NEW s \in Seq(S), NEW e \in S
  PROVE  /\ Append(s, e) \in Seq(S)
         /\ Len(Append(s, e)) = Len(s) + 1
         /\ Append(s, e) # <<>>
         /\ Range(Append(s, e)) = Range(s) \cup {e}
<1>1. /\ Append(s, e) \in Seq(S)
      /\ Len(Append(s, e)) = Len(s) + 1
      /\ \A i \in 1..Len(s) : Append(s, e)[i] = s[i]
      /\ Append(s, e)[Len(s) + 1] = e
  OBVIOUS
<1>2. DOMAIN s = 1..Len(s) /\ DOMAIN Append(s, e) = 1..(Len(s) + 1) /\ Len(s) \in Nat
  BY <1>1, LenProperties
<1>3. Range(Append(s, e)) = Range(s) \cup {e}
  <2>1. Range(Append(s, e)) \subseteq Range(s) \cup {e}
    BY <1>1, <1>2 DEF Range
  <2>2. \A i \in 1..Len(s) : s[i] \in Range(Append(s, e))
    BY <1>1, <1>2, \A i \in 1..Len(s) : i \in 1..(Len(s) + 1) DEF Range
  <2>3. e \in Range(Append(s, e))
    BY <1>1, <1>2, Len(s) + 1 \in 1..(Len(s) + 1) DEF Range
  <2> QED
    BY <1>2, <2>1, <2>2, <2>3 DEF Range
<1>4. Append(s, e) # <<>>
  BY <1>1, <1>2, EmptySeq
<1> QED
  BY <1>1, <1>3, <1>4

\* A sequence without repetitions stays so when a new value is appended.
LEMMA InjectiveAppend ==
  ASSUME NEW S, NEW s \in Seq(S), NEW e \in S, IsInjective(s), e \notin Range(s)
  PROVE  IsInjective(Append(s, e))
<1>1. /\ Append(s, e) \in Seq(S)
      /\ Len(Append(s, e)) = Len(s) + 1
      /\ \A i \in 1..Len(s) : Append(s, e)[i] = s[i]
      /\ Append(s, e)[Len(s) + 1] = e
  OBVIOUS
<1>2. DOMAIN s = 1..Len(s) /\ DOMAIN Append(s, e) = 1..(Len(s) + 1) /\ Len(s) \in Nat
  BY <1>1, LenProperties
<1>3. \A i \in 1..Len(s) : s[i] # e
  BY <1>2 DEF Range
<1> QED
  BY <1>1, <1>2, <1>3 DEF IsInjective

-----------------------------------------------------------------------------
\* The type invariant is the consumer's part and the writer's part.
LEMMA TypeParts == TypeOK <=> ConsumerTypeOK /\ WriterTypeOK
BY DEF TypeOK, ConsumerTypeOK, WriterTypeOK, StatusOK, Statuses

\* The tasks are the timers, the consume loop and the lifespan, all different.
LEMMA TaskKinds ==
  /\ Loop \in Task /\ Main \in Task /\ Timers \subseteq Task
  /\ Loop # Main /\ Loop \notin Timers /\ Main \notin Timers
  /\ None \notin Task
BY ConstantsAssumption DEF Task

-----------------------------------------------------------------------------
(* flush() *)

\* A moment at which task self may call flush(): its buffer is buf, the pending
\* timer is pending and the tasks are as in st.  An event added in the same
\* step may be in buf.
FlushCalled(self, buf, pending, st) ==
  /\ self \in Task
  /\ buf \in Seq(EventIds') /\ IsInjective(buf) /\ Len(buf) <= MaxSize
  /\ Range(buf) \cap table = {}
  /\ \A t \in Task : Range(buf) \cap Range(batch[t]) = {}
  /\ pending \in Timers \cup {None}
  /\ StatusOK(st)
  /\ \A t \in Timers : (st[t] = "sleeping") <=> (t = pending)
  /\ \A t \in Task : (batch[t] # <<>>) <=> (st[t] = "inserting")
  /\ self = Loop => st[self] = "idle"
  /\ self = Main => st[self] = "stopped"
  /\ self \in Timers => self = pending

\* What flush() does, without the cancelled timer's empty batch.
LEMMA FlushEffect ==
  ASSUME NEW self, NEW buf, NEW pending, NEW st,
         WriterInv, FlushCalled(self, buf, pending, st), Flush(self, buf, pending, st)
  PROVE  /\ buffer' = <<>>
         /\ flushTask' = None
         /\ batch' = [batch EXCEPT ![self] = buf]
         /\ StatusOK(status')
         /\ \A t \in Timers : status'[t] # "sleeping"
         /\ status'[self] = "inserting" <=> buf # <<>>
         /\ \A t \in Task \ {self} : status'[t] = "inserting" <=> st[t] = "inserting"
<1> USE TaskKinds
<1>1. Cancelled(self, pending) \subseteq Timers \ {self}
  BY DEF FlushCalled, Cancelled
<1>2. \A t \in Cancelled(self, pending) : st[t] = "sleeping"
  BY <1>1 DEF FlushCalled, Cancelled
<1>3. \A t \in Cancelled(self, pending) : batch[t] = <<>>
  BY <1>1, <1>2 DEF FlushCalled
<1>4. /\ buffer' = <<>>
      /\ flushTask' = None
  BY DEF Flush
<1>5. self \in Task /\ self \notin Cancelled(self, pending)
  BY <1>1 DEF FlushCalled
<1>6. batch' = [batch EXCEPT ![self] = buf]
  BY <1>3, <1>5 DEF Flush, WriterInv, WriterTypeOK
<1>7. /\ status' \in [Task -> Statuses]
      /\ \A t \in Cancelled(self, pending) : status'[t] = "free"
      /\ status'[self] = IF buf = <<>> THEN AfterFlush(self) ELSE "inserting"
      /\ \A t \in Task \ (Cancelled(self, pending) \cup {self}) : status'[t] = st[t]
  BY <1>1, <1>5 DEF Flush, FlushCalled, StatusOK, Statuses, AfterFlush, Resting
<1>8. AfterFlush(self) = CASE self = Loop -> "idle"
                           [] self = Main -> "flushed"
                           [] OTHER -> "free"
  BY DEF AfterFlush, Resting
<1>9. StatusOK(status')
  BY <1>1, <1>5, <1>7, <1>8 DEF FlushCalled, StatusOK, Task
<1>10. \A t \in Timers : status'[t] # "sleeping"
  <2> SUFFICES ASSUME NEW t \in Timers
               PROVE  status'[t] # "sleeping"
    OBVIOUS
  <2>1. CASE t = self
    BY <2>1, <1>7, <1>8
  <2>2. CASE t \in Cancelled(self, pending)
    BY <2>2, <1>7
  <2>3. CASE t \notin Cancelled(self, pending) \cup {self}
    <3>1. t # pending
      BY <2>3 DEF Cancelled
    <3>2. st[t] # "sleeping"
      BY <3>1 DEF FlushCalled
    <3> QED
      BY <2>3, <3>2, <1>7
  <2> QED
    BY <2>1, <2>2, <2>3
<1>11. status'[self] = "inserting" <=> buf # <<>>
  BY <1>7, <1>8
<1>12. \A t \in Task \ {self} : status'[t] = "inserting" <=> st[t] = "inserting"
  BY <1>2, <1>7
<1> QED
  BY <1>4, <1>6, <1>9, <1>10, <1>11, <1>12

\* flush() moves the events of its buffer and gives up none.
LEMMA FlushHeld ==
  ASSUME NEW self, NEW buf, NEW pending, NEW st,
         WriterInv, FlushCalled(self, buf, pending, st), Flush(self, buf, pending, st)
  PROVE  Held' = Range(buf) \cup UNION {Range(batch[t]) : t \in Task}
<1>1. buffer' = <<>> /\ batch' = [batch EXCEPT ![self] = buf]
  BY FlushEffect
<1>2. self \in Task /\ batch \in [Task -> Seq(EventIds)] /\ batch[self] = <<>>
  BY TaskKinds DEF FlushCalled, WriterInv, WriterTypeOK, Task
<1>3. \A t \in Task : batch'[t] = IF t = self THEN buf ELSE batch[t]
  BY <1>1, <1>2
<1>4. Held' = UNION {Range(batch'[t]) : t \in Task}
  BY <1>1, EmptySequence DEF Held
<1>5. Range(batch[self]) = {}
  BY <1>2, EmptySequence
<1> QED
  BY <1>2, <1>3, <1>4, <1>5

\* flush() keeps the writer's invariant, also when an event is added with it.
LEMMA FlushKeepsInv ==
  ASSUME NEW self, NEW buf, NEW pending, NEW st,
         WriterInv, FlushCalled(self, buf, pending, st), Flush(self, buf, pending, st),
         Len(events) \in Nat, Len(events') \in Nat, Len(events) <= Len(events'),
         table' = table
  PROVE  WriterInv'
<1> USE TaskKinds
<1>1. /\ buffer' = <<>>
      /\ flushTask' = None
      /\ batch' = [batch EXCEPT ![self] = buf]
      /\ StatusOK(status')
      /\ \A t \in Timers : status'[t] # "sleeping"
      /\ status'[self] = "inserting" <=> buf # <<>>
      /\ \A t \in Task \ {self} : status'[t] = "inserting" <=> st[t] = "inserting"
  BY FlushEffect
<1>2. EventIds \subseteq EventIds'
  BY DEF EventIds
<1>3. WriterTypeOK'
  <2>1. \A t \in Task : batch[t] \in Seq(EventIds')
    BY <1>2, SeqMonotonic DEF WriterInv, WriterTypeOK
  <2>2. batch' \in [Task -> Seq(EventIds')]
    BY <1>1, <2>1 DEF FlushCalled, WriterInv, WriterTypeOK
  <2>3. buffer' \in Seq(EventIds')
    BY <1>1, EmptySequence
  <2> QED
    BY <1>1, <1>2, <2>2, <2>3 DEF WriterTypeOK, WriterInv
<1>4. TimerGuardsBuffer'
  BY <1>1 DEF TimerGuardsBuffer
<1>5. self \in Task /\ batch \in [Task -> Seq(EventIds)]
  BY DEF FlushCalled, WriterInv, WriterTypeOK
<1>6. BatchesBounded'
  <2>1. Len(buffer') < MaxSize
    BY <1>1, EmptySequence, ConstantsAssumption
  <2>2. Len(buf) <= MaxSize
    BY DEF FlushCalled
  <2>3. \A t \in Task : Len(batch'[t]) <= MaxSize
    BY <1>1, <1>5, <2>2 DEF WriterInv, BatchesBounded
  <2>4. \A t \in Task : (batch'[t] # <<>>) <=> (status'[t] = "inserting")
    BY <1>1, <1>5 DEF FlushCalled
  <2> QED
    BY <2>1, <2>3, <2>4 DEF BatchesBounded, Inserting
<1>7. OneHolder'
  <2>1. \A t \in Task : batch'[t] = IF t = self THEN buf ELSE batch[t]
    BY <1>1, <1>5
  <2>2. \A t \in Task : IsInjective(batch'[t]) /\ Range(batch'[t]) \cap Range(buffer') = {}
    BY <1>1, <2>1, EmptySequence DEF WriterInv, OneHolder, FlushCalled
  <2>3. \A t, u \in Task : t # u => Range(batch'[t]) \cap Range(batch'[u]) = {}
    BY <2>1 DEF WriterInv, OneHolder, FlushCalled
  <2>4. \A t \in Task : Range(batch'[t]) \cap table = {}
    BY <2>1 DEF WriterInv, OneHolder, FlushCalled, Held
  <2>5. Held' \cap table' = {}
    BY <1>1, <2>4, EmptySequence DEF Held
  <2> QED
    BY <1>1, <2>2, <2>3, <2>5, EmptySequence DEF OneHolder
<1> QED
  BY <1>3, <1>4, <1>6, <1>7 DEF WriterInv

\* A step that only moves tasks between statuses in which they do not insert.
LEMMA StatusStep ==
  ASSUME WriterInv, UNCHANGED <<buffer, flushTask, batch, table, events>>,
         StatusOK(status'),
         \A t \in Timers : status'[t] = status[t],
         \A t \in Task : (status'[t] = "inserting") <=> (status[t] = "inserting")
  PROVE  WriterInv'
<1>1. WriterTypeOK'
  BY DEF WriterInv, WriterTypeOK, EventIds
<1>2. TimerGuardsBuffer'
  BY DEF WriterInv, TimerGuardsBuffer
<1>3. BatchesBounded'
  BY DEF WriterInv, BatchesBounded, Inserting
<1>4. OneHolder'
  BY DEF WriterInv, OneHolder, Held
<1> QED
  BY <1>1, <1>2, <1>3, <1>4 DEF WriterInv

\* A step of the stream alone keeps the writer's invariant.
LEMMA WriterUnchanged ==
  ASSUME WriterInv, UNCHANGED <<buffer, flushTask, status, batch, table, events>>
  PROVE  WriterInv'
BY StatusStep DEF WriterInv, WriterTypeOK

\* add() keeps the writer's invariant; it makes the new event held and gives up
\* none.
LEMMA AddKeepsInv ==
  ASSUME IInv, NEW key \in Keys, status[Loop] = "idle",
         events' = Append(events, key), table' = table, Add(Len(events) + 1)
  PROVE  WriterInv' /\ Held' = Held \cup {Len(events) + 1}
<1> DEFINE e == Len(events) + 1
           buf == Append(buffer, e)
<1> USE TaskKinds
<1>1. /\ Len(events) \in Nat /\ Len(events') = e
      /\ EventIds \subseteq EventIds' /\ e \in EventIds' /\ e \notin EventIds
  BY AppendProperties, LenProperties DEF IInv, ConsumerTypeOK, EventIds
<1>2. buffer \in Seq(EventIds) /\ buffer \in Seq(EventIds')
  BY <1>1, SeqMonotonic DEF IInv, WriterInv, WriterTypeOK
<1>3. /\ Len(buffer) \in Nat /\ Len(buffer) < MaxSize
      /\ buf \in Seq(EventIds') /\ buf # <<>>
      /\ Len(buf) = Len(buffer) + 1
      /\ Range(buf) = Range(buffer) \cup {e}
  BY <1>1, <1>2, RangeOfAppend, LenProperties DEF IInv, WriterInv, BatchesBounded
<1>4. \A t \in Task : batch[t] \in Seq(EventIds) /\ Range(batch[t]) \subseteq EventIds
  BY RangeOfSeq DEF IInv, WriterInv, WriterTypeOK
<1>5. Range(buffer) \subseteq EventIds
  BY <1>2, RangeOfSeq
<1>6. IsInjective(buf)
  BY <1>1, <1>2, <1>5, InjectiveAppend DEF IInv, WriterInv, OneHolder
<1>7. \A t \in Task : Range(buf) \cap Range(batch[t]) = {}
  BY <1>1, <1>3, <1>4 DEF IInv, WriterInv, OneHolder
<1>8. Range(buf) \cap table = {}
  BY <1>1, <1>3 DEF IInv, WriterInv, OneHolder, Held, WriterTypeOK
<1>9. PICK t \in IF flushTask = None
                 THEN {u \in Timers : status[u] = "free"} ELSE {flushTask} :
        LET st == IF flushTask = None
                  THEN [status EXCEPT ![t] = "sleeping"] ELSE status
        IN IF Len(buf) >= MaxSize
           THEN Flush(Loop, buf, t, st)
           ELSE /\ buffer' = buf
                /\ flushTask' = t
                /\ status' = st
                /\ UNCHANGED batch
  BY DEF Add
<1> DEFINE st == IF flushTask = None THEN [status EXCEPT ![t] = "sleeping"] ELSE status
<1>10. t \in Timers
  BY <1>9 DEF IInv, WriterInv, WriterTypeOK
<1>11. StatusOK(status)
  BY DEF IInv, WriterInv, WriterTypeOK
<1>12. /\ StatusOK(st)
       /\ \A u \in Timers : (st[u] = "sleeping") <=> (u = t)
       /\ \A u \in Task : (batch[u] # <<>>) <=> (st[u] = "inserting")
       /\ st[Loop] = "idle"
  <2>1. CASE flushTask = None
    <3>1. status[t] = "free"
      BY <1>9, <2>1
    <3>2. st = [status EXCEPT ![t] = "sleeping"]
      BY <2>1
    <3>3. \A u \in Timers : status[u] # "sleeping"
      BY <2>1 DEF IInv, WriterInv, TimerGuardsBuffer
    <3>4. StatusOK(st)
      BY <1>10, <1>11, <3>2 DEF StatusOK, Statuses
    <3> QED
      BY <1>10, <1>11, <3>1, <3>2, <3>3, <3>4
         DEF IInv, WriterInv, BatchesBounded, Inserting, StatusOK
  <2>2. CASE flushTask # None
    BY <1>9, <1>11, <2>2 DEF IInv, WriterInv, TimerGuardsBuffer, BatchesBounded, Inserting
  <2> QED
    BY <2>1, <2>2
<1>13. CASE Len(buf) >= MaxSize
  <2>1. Len(buf) <= MaxSize
    BY <1>3, ConstantsAssumption
  <2>2. FlushCalled(Loop, buf, t, st)
    BY <1>3, <1>6, <1>7, <1>8, <1>10, <1>12, <2>1 DEF FlushCalled
  <2>3. Flush(Loop, buf, t, st)
    BY <1>9, <1>13
  <2> HIDE DEF st, buf
  <2>4. Held' = Range(buf) \cup UNION {Range(batch[u]) : u \in Task}
    BY <2>2, <2>3, FlushHeld DEF IInv
  <2> QED
    BY <1>1, <1>3, <2>2, <2>3, <2>4, FlushKeepsInv DEF IInv, Held
<1>14. CASE ~(Len(buf) >= MaxSize)
  <2>1. buffer' = buf /\ flushTask' = t /\ status' = st /\ batch' = batch
    BY <1>9, <1>14
  <2> HIDE DEF st, buf
  <2>2. WriterTypeOK'
    <3>1. \A u \in Task : batch[u] \in Seq(EventIds')
      BY <1>1, <1>4, SeqMonotonic
    <3>2. batch' \in [Task -> Seq(EventIds')]
      BY <2>1, <3>1 DEF IInv, WriterInv, WriterTypeOK
    <3> QED
      BY <1>1, <1>3, <1>10, <1>12, <2>1, <3>2 DEF IInv, WriterInv, WriterTypeOK
  <2>3. TimerGuardsBuffer'
    BY <1>3, <1>10, <1>12, <2>1 DEF TimerGuardsBuffer
  <2>4. BatchesBounded'
    BY <1>3, <1>12, <1>14, <2>1, ConstantsAssumption
       DEF IInv, WriterInv, BatchesBounded, Inserting
  <2>5. OneHolder'
    BY <1>6, <1>7, <1>8, <2>1 DEF IInv, WriterInv, OneHolder, Held
  <2>6. Held' = Held \cup {e}
    BY <1>3, <2>1 DEF Held
  <2> QED
    BY <2>2, <2>3, <2>4, <2>5, <2>6 DEF WriterInv
<1> QED
  BY <1>13, <1>14

\* An insert that ends, with or without an error, keeps the writer's invariant,
\* whether its rows were stored or not.
LEMMA InsertEndKeepsInv ==
  ASSUME WriterInv, NEW t \in Task, t \in Inserting,
         status' = [status EXCEPT ![t] = AfterFlush(t)] \/ status' = [status EXCEPT ![t] = AfterError(t)],
         batch' = [batch EXCEPT ![t] = <<>>],
         table' = table \/ table' = table \cup Range(batch[t]),
         UNCHANGED <<buffer, flushTask, events>>
  PROVE  WriterInv'
<1> USE TaskKinds
<1>1. /\ batch \in [Task -> Seq(EventIds)] /\ StatusOK(status)
      /\ status[t] = "inserting"
  BY DEF WriterInv, WriterTypeOK, Inserting
<1>2. /\ AfterFlush(t) # "inserting" /\ AfterFlush(t) # "sleeping"
      /\ AfterError(t) # "inserting" /\ AfterError(t) # "sleeping"
      /\ t \in Timers => AfterFlush(t) = "free" /\ AfterError(t) = "free"
      /\ t = Loop => AfterFlush(t) = "idle" /\ AfterError(t) = "dead"
      /\ t = Main => AfterFlush(t) = "flushed" /\ AfterError(t) = "flushed"
  BY DEF AfterFlush, AfterError, Resting
<1>3. /\ StatusOK(status')
      /\ status'[t] # "inserting" /\ status'[t] # "sleeping"
      /\ \A u \in Task \ {t} : status'[u] = status[u]
  BY <1>1, <1>2 DEF StatusOK, Statuses, Task
<1>4. \A u \in Task : batch'[u] = IF u = t THEN <<>> ELSE batch[u]
  BY <1>1
<1>5. EventIds' = EventIds /\ Range(batch[t]) \subseteq EventIds
  BY <1>1, RangeOfSeq DEF EventIds
<1>6. WriterTypeOK'
  <2>1. batch' \in [Task -> Seq(EventIds)]
    BY <1>1, EmptySequence
  <2>2. table' \subseteq EventIds
    BY <1>5 DEF WriterInv, WriterTypeOK
  <2> QED
    BY <1>3, <1>5, <2>1, <2>2 DEF WriterInv, WriterTypeOK
<1>7. TimerGuardsBuffer'
  BY <1>1, <1>3 DEF WriterInv, TimerGuardsBuffer
<1>8. BatchesBounded'
  <2>1. \A u \in Task : Len(batch'[u]) <= MaxSize
    BY <1>4, EmptySequence, ConstantsAssumption DEF WriterInv, BatchesBounded
  <2> QED
    BY <1>3, <1>4, <2>1 DEF WriterInv, BatchesBounded, Inserting
<1>9. OneHolder'
  <2>1. \A u \in Task : IsInjective(batch'[u]) /\ Range(batch'[u]) \cap Range(buffer') = {}
    BY <1>4, EmptySequence DEF WriterInv, OneHolder
  <2>2. \A u, v \in Task : u # v => Range(batch'[u]) \cap Range(batch'[v]) = {}
    BY <1>4, EmptySequence DEF WriterInv, OneHolder
  <2>3. \A u \in Task : Range(batch'[u]) \cap table' = {}
    <3> SUFFICES ASSUME NEW u \in Task
                 PROVE  Range(batch'[u]) \cap table' = {}
      OBVIOUS
    <3>1. CASE u = t
      BY <1>4, <3>1, EmptySequence
    <3>2. CASE u # t
      BY <1>4, <3>2 DEF WriterInv, OneHolder, Held
    <3> QED
      BY <3>1, <3>2
  <2>4. Range(buffer') \cap table' = {}
    BY DEF WriterInv, OneHolder, Held
  <2>5. Held' \cap table' = {}
    BY <2>3, <2>4 DEF Held
  <2> QED
    BY <2>1, <2>2, <2>5 DEF WriterInv, OneHolder
<1> QED
  BY <1>6, <1>7, <1>8, <1>9 DEF WriterInv

\* So does the end of the process, which leaves it nothing to hold.
LEMMA EndProcessKeepsInv ==
  ASSUME WriterInv, EndProcess
  PROVE  WriterInv'
<1> USE TaskKinds
<1>1. PICK landed \in SUBSET Inserting :
        table' = table \cup UNION {Range(batch[t]) : t \in landed}
  BY DEF EndProcess
<1>2. /\ buffer' = <<>> /\ flushTask' = None
      /\ status' = [t \in Task |-> IF t = Main THEN "down" ELSE Resting(t)]
      /\ batch' = [t \in Task |-> <<>>]
      /\ events' = events
  BY DEF EndProcess
<1>3. /\ \A t \in Timers : status'[t] = "free"
      /\ status'[Loop] = "idle" /\ status'[Main] = "down"
  BY <1>2 DEF Resting
<1>4. \A t \in Task : Range(batch[t]) \subseteq EventIds
  BY RangeOfSeq DEF WriterInv, WriterTypeOK
<1>5. WriterTypeOK'
  <2>1. table' \subseteq EventIds'
    BY <1>1, <1>2, <1>4 DEF WriterInv, WriterTypeOK, Inserting, EventIds
  <2>2. StatusOK(status')
    BY <1>2, <1>3 DEF StatusOK, Statuses, Resting
  <2> QED
    BY <1>2, <2>1, <2>2, EmptySequence DEF WriterTypeOK
<1>6. TimerGuardsBuffer'
  BY <1>2, <1>3 DEF TimerGuardsBuffer
<1>7. BatchesBounded'
  BY <1>2, <1>3, EmptySequence, ConstantsAssumption DEF BatchesBounded, Inserting, Task
<1>8. \A t \in Task : batch'[t] = <<>>
  BY <1>2
<1>9. Held' = {}
  BY <1>2, <1>8, EmptySequence DEF Held
<1>10. OneHolder'
  BY <1>2, <1>8, <1>9, EmptySequence DEF OneHolder
<1> QED
  BY <1>5, <1>6, <1>7, <1>10 DEF WriterInv

-----------------------------------------------------------------------------
(* The inductive invariant *)

\* A timer that wakes, or the lifespan, calls flush() in a moment that allows it;
\* that keeps the writer's invariant and the events held.
LEMMA FlushOfBuffer ==
  ASSUME WriterInv, NEW self \in Timers \cup {Main}, Len(events) \in Nat,
         events' = events, table' = table,
         self = Main => status[Main] = "stopped",
         self \in Timers => status[self] = "sleeping",
         Flush(self, buffer, flushTask, status)
  PROVE  WriterInv' /\ Held' = Held
<1> USE TaskKinds
<1>1. EventIds' = EventIds
  BY DEF EventIds
<1>2. self \in Timers => self = flushTask
  BY DEF WriterInv, TimerGuardsBuffer
<1>3. Range(buffer) \cap table = {} /\ Len(buffer) <= MaxSize
  BY LenProperties, ConstantsAssumption
     DEF WriterInv, WriterTypeOK, OneHolder, Held, BatchesBounded
<1>4. FlushCalled(self, buffer, flushTask, status)
  BY <1>1, <1>2, <1>3
     DEF FlushCalled, WriterInv, WriterTypeOK, TimerGuardsBuffer, BatchesBounded,
         OneHolder, Inserting
<1>5. Held' = Held
  BY <1>4, FlushHeld DEF Held
<1> QED
  BY <1>4, <1>5, FlushKeepsInv

\* Every step keeps the writer's invariant.
LEMMA WriterStep ==
  ASSUME IInv, [Next]_vars
  PROVE  WriterInv'
<1> USE TaskKinds
<1>1. WriterInv /\ StatusOK(status) /\ Len(events) \in Nat
  BY LenProperties DEF IInv, WriterInv, WriterTypeOK, ConsumerTypeOK
<1>2. CASE HandleMessage
  <2>1. CASE DropMessage \/ SkipDuplicate
    BY <1>1, <2>1, WriterUnchanged
       DEF DropMessage, SkipDuplicate, Receive, dedupeVars, writerVars, IInv, WriterInv
  <2>2. CASE RejectMessage
    <3>1. /\ status' = [status EXCEPT ![Loop] = "dead"] /\ status[Loop] = "idle"
          /\ UNCHANGED <<buffer, flushTask, batch, table, events>>
      BY <2>2 DEF RejectMessage, Receive, dedupeVars
    <3>2. StatusOK(status')
      BY <1>1, <3>1 DEF StatusOK, Statuses
    <3> QED
      BY <1>1, <3>1, <3>2, StatusStep DEF StatusOK
  <2>3. CASE AcceptEvent
    <3>1. /\ log[position] \in Keys /\ status[Loop] = "idle" /\ table' = table
          /\ events' = Append(events, log[position])
          /\ Add(Len(events) + 1)
      BY <2>3 DEF AcceptEvent, Receive
    <3> QED
      BY <3>1, AddKeepsInv
  <2> QED
    BY <1>2, <2>1, <2>2, <2>3 DEF HandleMessage
<1>3. CASE TimerStep
  <2>1. PICK t \in Timers : WakeTimer(t)
    BY <1>3 DEF TimerStep
  <2> QED
    BY <1>1, <2>1, FlushOfBuffer DEF WakeTimer, dedupeVars
<1>4. CASE InsertStep
  <2>1. PICK t \in Task : InsertSucceeds(t) \/ InsertFails(t)
    BY <1>4 DEF InsertStep
  <2>2. /\ t \in Inserting
        /\ status' = [status EXCEPT ![t] = AfterFlush(t)] \/ status' = [status EXCEPT ![t] = AfterError(t)]
        /\ batch' = [batch EXCEPT ![t] = <<>>]
        /\ table' = table \/ table' = table \cup Range(batch[t])
        /\ UNCHANGED <<buffer, flushTask, events>>
    BY <2>1 DEF InsertSucceeds, InsertFails, dedupeVars
  <2> QED
    BY <1>1, <2>2, InsertEndKeepsInv
<1>5. CASE ProcessStep
  <2>1. CASE StopConsumer
    <3>1. /\ status[Main] = "serving" /\ status' = [status EXCEPT ![Main] = "stopped"]
          /\ UNCHANGED <<buffer, flushTask, batch, table, events>>
      BY <2>1 DEF StopConsumer, dedupeVars
    <3>2. StatusOK(status')
      BY <1>1, <3>1 DEF StatusOK, Statuses
    <3> QED
      BY <1>1, <3>1, <3>2, StatusStep DEF StatusOK
  <2>2. CASE FinalFlush
    BY <1>1, <2>2, FlushOfBuffer DEF FinalFlush, dedupeVars
  <2>3. CASE Exit \/ Crash
    BY <1>1, <2>3, EndProcessKeepsInv DEF Exit, Crash
  <2>4. CASE Restart
    <3>1. /\ status[Main] = "down" /\ status' = [status EXCEPT ![Main] = "serving"]
          /\ UNCHANGED <<buffer, flushTask, batch, table, events>>
      BY <2>4 DEF Restart, dedupeVars
    <3>2. StatusOK(status')
      BY <1>1, <3>1 DEF StatusOK, Statuses
    <3> QED
      BY <1>1, <3>1, <3>2, StatusStep DEF StatusOK
  <2> QED
    BY <1>5, <2>1, <2>2, <2>3, <2>4 DEF ProcessStep
<1>6. CASE AutoCommit \/ Rebalance \/ (\E m \in Messages : Publish(m)) \/ UNCHANGED vars
  BY <1>1, <1>6, WriterUnchanged
     DEF AutoCommit, Rebalance, Publish, vars, dedupeVars, writerVars, IInv, WriterInv
<1> QED
  BY <1>2, <1>3, <1>4, <1>5, <1>6 DEF Next

\* What the steps do to the stream, the consumer and the dedupe cache.
LEMMA ConsumerStep ==
  ASSUME IInv, [Next]_vars
  PROVE  ConsumerTypeOK'
<1>1. /\ ConsumerTypeOK
      /\ Len(log) \in Nat /\ Len(log) + 1 \in Nat \ {0}
      /\ StartOffset \in Nat \ {0}
  BY LenProperties DEF IInv, ConsumerTypeOK, StartOffset
<1>2. \A evicted \in Evictable, key \in Keys :
        Remember(key, evicted) => seen' \subseteq Keys /\ forgotten' \subseteq Keys
  BY <1>1 DEF Remember, Evictable, ConsumerTypeOK
<1>3. CASE HandleMessage
  <2>1. /\ log' = log /\ committed' = committed /\ replays' = replays
        /\ position' = position + 1
    BY <1>3 DEF HandleMessage, DropMessage, RejectMessage, SkipDuplicate, AcceptEvent, Receive
  <2>2. CASE DropMessage \/ RejectMessage
    BY <1>1, <2>1, <2>2 DEF DropMessage, RejectMessage, dedupeVars, ConsumerTypeOK
  <2>3. CASE SkipDuplicate
    BY <1>1, <1>2, <2>1, <2>3 DEF SkipDuplicate, ConsumerTypeOK
  <2>4. CASE AcceptEvent
    <3>1. events' \in Seq(Keys)
      BY <1>1, <2>4, AppendProperties DEF AcceptEvent, ConsumerTypeOK
    <3> QED
      BY <1>1, <1>2, <2>1, <2>4, <3>1 DEF AcceptEvent, ConsumerTypeOK
  <2> QED
    BY <1>3, <2>2, <2>3, <2>4 DEF HandleMessage
<1>4. CASE TimerStep \/ InsertStep
  BY <1>1, <1>4
     DEF TimerStep, WakeTimer, InsertStep, InsertSucceeds, InsertFails, consumerVars,
         dedupeVars, ConsumerTypeOK
<1>5. CASE ProcessStep
  BY <1>1, <1>5
     DEF ProcessStep, StopConsumer, FinalFlush, Exit, Crash, EndProcess, Restart,
         consumerVars, dedupeVars, ConsumerTypeOK
<1>6. CASE AutoCommit \/ Rebalance \/ UNCHANGED vars
  BY <1>1, <1>6 DEF AutoCommit, Rebalance, vars, dedupeVars, ConsumerTypeOK
<1>7. CASE \E m \in Messages : Publish(m)
  BY <1>1, <1>7, AppendProperties DEF Publish, dedupeVars, ConsumerTypeOK
<1> QED
  BY <1>3, <1>4, <1>5, <1>6, <1>7 DEF Next

\* The cache's part: an accepted event is one whose key the cache did not hold.
LEMMA DedupeStep ==
  ASSUME IInv, [Next]_vars
  PROVE  DedupeInv'
<1>1. ConsumerTypeOK /\ DedupeInv /\ Len(events) \in Nat /\ DOMAIN events = EventIds
  BY LenProperties DEF IInv, ConsumerTypeOK, EventIds
<1>2. CASE SkipDuplicate
  <2>1. PICK evicted \in Evictable : Remember(log[position], evicted)
    BY <1>2 DEF SkipDuplicate
  <2>2. events' = events /\ seen \cup forgotten \subseteq seen' \cup forgotten' /\ forgotten \subseteq forgotten'
    BY <1>2, <2>1 DEF SkipDuplicate, Remember
  <2> QED
    BY <1>1, <2>2 DEF DedupeInv, EventIds
<1>3. CASE AcceptEvent
  <2> DEFINE key == log[position]
             e == Len(events) + 1
  <2>1. PICK evicted \in Evictable : ~SeenBefore(key, evicted) /\ Remember(key, evicted)
    BY <1>3 DEF AcceptEvent
  <2>2. key \in Keys /\ events' = Append(events, key)
    BY <1>3 DEF AcceptEvent
  <2>3. /\ seen \cup forgotten \subseteq seen' \cup forgotten' /\ forgotten \subseteq forgotten'
        /\ key \in seen' /\ (key \in seen \cup forgotten => key \in forgotten')
    BY <2>1 DEF Remember, SeenBefore
  <2>4. /\ EventIds' = EventIds \cup {e}
        /\ \A n \in EventIds : events'[n] = events[n]
        /\ events'[e] = key
    BY <1>1, <2>2, AppendProperties DEF EventIds, ConsumerTypeOK
  <2>5. \A n \in EventIds' : events'[n] \in seen' \cup forgotten'
    BY <1>1, <2>3, <2>4 DEF DedupeInv
  <2>6. \A n \in EventIds : events[n] = key => key \in forgotten'
    BY <1>1, <2>3 DEF DedupeInv
  <2>7. \A m, n \in EventIds' : m # n /\ events'[m] = events'[n] => events'[m] \in forgotten'
    BY <1>1, <2>3, <2>4, <2>6 DEF DedupeInv
  <2> QED
    BY <2>5, <2>7 DEF DedupeInv
<1>4. CASE EndProcess
  BY <1>1, <1>4 DEF EndProcess, DedupeInv, EventIds
<1>5. CASE UNCHANGED dedupeVars
  BY <1>1, <1>5 DEF dedupeVars, DedupeInv, EventIds
<1>6. SkipDuplicate \/ AcceptEvent \/ EndProcess \/ UNCHANGED dedupeVars
  BY DEF Next, HandleMessage, DropMessage, RejectMessage, TimerStep, WakeTimer, InsertStep,
         InsertSucceeds, InsertFails, ProcessStep, StopConsumer, FinalFlush, Exit, Crash,
         Restart, AutoCommit, Rebalance, Publish, vars, dedupeVars
<1> QED
  BY <1>2, <1>3, <1>4, <1>5, <1>6

\* The invariant holds in the initial state.
LEMMA Initially == Init => IInv
<1> SUFFICES ASSUME Init
             PROVE  IInv
  OBVIOUS
<1> USE TaskKinds
<1>1. ConsumerTypeOK
  BY EmptySequence DEF Init, ConsumerTypeOK
<1>2. EventIds = {}
  BY EmptySequence DEF Init, EventIds
<1>3. /\ \A t \in Timers : status[t] = "free"
      /\ status[Loop] = "idle" /\ status[Main] = "serving"
  BY DEF Init, Resting
<1>4. \A t \in Task : batch[t] = <<>>
  BY DEF Init
<1>5. WriterTypeOK
  <2>1. StatusOK(status)
    BY <1>3 DEF Init, StatusOK, Statuses, Resting
  <2> QED
    BY <2>1, EmptySequence DEF Init, WriterTypeOK
<1>6. TimerGuardsBuffer /\ BatchesBounded
  BY <1>3, <1>4, EmptySequence, ConstantsAssumption
     DEF Init, TimerGuardsBuffer, BatchesBounded, Inserting, Task
<1>7. OneHolder
  BY <1>4, EmptySequence DEF Init, OneHolder, Held
<1>8. DedupeInv
  BY <1>2 DEF DedupeInv
<1> QED
  BY <1>1, <1>5, <1>6, <1>7, <1>8 DEF IInv, WriterInv

\* The invariant holds in every reachable state.
LEMMA Inductive == Spec => []IInv
<1>1. IInv /\ [Next]_vars => IInv'
  BY WriterStep, ConsumerStep, DedupeStep DEF IInv
<1> QED
  BY <1>1, Initially, PTL DEF Spec

-----------------------------------------------------------------------------
(* Theorems *)

\* Every variable has its type, in every reachable state.
THEOREM TypeCorrect == Spec => []TypeOK
<1>1. IInv => TypeOK
  BY TypeParts DEF IInv, WriterInv
<1> QED
  BY <1>1, Inductive, PTL

\* However size, timer, shutdown and failed inserts interleave, a buffer with
\* events in it has exactly one sleeping timer, and only that one exists
\* (batch_writer.py:71-94).
THEOREM TimerAlwaysGuards == Spec => []TimerGuardsBuffer
<1>1. IInv => TimerGuardsBuffer
  BY DEF IInv, WriterInv
<1> QED
  BY <1>1, Inductive, PTL

\* The buffer stays below the batch size, for any batch size
\* (batch_writer.py:74-78).
THEOREM BatchesAlwaysBounded == Spec => []BatchesBounded
<1>1. IInv => BatchesBounded
  BY DEF IInv, WriterInv
<1> QED
  BY <1>1, Inductive, PTL

\* However many flushes overlap, no accepted event is held twice or written
\* twice (batch_writer.py:86, 99).
THEOREM AlwaysOneHolder == Spec => []OneHolder
<1>1. IInv => OneHolder
  BY DEF IInv, WriterInv
<1> QED
  BY <1>1, Inductive, PTL

\* Two events with one dedupe key mean that a dedupe cache has forgotten the key
\* (consumer.py:31-43, 77-80).
THEOREM DuplicatesNeedForgetting == Spec => []DuplicatesOnlyOfForgotten
<1>1. ASSUME IInv
      PROVE  DuplicatesOnlyOfForgotten
  <2>1. Held \cup table \subseteq EventIds
    BY <1>1, RangeOfSeq DEF IInv, WriterInv, WriterTypeOK, Held
  <2> QED
    BY <1>1, <2>1 DEF IInv, DedupeInv, DuplicatesOnlyOfForgotten
<1> QED
  BY <1>1, Inductive, PTL

\* The end of an insert: the events of its batch, and only they, are held no more.
LEMMA InsertEndHeld ==
  ASSUME WriterInv, NEW t \in Task, buffer' = buffer, batch' = [batch EXCEPT ![t] = <<>>]
  PROVE  Held' = Held \ Range(batch[t]) /\ Range(batch[t]) \subseteq Held
<1>1. \A u \in Task : batch'[u] = IF u = t THEN <<>> ELSE batch[u]
  BY DEF WriterInv, WriterTypeOK
<1>2. \A u \in Task \ {t} : Range(batch[u]) \cap Range(batch[t]) = {}
  BY DEF WriterInv, OneHolder
<1>3. Range(buffer) \cap Range(batch[t]) = {}
  BY DEF WriterInv, OneHolder
<1> QED
  BY <1>1, <1>2, <1>3, EmptySequence DEF Held

\* The end of the process: it holds nothing, and what it stored it had held.
LEMMA EndProcessHeld ==
  ASSUME EndProcess
  PROVE  /\ Held' = {}
         /\ \E written \in SUBSET Held : table' = table \cup written
<1>1. PICK landed \in SUBSET Inserting :
        table' = table \cup UNION {Range(batch[t]) : t \in landed}
  BY DEF EndProcess
<1>2. UNION {Range(batch[t]) : t \in landed} \in SUBSET Held
  BY DEF Held, Inserting
<1>3. buffer' = <<>> /\ \A t \in Task : batch'[t] = <<>>
  BY DEF EndProcess
<1> QED
  BY <1>1, <1>2, <1>3, EmptySequence DEF Held

\* Every step, seen as one of the delivery ledger.
LEMMA LedgerStep ==
  ASSUME IInv, [Next]_vars
  PROVE  \/ /\ Len(events') = Len(events) + 1
            /\ Held' = Held \cup {Len(events) + 1}
            /\ table' = table
         \/ /\ Len(events') = Len(events)
            /\ \E written, lost \in SUBSET Held :
                 /\ written \cap lost = {}
                 /\ table' = table \cup written
                 /\ Held' = Held \ (written \cup lost)
<1> DEFINE Settles ==
      /\ Len(events') = Len(events)
      /\ \E written, lost \in SUBSET Held :
           /\ written \cap lost = {}
           /\ table' = table \cup written
           /\ Held' = Held \ (written \cup lost)
<1>1. WriterInv /\ Len(events) \in Nat /\ events \in Seq(Keys)
  BY LenProperties DEF IInv, ConsumerTypeOK
<1>2. ASSUME events' = events, Held' = Held, table' = table
      PROVE  Settles
  BY <1>2, {} \in SUBSET Held
<1>3. CASE AcceptEvent
  <2>1. /\ log[position] \in Keys /\ status[Loop] = "idle" /\ table' = table
        /\ events' = Append(events, log[position])
        /\ Add(Len(events) + 1)
    BY <1>3 DEF AcceptEvent, Receive
  <2>2. Held' = Held \cup {Len(events) + 1}
    BY <2>1, AddKeepsInv
  <2> QED
    BY <1>1, <2>1, <2>2, AppendProperties
<1>4. CASE TimerStep \/ FinalFlush
  <2>1. CASE TimerStep
    <3>1. PICK t \in Timers : WakeTimer(t)
      BY <2>1 DEF TimerStep
    <3> QED
      BY <1>1, <1>2, <3>1, FlushOfBuffer, TaskKinds DEF WakeTimer, dedupeVars
  <2>2. CASE FinalFlush
    BY <1>1, <1>2, <2>2, FlushOfBuffer, TaskKinds DEF FinalFlush, dedupeVars
  <2> QED
    BY <1>4, <2>1, <2>2
<1>5. CASE InsertStep
  <2>1. PICK t \in Task : InsertSucceeds(t) \/ InsertFails(t)
    BY <1>5 DEF InsertStep
  <2>2. /\ batch' = [batch EXCEPT ![t] = <<>>]
        /\ table' = table \/ table' = table \cup Range(batch[t])
        /\ UNCHANGED <<buffer, events>>
    BY <2>1 DEF InsertSucceeds, InsertFails, dedupeVars
  <2>3. Held' = Held \ Range(batch[t]) /\ Range(batch[t]) \subseteq Held
    BY <1>1, <2>2, InsertEndHeld
  <2>4. CASE table' = table
    <3>1. {} \in SUBSET Held /\ Range(batch[t]) \in SUBSET Held
      BY <2>3
    <3> QED
      BY <2>2, <2>3, <2>4, <3>1
  <2>5. CASE table' = table \cup Range(batch[t])
    <3>1. {} \in SUBSET Held /\ Range(batch[t]) \in SUBSET Held
      BY <2>3
    <3> QED
      BY <2>2, <2>3, <2>5, <3>1
  <2> QED
    BY <2>2, <2>4, <2>5
<1>6. CASE EndProcess
  <2>1. PICK written \in SUBSET Held : table' = table \cup written
    BY <1>6, EndProcessHeld
  <2>2. Held' = Held \ (written \cup (Held \ written)) /\ events' = events
    BY <1>6, EndProcessHeld DEF EndProcess
  <2> QED
    BY <2>1, <2>2, Held \ written \in SUBSET Held
<1>7. CASE UNCHANGED <<buffer, batch, events, table>>
  BY <1>2, <1>7 DEF Held
<1>8. \/ AcceptEvent \/ TimerStep \/ FinalFlush \/ InsertStep \/ EndProcess
      \/ UNCHANGED <<buffer, batch, events, table>>
  BY DEF Next, HandleMessage, DropMessage, RejectMessage, SkipDuplicate, Receive, ProcessStep,
         StopConsumer, Exit, Crash, Restart, AutoCommit, Rebalance, Publish, vars,
         dedupeVars, writerVars
<1> QED
  BY <1>3, <1>4, <1>5, <1>6, <1>7, <1>8

\* The flow writer implements the delivery ledger: whatever fails and whenever,
\* an event is accepted once, leaves the process once, and is stored at most once
\* (batch_writer.py:60-101).
THEOREM WriterImplementsLedger == Spec => ImplementsLedger
<1>1. Init => Ledger!Init
  BY EmptySequence DEF Init, Ledger!Init, Held
<1>2. IInv /\ [Next]_vars => [Ledger!Next]_(Ledger!vars)
  BY LedgerStep DEF Ledger!Next, Ledger!Accept, Ledger!Settle, Ledger!vars
<1> QED
  BY <1>1, <1>2, Inductive, PTL DEF Spec, ImplementsLedger, Ledger!Spec

\* A step that empties the buffer, other than the end of the process, keeps
\* every event that was held.
LEMMA SwapStep ==
  ASSUME IInv, [Next]_vars, buffer # <<>>, buffer' = <<>>, status'[Main] # "down"
  PROVE  Held \subseteq Held'
<1> USE TaskKinds
<1>1. WriterInv /\ Len(events) \in Nat
  BY LenProperties DEF IInv, ConsumerTypeOK
<1>2. CASE AcceptEvent
  <2>1. /\ log[position] \in Keys /\ status[Loop] = "idle" /\ table' = table
        /\ events' = Append(events, log[position])
        /\ Add(Len(events) + 1)
    BY <1>2 DEF AcceptEvent, Receive
  <2> QED
    BY <2>1, AddKeepsInv
<1>3. CASE TimerStep
  <2>1. PICK t \in Timers : WakeTimer(t)
    BY <1>3 DEF TimerStep
  <2> QED
    BY <1>1, <2>1, FlushOfBuffer DEF WakeTimer, dedupeVars
<1>4. CASE FinalFlush
  BY <1>1, <1>4, FlushOfBuffer DEF FinalFlush, dedupeVars
<1>5. CASE EndProcess
  BY <1>5 DEF EndProcess
<1>6. AcceptEvent \/ TimerStep \/ FinalFlush \/ EndProcess \/ buffer' = buffer
  BY DEF Next, HandleMessage, DropMessage, RejectMessage, SkipDuplicate, InsertStep,
         InsertSucceeds, InsertFails, ProcessStep, StopConsumer, Exit, Crash, Restart,
         AutoCommit, Rebalance, Publish, vars, writerVars
<1> QED
  BY <1>2, <1>3, <1>4, <1>5, <1>6

\* A flush gives up no event: neither the batch it takes nor one another task is
\* inserting, whoever's timer it cancels (batch_writer.py:84-96).
THEOREM FlushesLoseNothing == Spec => SwapLosesNothing
<1>1. IInv /\ [Next]_vars =>
        [buffer # <<>> /\ buffer' = <<>> /\ status'[Main] # "down" => Held \subseteq Held']_vars
  BY SwapStep
<1> QED
  BY <1>1, Inductive, PTL DEF Spec, SwapLosesNothing

\* Without failed inserts and without the end of a process, what was accepted is
\* held or stored.
AllKept == EventIds \subseteq Held \cup table

KeptInv == AllKept /\ status[Main] = "serving"

LEMMA KeptStep ==
  ASSUME IInv, KeptInv, Disruptions \cap {"insert", "stop", "crash"} = {}, [Next]_vars
  PROVE  KeptInv'
<1> USE TaskKinds
<1>1. /\ WriterInv /\ Len(events) \in Nat /\ events \in Seq(Keys)
      /\ status \in [Task -> Statuses] /\ status[Main] = "serving" /\ AllKept
  BY LenProperties DEF IInv, ConsumerTypeOK, WriterInv, WriterTypeOK, StatusOK, KeptInv
<1>2. CASE AcceptEvent
  <2>1. /\ log[position] \in Keys /\ status[Loop] = "idle" /\ table' = table
        /\ events' = Append(events, log[position])
        /\ Add(Len(events) + 1)
    BY <1>2 DEF AcceptEvent, Receive
  <2>2. Held' = Held \cup {Len(events) + 1} /\ Len(events') = Len(events) + 1
    BY <1>1, <2>1, AddKeepsInv, AppendProperties
  <2>3. AllKept'
    BY <1>1, <2>1, <2>2 DEF AllKept, EventIds
  <2>4. status'[Main] = status[Main]
    <3>1. PICK t \in IF flushTask = None
                      THEN {u \in Timers : status[u] = "free"} ELSE {flushTask} :
            LET buf == Append(buffer, Len(events) + 1)
                st == IF flushTask = None
                      THEN [status EXCEPT ![t] = "sleeping"] ELSE status
            IN IF Len(buf) >= MaxSize
               THEN Flush(Loop, buf, t, st)
               ELSE /\ buffer' = buf
                    /\ flushTask' = t
                    /\ status' = st
                    /\ UNCHANGED batch
      BY <2>1 DEF Add
    <3> DEFINE st == IF flushTask = None THEN [status EXCEPT ![t] = "sleeping"] ELSE status
    <3>2. t \in Timers
      BY <1>1, <3>1 DEF WriterInv, WriterTypeOK
    <3>3. st[Main] = status[Main]
      BY <1>1, <3>2
    <3>4. \/ Flush(Loop, Append(buffer, Len(events) + 1), t, st)
          \/ status' = st
      BY <3>1
    <3> HIDE DEF st
    <3>5. Main \notin Cancelled(Loop, t)
      BY <3>2 DEF Cancelled
    <3> QED
      BY <3>3, <3>4, <3>5 DEF Flush
  <2> QED
    BY <1>1, <2>3, <2>4 DEF KeptInv
<1>3. CASE TimerStep
  <2>1. PICK t \in Timers : WakeTimer(t)
    BY <1>3 DEF TimerStep
  <2>2. Held' = Held /\ table' = table /\ events' = events
    BY <1>1, <2>1, FlushOfBuffer DEF WakeTimer, dedupeVars
  <2>3. status'[Main] = status[Main]
    BY <1>1, <2>1 DEF WakeTimer, Flush, Cancelled, WriterInv, WriterTypeOK
  <2> QED
    BY <1>1, <2>2, <2>3 DEF KeptInv, AllKept, EventIds
<1>4. CASE InsertStep
  <2>1. PICK t \in Task : InsertSucceeds(t)
    BY <1>4 DEF InsertStep, InsertFails
  <2>2. /\ batch' = [batch EXCEPT ![t] = <<>>] /\ table' = table \cup Range(batch[t])
        /\ UNCHANGED <<buffer, events>> /\ t # Main
        /\ status' = [status EXCEPT ![t] = AfterFlush(t)]
    BY <1>1, <2>1 DEF InsertSucceeds, Inserting, dedupeVars
  <2>3. Held' = Held \ Range(batch[t])
    BY <1>1, <2>2, InsertEndHeld
  <2> QED
    BY <1>1, <2>2, <2>3 DEF KeptInv, AllKept, EventIds
<1>5. CASE ~(AcceptEvent \/ TimerStep \/ InsertStep)
  <2>1. UNCHANGED <<buffer, batch, events, table>> /\ status'[Main] = status[Main]
    BY <1>1, <1>5
       DEF Next, HandleMessage, DropMessage, RejectMessage, SkipDuplicate, Receive, ProcessStep,
           StopConsumer, FinalFlush, Exit, Crash, Restart, AutoCommit, Rebalance, Publish, vars,
           dedupeVars, writerVars
  <2> QED
    BY <1>1, <2>1 DEF KeptInv, AllKept, EventIds, Held
<1> QED
  BY <1>2, <1>3, <1>4, <1>5

\* The delivery guarantee that failed inserts refute does hold without them and
\* while the process stays up: whatever rebalances and expiring cache entries do,
\* a committed record that was accepted is in the table or on its way there
\* (event-flow-record.md:33, batch_writer.py:95-101).
THEOREM OnlyFailuresLose ==
  ASSUME Disruptions \cap {"insert", "stop", "crash"} = {}
  PROVE  Spec => []AcceptedIsDelivered
<1>1. Init => KeptInv
  <2> SUFFICES ASSUME Init PROVE KeptInv
    OBVIOUS
  <2>1. EventIds = {}
    BY EmptySequence DEF Init, EventIds
  <2> QED
    BY <2>1, TaskKinds DEF Init, KeptInv, AllKept, Resting
<1>2. IInv /\ KeptInv /\ [Next]_vars => KeptInv'
  BY KeptStep
<1>3. IInv /\ KeptInv => AcceptedIsDelivered
  <2> SUFFICES ASSUME IInv, KeptInv, NEW i \in 1..Len(log), log[i] \in Range(events)
               PROVE  \E n \in Held \cup table : events[n] = log[i]
    BY DEF AcceptedIsDelivered
  <2>1. PICK n \in DOMAIN events : events[n] = log[i]
    BY DEF Range
  <2>2. n \in EventIds
    BY <2>1, LenProperties DEF IInv, ConsumerTypeOK, EventIds
  <2> QED
    BY <2>1, <2>2 DEF KeptInv, AllKept
<1> QED
  BY <1>1, <1>2, <1>3, Inductive, PTL DEF Spec

-----------------------------------------------------------------------------
(* What the ledger promises *)

\* Events that were accepted are numbered, and no event that is stored is held.
LedgerSound ==
  /\ Len(events) \in Nat
  /\ Held \cup table \subseteq 1..Len(events)
  /\ Held \cap table = {}

\* What has left the ledger's hands never comes back: rows stay, and an event that
\* was stored or given up is neither held nor stored later.
LedgerIsFinal ==
  [][/\ table \subseteq table' /\ table' \ table \subseteq Held
     /\ \A n \in 1..Len(events) : n \notin Held => n \notin Held']_vars

LEMMA LedgerSoundStep ==
  ASSUME LedgerSound, [Ledger!Next]_(Ledger!vars)
  PROVE  /\ LedgerSound'
         /\ table \subseteq table' /\ table' \ table \subseteq Held
         /\ \A n \in 1..Len(events) : n \notin Held => n \notin Held'
<1>1. CASE Ledger!Accept
  <2>1. Len(events') = Len(events) + 1 /\ Held' = Held \cup {Len(events) + 1} /\ table' = table
    BY <1>1 DEF Ledger!Accept
  <2>2. LedgerSound'
    BY <2>1 DEF LedgerSound
  <2> QED
    BY <2>1, <2>2 DEF LedgerSound
<1>2. CASE Ledger!Settle
  BY <1>2 DEF Ledger!Settle, LedgerSound
<1>3. CASE UNCHANGED Ledger!vars
  BY <1>3 DEF Ledger!vars, LedgerSound
<1> QED
  BY <1>1, <1>2, <1>3 DEF Ledger!Next

\* Whatever implements the ledger settles each event once and for all.  With
\* WriterImplementsLedger this is what overlapping flushes, replays, crashes and
\* failed inserts cannot break (batch_writer.py:60-101).
THEOREM LedgerSettlesOnce == Ledger!Spec => []LedgerSound /\ LedgerIsFinal
<1>1. Ledger!Init => LedgerSound
  BY DEF Ledger!Init, LedgerSound
<1>2. LedgerSound /\ [Ledger!Next]_(Ledger!vars) => LedgerSound'
  BY LedgerSoundStep
<1>3. LedgerSound /\ [Ledger!Next]_(Ledger!vars) =>
        [/\ table \subseteq table' /\ table' \ table \subseteq Held
         /\ \A n \in 1..Len(events) : n \notin Held => n \notin Held']_vars
  BY LedgerSoundStep
<1> QED
  BY <1>1, <1>2, <1>3, PTL DEF Ledger!Spec, LedgerIsFinal

\* So the flow writer never takes an event up again that has left it, and deletes
\* no row (batch_writer.py:84-101).
THEOREM WriterSettlesOnce == Spec => LedgerIsFinal
BY WriterImplementsLedger, LedgerSettlesOnce, PTL DEF ImplementsLedger
=============================================================================
