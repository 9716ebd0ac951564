-------------------------- MODULE StalenessProofs ---------------------------
(***************************************************************************)
(* A proof, for any set of sites and any number of disruptions, that the   *)
(* realtime service and identity agree about the sites reported stale.     *)
(***************************************************************************)
EXTENDS Staleness, TLAPS

\* The sites that the pass under way may still report, or is reporting.
Held == sweep.suspects \cup {sweep.site}

\* A site of the pass has been silent since the pass began, or a flow excused it.
HeldAreSilent == \A s \in Sites : s \in Held /\ s \notin excused => s \in silent

\* A request that would make a site active is about a site that sends.
ActiveRequestsSend ==
  \A s \in Sites :
    consumer.site = s \/ [site |-> s, to |-> "active"] \in late => s \notin silent

\* Nothing under way can undo a stale report that still stands.
NothingUndoes ==
  \A s \in Sites :
    reported[s] = "stale" /\ s \notin excused =>
      consumer.site # s /\ [site |-> s, to |-> "active"] \notin late

\* A stale report that stands is awaited or has been carried out.
StaleCarried ==
  \A s \in Sites :
    reported[s] = "stale" /\ s \notin excused =>
      status[s] = "stale" \/ (sweep.site = s /\ sweep.step = "status")

\* A task that awaits a request awaits it for a site.
TasksNamed ==
  /\ consumer.step \in {"status", "seen"} => consumer.site \in Sites
  /\ sweep.step \in {"status", "push"} => sweep.site \in Sites

\* Fails without any of its parts: a report could be undone by a request that
\* was late, or by one about a site that the sweep had taken for silent before.
IInv == TypeOK /\ TasksNamed /\ HeldAreSilent /\ ActiveRequestsSend /\ NothingUndoes /\ StaleCarried

-----------------------------------------------------------------------------
\* What the consumer may be doing.
ConsumerType ==
  [step : {"idle", "status", "seen", "dead"}, site : Sites \cup {NoSite}, due : BOOLEAN]

\* The reports of the two tasks keep their types.
LEMMA PostedType ==
  ASSUME TypeOK, NEW r \in Request, Posted(r)
  PROVE  /\ status' \in [Sites -> {"never_connected", "active", "stale"}]
         /\ late' \subseteq Request
         /\ faults' \in 0..MaxFaults
BY ConstantsAssumption DEF TypeOK, Posted, Carry, Fault, Request

\* Where a pass goes on, it marks one of the sites it holds or goes to sleep.
LEMMA AdvanceHolds ==
  ASSUME IInv, NEW suspects \in SUBSET Sites, Advance(suspects)
  PROVE  /\ reported' \in [Sites -> {"active", "stale"}]
         /\ sweep' \in [step : {"asleep", "status", "push"},
                        site : Sites \cup {NoSite}, suspects : SUBSET Sites]
         /\ Held' \subseteq suspects \cup {NoSite}
         /\ sweep'.step = "status" => sweep'.site \in Sites
         /\ sweep'.step # "push"
         /\ \A s \in Sites : reported'[s] = "stale" =>
              reported[s] = "stale" \/ (s \in suspects /\ sweep'.site = s /\ sweep'.step = "status")
<1>1. CASE \E s \in suspects : \E left \in SUBSET suspects : Mark(s, left)
  <2>1. PICK s \in suspects, left \in SUBSET suspects : Mark(s, left)
    BY <1>1
  <2> QED
    BY <2>1 DEF Mark, IInv, TypeOK, Held
<1>2. CASE sweep' = SweepAsleep /\ UNCHANGED reported
  BY <1>2 DEF SweepAsleep, IInv, TypeOK, Held
<1>3. (\E s \in suspects : \E left \in SUBSET suspects : Mark(s, left))
      \/ (sweep' = SweepAsleep /\ UNCHANGED reported)
  <2>1. ASSUME NEW s \in suspects, NEW skipped, Mark(s, suspects \ (skipped \cup {s}))
        PROVE  \E left \in SUBSET suspects : Mark(s, left)
    BY <2>1
  <2> QED
    BY <2>1 DEF Advance
<1> QED
  BY <1>1, <1>2, <1>3

-----------------------------------------------------------------------------
\* A flow makes its site send, and excuses it when the pass holds it.
LEMMA FlowKeepsInv ==
  ASSUME IInv, NEW s \in Sites, FlowArrives(s)
  PROVE  IInv'
<1> USE ConstantsAssumption
<1>1. /\ consumer' \in ConsumerType
      /\ consumer'.site \in {NoSite, s}
      /\ consumer'.step \in {"status", "seen"} => consumer'.site = s
  <2>1. CASE Recover(s)
    <3>1. (s \notin throttled) \in BOOLEAN
      OBVIOUS
    <3>2. PICK due \in BOOLEAN : consumer' = [step |-> "status", site |-> s, due |-> due]
      BY <2>1, <3>1 DEF Recover
    <3> QED
      BY <3>2 DEF ConsumerType
  <2>2. CASE ReportSeen(s, s \notin throttled)
    <3>1. consumer' = [step |-> "seen", site |-> s, due |-> FALSE]
          \/ consumer' = [step |-> "idle", site |-> NoSite, due |-> FALSE]
      BY <2>2 DEF ReportSeen, ConsumerIdle
    <3>2. CASE consumer' = [step |-> "seen", site |-> s, due |-> FALSE]
      BY <3>2 DEF ConsumerType
    <3>3. CASE consumer' = [step |-> "idle", site |-> NoSite, due |-> FALSE]
      BY <3>3 DEF ConsumerType
    <3> QED
      BY <3>1, <3>2, <3>3
  <2> QED
    BY <2>1, <2>2 DEF FlowArrives
<1>2. reported' \in [Sites -> {"active", "stale"}] /\ throttled' \subseteq Sites
  BY DEF IInv, TypeOK, FlowArrives, Recover, ReportSeen
<1>3. reported'[s] # "stale" /\ \A t \in Sites \ {s} : reported'[t] = reported[t]
  BY DEF IInv, TypeOK, FlowArrives, Recover
<1>4. /\ silent' = silent \ {s} /\ excused' \subseteq Sites /\ tracked' \subseteq Sites
      /\ s \in Held => s \in excused'
      /\ \A t \in Sites \ {s} : t \in excused' <=> t \in excused
  BY DEF IInv, TypeOK, FlowArrives, Held
<1>5. UNCHANGED <<sweep, late, status, faults>>
  BY DEF FlowArrives
<1>6. TypeOK'
  BY <1>1, <1>2, <1>4, <1>5 DEF IInv, TypeOK, ConsumerType
<1>11. TasksNamed'
  BY <1>1, <1>5 DEF IInv, TasksNamed
<1>7. HeldAreSilent'
  BY <1>4, <1>5 DEF IInv, HeldAreSilent, Held
<1>8. ActiveRequestsSend'
  BY <1>1, <1>4, <1>5 DEF IInv, ActiveRequestsSend
<1>9. NothingUndoes'
  BY <1>1, <1>3, <1>4, <1>5 DEF IInv, NothingUndoes
<1>10. StaleCarried'
  BY <1>3, <1>4, <1>5 DEF IInv, StaleCarried
<1> QED
  BY <1>6, <1>7, <1>8, <1>9, <1>10, <1>11 DEF IInv

\* The consumer's own report makes active only a site that no stale report of
\* which still stands.
LEMMA ConsumerKeepsInv ==
  ASSUME IInv, ActivePosted \/ SeenPosted
  PROVE  IInv'
<1> USE ConstantsAssumption
<1> DEFINE r == [site |-> consumer.site, to |-> "active"]
<1>1. consumer.step \in {"status", "seen"} /\ Posted(r)
  BY DEF ActivePosted, SeenPosted
<1>2. /\ consumer' = ConsumerIdle \/ consumer' = [step |-> "seen", site |-> consumer.site, due |-> FALSE]
      /\ throttled' \subseteq Sites
  <2>1. CASE ActivePosted
    BY <1>1, <2>1 DEF ActivePosted, ReportSeen, IInv, TypeOK, TasksNamed
  <2>2. CASE SeenPosted
    BY <2>2 DEF SeenPosted, IInv, TypeOK
  <2> QED
    BY <2>1, <2>2
<1>3. UNCHANGED <<tracked, silent, reported, sweep, excused>>
  BY DEF ActivePosted, SeenPosted
<1>4. r \in Request
  BY <1>1 DEF IInv, TypeOK, TasksNamed, Request
<1>5. /\ late' \subseteq late \cup {r}
      /\ \A s \in Sites : status'[s] = status[s] \/ s = consumer.site
  BY <1>1, <1>4 DEF Posted, Carry, IInv, TypeOK, Request
<1>6. TypeOK'
  <2>1. consumer' \in ConsumerType
    <3>1. CASE consumer' = ConsumerIdle
      BY <3>1 DEF ConsumerIdle, ConsumerType
    <3>2. CASE consumer' = [step |-> "seen", site |-> consumer.site, due |-> FALSE]
      BY <1>1, <3>2 DEF IInv, TasksNamed, ConsumerType
    <3> QED
      BY <1>2, <3>1, <3>2
  <2> QED
    BY <1>1, <1>2, <1>3, <1>4, <2>1, PostedType DEF IInv, TypeOK, ConsumerType
<1>7. TasksNamed'
  BY <1>1, <1>2, <1>3 DEF IInv, TasksNamed, ConsumerIdle
<1>8. HeldAreSilent'
  BY <1>3 DEF IInv, HeldAreSilent, Held
<1>9. ActiveRequestsSend'
  BY <1>2, <1>3, <1>5 DEF IInv, ActiveRequestsSend, ConsumerIdle
<1>10. NothingUndoes'
  BY <1>2, <1>3, <1>5 DEF IInv, NothingUndoes, ConsumerIdle
<1>11. StaleCarried'
  BY <1>3, <1>5 DEF IInv, StaleCarried, NothingUndoes
<1> QED
  BY <1>6, <1>7, <1>8, <1>9, <1>10, <1>11 DEF IInv

\* A pass takes only silent sites for stale.
LEMMA AdvanceKeepsInv ==
  ASSUME IInv, NEW suspects \in SUBSET Sites, Advance(suspects),
         suspects \subseteq Overdue \/ suspects \subseteq sweep.suspects,
         sweep.step # "status",
         UNCHANGED <<tracked, silent, throttled, consumer, late, status, excused, faults>>
  PROVE  IInv'
<1>1. /\ reported' \in [Sites -> {"active", "stale"}]
      /\ sweep' \in [step : {"asleep", "status", "push"},
                     site : Sites \cup {NoSite}, suspects : SUBSET Sites]
      /\ Held' \subseteq suspects \cup {NoSite}
      /\ sweep'.step = "status" => sweep'.site \in Sites
      /\ sweep'.step # "push"
      /\ \A s \in Sites : reported'[s] = "stale" =>
           reported[s] = "stale" \/ (s \in suspects /\ sweep'.site = s /\ sweep'.step = "status")
  BY AdvanceHolds
<1>2. \A s \in suspects : s \notin excused => s \in silent
  BY DEF IInv, HeldAreSilent, Held, Overdue
<1>3. TypeOK' /\ TasksNamed' /\ ActiveRequestsSend'
  BY <1>1 DEF IInv, TypeOK, TasksNamed, ActiveRequestsSend
<1>4. HeldAreSilent'
  BY <1>1, <1>2, ConstantsAssumption DEF HeldAreSilent
<1>5. NothingUndoes'
  BY <1>1, <1>2 DEF IInv, NothingUndoes, ActiveRequestsSend
<1>6. StaleCarried'
  BY <1>1 DEF IInv, StaleCarried
<1> QED
  BY <1>3, <1>4, <1>5, <1>6 DEF IInv

\* The sweep's report makes its site stale, or the site is excused.
LEMMA SweepKeepsInv ==
  ASSUME IInv, StalePosted
  PROVE  IInv'
<1> USE ConstantsAssumption
<1> DEFINE r == [site |-> sweep.site, to |-> "stale"]
<1>1. r \in Request /\ Posted(r) /\ sweep.site \in Sites
  BY DEF StalePosted, IInv, TasksNamed, Request
<1>2. /\ sweep' = [sweep EXCEPT !.step = "push"]
      /\ UNCHANGED <<tracked, silent, reported, throttled, consumer>>
      /\ excused' = IF faults' = faults THEN excused ELSE excused \cup {sweep.site}
  BY DEF StalePosted
<1>3. \/ faults' = faults /\ status' = [status EXCEPT ![sweep.site] = "stale"] /\ late' = late
      \/ faults' # faults /\ status' = status /\ late' \subseteq late \cup {r}
  BY <1>1 DEF Posted, Carry, Fault, Request, IInv, TypeOK
<1>4. TypeOK' /\ TasksNamed'
  BY <1>1, <1>2, PostedType DEF IInv, TypeOK, TasksNamed
<1>5. HeldAreSilent'
  BY <1>2 DEF IInv, TypeOK, HeldAreSilent, Held
<1>6. ActiveRequestsSend' /\ NothingUndoes'
  BY <1>2, <1>3 DEF IInv, ActiveRequestsSend, NothingUndoes
<1>7. StaleCarried'
  BY <1>1, <1>2, <1>3 DEF IInv, TypeOK, StaleCarried
<1> QED
  BY <1>4, <1>5, <1>6, <1>7 DEF IInv

\* A late request undoes no report that stands.
LEMMA LateKeepsInv ==
  ASSUME IInv, NEW r \in Request, CarryLate(r)
  PROVE  IInv'
<1>1. /\ status' = [status EXCEPT ![r.site] = r.to]
      /\ late' = late \ {r} /\ r \in late
      /\ UNCHANGED <<tracked, silent, reported, throttled, consumer, sweep, excused, faults>>
  BY DEF CarryLate, Carry
<1>2. r.site \in Sites /\ r.to \in {"active", "stale"} /\ r = [site |-> r.site, to |-> r.to]
  BY DEF Request
<1>3. TypeOK' /\ TasksNamed' /\ HeldAreSilent' /\ ActiveRequestsSend' /\ NothingUndoes'
  BY <1>1, <1>2 DEF IInv, TypeOK, TasksNamed, HeldAreSilent, Held, ActiveRequestsSend, NothingUndoes
<1>4. StaleCarried'
  BY <1>1, <1>2 DEF IInv, TypeOK, StaleCarried, NothingUndoes
<1> QED
  BY <1>3, <1>4 DEF IInv

\* A new process knows of no report.
LEMMA RestartKeepsInv ==
  ASSUME IInv, Restart
  PROVE  IInv'
<1> USE ConstantsAssumption
<1>1. PICK sent \in SUBSET Awaited : late' = late \cup sent
  BY DEF Restart
<1>2. /\ tracked' = {} /\ throttled' = {} /\ excused' = {}
      /\ reported' = [s \in Sites |-> "active"]
      /\ consumer' = ConsumerIdle /\ sweep' = SweepAsleep
      /\ faults' \in 0..MaxFaults
      /\ UNCHANGED <<silent, status>>
  BY DEF Restart, Fault, IInv, TypeOK
<1>3. Awaited \subseteq Request
      /\ \A s \in Sites : [site |-> s, to |-> "active"] \in Awaited => s \notin silent
  BY DEF Awaited, Request, IInv, TasksNamed, ActiveRequestsSend
<1>4. TypeOK' /\ TasksNamed'
  BY <1>1, <1>2, <1>3 DEF IInv, TypeOK, TasksNamed, ConsumerIdle, SweepAsleep
<1>5. HeldAreSilent' /\ NothingUndoes' /\ StaleCarried'
  BY <1>2 DEF HeldAreSilent, Held, SweepAsleep, NothingUndoes, StaleCarried
<1>6. ActiveRequestsSend'
  BY <1>1, <1>2, <1>3 DEF IInv, ActiveRequestsSend, ConsumerIdle
<1> QED
  BY <1>4, <1>5, <1>6 DEF IInv

\* The rest of the steps touch no report.
LEMMA TimeKeepsInv ==
  ASSUME IInv,
         (\E s \in Sites : GoesSilent(s) \/ ThrottleEnds(s)) \/ ConsumerDies \/ UNCHANGED vars
  PROVE  IInv'
<1> USE ConstantsAssumption
<1>1. ASSUME NEW s \in Sites, GoesSilent(s)
      PROVE  IInv'
  <2>1. TypeOK' /\ TasksNamed' /\ HeldAreSilent' /\ NothingUndoes' /\ StaleCarried'
    BY <1>1 DEF GoesSilent, IInv, TypeOK, TasksNamed, HeldAreSilent, Held, NothingUndoes, StaleCarried
  <2>2. ActiveRequestsSend'
    BY <1>1 DEF GoesSilent, IInv, ActiveRequestsSend
  <2> QED
    BY <2>1, <2>2 DEF IInv
<1>2. ASSUME NEW s \in Sites, ThrottleEnds(s)
      PROVE  IInv'
  BY <1>2 DEF ThrottleEnds, IInv, TypeOK, TasksNamed, HeldAreSilent, Held, ActiveRequestsSend,
              NothingUndoes, StaleCarried
<1>3. CASE ConsumerDies
  <2>1. TypeOK' /\ TasksNamed'
    <3>1. consumer' = [step |-> "dead", site |-> NoSite, due |-> FALSE]
      BY <1>3, Zenon DEF ConsumerDies, ConsumerIdle
    <3>2. consumer' \in ConsumerType /\ consumer'.step = "dead"
      BY <3>1 DEF ConsumerType
    <3>3. /\ faults' \in 0..MaxFaults
          /\ UNCHANGED <<tracked, silent, reported, throttled, sweep, late, status, excused>>
      BY <1>3 DEF ConsumerDies, Fault, IInv, TypeOK
    <3> QED
      BY <3>2, <3>3 DEF IInv, TypeOK, TasksNamed, ConsumerType
  <2>2. HeldAreSilent' /\ ActiveRequestsSend' /\ NothingUndoes' /\ StaleCarried'
    BY <1>3 DEF ConsumerDies, ConsumerIdle, IInv, HeldAreSilent, Held, ActiveRequestsSend,
                NothingUndoes, StaleCarried
  <2> QED
    BY <2>1, <2>2 DEF IInv
<1>4. CASE UNCHANGED vars
  BY <1>4 DEF vars, IInv, TypeOK, TasksNamed, HeldAreSilent, Held, ActiveRequestsSend,
              NothingUndoes, StaleCarried
<1> QED
  BY <1>1, <1>2, <1>3, <1>4

\* IInv holds at first and every step keeps it.
LEMMA Inductive == Spec => []IInv
<1>1. Init => IInv
  BY ConstantsAssumption
     DEF Init, ConsumerIdle, SweepAsleep, IInv, TypeOK, TasksNamed, HeldAreSilent, Held,
         ActiveRequestsSend, NothingUndoes, StaleCarried
<1>2. ASSUME IInv, [Next]_vars
      PROVE  IInv'
  <2>1. CASE BeginSweep
    <3>1. Overdue \subseteq Sites /\ sweep.step # "status"
      BY <1>2, <2>1 DEF BeginSweep, SweepAsleep, IInv, TypeOK, Overdue
    <3> QED
      BY <1>2, <2>1, <3>1, AdvanceKeepsInv DEF BeginSweep
  <2>2. CASE Pushed
    <3>1. sweep.suspects \subseteq Sites
      BY <1>2 DEF IInv, TypeOK
    <3> QED
      BY <1>2, <2>2, <3>1, AdvanceKeepsInv DEF Pushed
  <2>3. CASE \E s \in Sites : FlowArrives(s)
    BY <1>2, <2>3, FlowKeepsInv
  <2>4. CASE ActivePosted \/ SeenPosted
    BY <1>2, <2>4, ConsumerKeepsInv
  <2>5. CASE StalePosted
    BY <1>2, <2>5, SweepKeepsInv
  <2>6. CASE \E r \in Request : CarryLate(r)
    BY <1>2, <2>6, LateKeepsInv
  <2>7. CASE Restart
    BY <1>2, <2>7, RestartKeepsInv
  <2>8. CASE (\E s \in Sites : GoesSilent(s) \/ ThrottleEnds(s)) \/ ConsumerDies \/ UNCHANGED vars
    BY <1>2, <2>8, TimeKeepsInv
  <2> QED
    BY <1>2, <2>1, <2>2, <2>3, <2>4, <2>5, <2>6, <2>7, <2>8 DEF Next, ConsumerStep, SweepStep
<1> QED
  BY <1>1, <1>2, PTL DEF Spec

\* A site that realtime believes it reported stale is stale in identity, but for
\* reports that failed and flows that crossed a sweep, however requests overtake
\* one another and whenever the process restarts (staleness.py:27-73).
THEOREM StaleReportsStand == Spec => []ReportedStaleIsStale
<1>1. IInv => ReportedStaleIsStale
  BY DEF IInv, StaleCarried, ReportedStaleIsStale, Pending
<1> QED
  BY <1>1, Inductive, PTL
=============================================================================
