--------------------------- MODULE AlertingProofs ---------------------------
(***************************************************************************)
(* Proofs, for any rules, owners, sites and thresholds, that the evaluator *)
(* raises events only for sites its owner could see and once per episode   *)
(* of a condition, that the two stores it writes agree about every rule,   *)
(* and that the service implements the abstract book of alerts.            *)
(***************************************************************************)
EXTENDS Alerting, FiniteSetTheorems, TLAPS

\* The types of the evaluator's locals, the rules fetched and the rest.
Job == [id : Rules \cup {NoRule}, threshold : Thresholds \cup {0},
        sites : SUBSET Sites, granted : SUBSET Sites, met : BOOLEAN,
        event : EventIds \cup {NoEvent}]

Waits == {"known", "sum", "isactive", "insert", "setkey", "getkey", "update", "delkey"}

\* Outside the evaluation of a rule there are no locals, within it they name a
\* rule that was created.
JobNamed ==
  \/ pc \in {"asleep", "scope"} /\ job = NoJob
  \/ pc \in Waits /\ job.id \in Rules /\ rules[job.id] # Unused

\* No rule is fetched, has an event or has a key before it is created.
Started ==
  /\ \A t \in todo : rules[t.id] # Unused
  /\ \A r \in Rules : dedup[r] # NoEvent => rules[r] # Unused
  /\ \A e \in open : e.rule \in Live

\* The sites in hand are some that the owner could see.
WithinGrant ==
  /\ pc = "known" => job.granted = Sites
  /\ pc \in {"sum", "isactive", "insert"} => job.sites # {} /\ job.sites \subseteq job.granted

Typed ==
  /\ rules \in [Rules -> RuleRow \cup {Unused, Deleted}]
  /\ open \subseteq Event
  /\ dedup \in [Rules -> EventIds \cup {NoEvent}]
  /\ volume \in [Sites -> 0..MaxVolume]
  /\ known \subseteq Sites
  /\ scope \in [Owners -> Scope]
  /\ todo \subseteq [id : Rules, rule : RuleRow]
  /\ job \in Job
  /\ faults \subseteq Disruptions
  /\ lasting \subseteq Rules

GrantInv == Typed /\ JobNamed /\ Started /\ WithinGrant

-----------------------------------------------------------------------------
\* Without restrictions a user reaches all sites, else those of the scope.
LEMMA ScopeReaches ==
  ASSUME NEW s \in Scope
  PROVE  /\ s.all \in BOOLEAN /\ s.sites \subseteq Sites /\ Reach(s) \subseteq Sites
         /\ s.all => Reach(s) = Sites
         /\ ~s.all => Reach(s) = s.sites
<1>1. CASE s = [all |-> TRUE, sites |-> {}]
  BY <1>1 DEF Reach
<1>2. CASE s \in [all : {FALSE}, sites : SUBSET Sites]
  <2>1. s.all = FALSE /\ s.sites \subseteq Sites
    BY <1>2
  <2>2. Reach(s) = s.sites
    BY <2>1 DEF Reach
  <2> QED
    BY <2>1, <2>2
<1> QED
  BY <1>1, <1>2 DEF Scope

LEMMA NoJobTyped == NoJob \in Job
BY DEF NoJob, Job

\* What an await may do to the evaluator: it returns, or it goes on with locals
\* of the same rule.
LEMMA AwaitKeepsInv ==
  ASSUME GrantInv, NEW next \in Waits, NEW locals \in Job, Await(next, locals),
         locals.id \in Rules, rules[locals.id] # Unused,
         next = "known" => locals.granted = Sites,
         next \in {"sum", "isactive", "insert"} =>
           locals.sites # {} /\ locals.sites \subseteq locals.granted,
         todo' \subseteq todo, UNCHANGED <<ruleVars, open, dedup, lasting>>,
         faults' \subseteq Disruptions
  PROVE  GrantInv'
<1>1. pc' = next /\ job' = locals
  BY DEF Await
<1>2. Typed'
  BY <1>1 DEF GrantInv, Typed, ruleVars
<1>3. JobNamed'
  BY <1>1 DEF JobNamed, ruleVars
<1>4. Started' /\ WithinGrant'
  BY <1>1 DEF GrantInv, Started, WithinGrant, ruleVars, Live, Waits
<1> QED
  BY <1>2, <1>3, <1>4 DEF GrantInv

LEMMA ReturnKeepsInv ==
  ASSUME GrantInv, Return, todo' \subseteq [id : Rules, rule : RuleRow],
         \A t \in todo' : rules[t.id] # Unused,
         UNCHANGED <<ruleVars, open>>, dedup' \in [Rules -> EventIds \cup {NoEvent}],
         \A r \in Rules : dedup'[r] # NoEvent => rules[r] # Unused,
         lasting' \subseteq Rules, faults' \subseteq Disruptions
  PROVE  GrantInv'
<1>1. job' = NoJob /\ pc' \in {"asleep", "scope"}
  BY DEF Return, Await
<1>2. Typed'
  BY <1>1, NoJobTyped DEF GrantInv, Typed, ruleVars
<1>3. JobNamed' /\ Started' /\ WithinGrant'
  BY <1>1 DEF GrantInv, JobNamed, Started, WithinGrant, ruleVars, Live
<1> QED
  BY <1>2, <1>3 DEF GrantInv

LEMMA FetchKeepsInv ==
  ASSUME GrantInv, FetchRules
  PROVE  GrantInv'
<1>1. \A r \in Enabled : r \in Rules /\ rules[r] \in RuleRow /\ rules[r] # Unused
  BY DEF GrantInv, Typed, Enabled, Live
<1>2. todo' = {[id |-> r, rule |-> rules[r]] : r \in Enabled}
  BY DEF FetchRules
<1>3. todo' \subseteq [id : Rules, rule : RuleRow] /\ \A t \in todo' : rules[t.id] # Unused
  BY <1>1, <1>2
<1> QED
  BY <1>3, ReturnKeepsInv DEF FetchRules, GrantInv, Typed, Started

LEMMA ScopeKeepsInv ==
  ASSUME GrantInv, ReadScope
  PROVE  GrantInv'
<1> USE ConstantsAssumption
<1>1. PICK next \in todo, sc \in Scope :
        LET sites == Evaluated(next.rule, sc)
            orgWide == next.rule.site = NoSite
            locals == [NoJob EXCEPT !.id = next.id, !.threshold = next.rule.threshold,
                                    !.granted = Reach(scope[next.rule.owner])]
        IN /\ OwnerScope(next.rule.owner, sc)
           /\ todo' = todo \ {next}
           /\ \/ orgWide /\ sc.all /\ Await("known", locals)
              \/ ~(orgWide /\ sc.all) /\ sites # {} /\ Await("sum", [locals EXCEPT !.sites = sites])
              \/ orgWide /\ ~sc.all /\ sites = {} /\ Return
              \/ ~orgWide /\ sites = {} /\ Resolve(next.id)
  BY DEF ReadScope
<1> DEFINE granted == Reach(scope[next.rule.owner])
           sites == Evaluated(next.rule, sc)
           locals == [NoJob EXCEPT !.id = next.id, !.threshold = next.rule.threshold,
                                   !.granted = granted]
<1>2. next.id \in Rules /\ next.rule \in RuleRow /\ rules[next.id] # Unused
  BY <1>1 DEF GrantInv, Typed, Started
<1>3. next.rule.owner \in Owners /\ next.rule.threshold \in Thresholds
      /\ next.rule.site \in Sites \cup {NoSite}
  BY <1>2 DEF RuleRow
<1>4. scope[next.rule.owner] \in Scope
  BY <1>3 DEF GrantInv, Typed
<1>5. \A s \in Scope : s.all \in BOOLEAN /\ s.sites \subseteq Sites /\ Reach(s) \subseteq Sites
                       /\ (s.all => Reach(s) = Sites) /\ (~s.all => Reach(s) = s.sites)
  BY ScopeReaches
<1>6. granted \subseteq Sites
  BY <1>4, <1>5
<1>7. locals \in Job
  <2> DEFINE named == [NoJob EXCEPT !.id = next.id]
             bounded == [named EXCEPT !.threshold = next.rule.threshold]
  <2>1. named \in Job
    BY <1>2, NoJobTyped DEF Job
  <2>2. bounded \in Job
    <3> HIDE DEF named
    <3> QED
      BY <1>3, <2>1 DEF Job
  <2>3. [bounded EXCEPT !.granted = granted] \in Job
    <3> HIDE DEF bounded, granted
    <3> QED
      BY <1>6, <2>2 DEF Job
  <2> QED
    BY <2>3
<1>8. locals.id = next.id /\ locals.granted = granted
  BY NoJobTyped DEF Job
<1>9. (sc = scope[next.rule.owner] \/ sc = NoScope) /\ faults' \subseteq Disruptions
  BY <1>1 DEF OwnerScope, Fault, GrantInv, Typed
<1>10. UNCHANGED <<ruleVars, open, dedup, lasting>> /\ todo' \subseteq todo
  BY <1>1 DEF ReadScope
<1>11. ~NoScope.all /\ NoScope.sites = {}
  BY DEF NoScope
<1>12. CASE next.rule.site = NoSite /\ sc.all
  <2>1. Await("known", locals)
    BY <1>1, <1>12
  <2>2. granted = Sites
    BY <1>4, <1>5, <1>9, <1>11, <1>12
  <2> HIDE DEF locals, granted
  <2> QED
    BY <1>2, <1>7, <1>8, <1>9, <1>10, <2>1, <2>2, AwaitKeepsInv DEF Waits
<1>13. CASE ~(next.rule.site = NoSite /\ sc.all) /\ sites # {}
  <2>1. Await("sum", [locals EXCEPT !.sites = sites])
    BY <1>1, <1>13
  <2>2. sites \subseteq granted
    BY <1>4, <1>5, <1>9, <1>11, <1>13 DEF Evaluated
  <2> DEFINE watching == [locals EXCEPT !.sites = sites]
  <2>3. sites \subseteq Sites
    BY <1>6, <2>2
  <2>4. watching \in Job /\ watching.id = next.id /\ watching.sites = sites /\ watching.granted = granted
    <3> HIDE DEF locals, granted, sites
    <3> QED
      BY <1>7, <1>8, <2>3 DEF Job
  <2>5. Await("sum", watching)
    BY <2>1
  <2> HIDE DEF watching, locals, granted, sites
  <2> QED
    BY <1>2, <1>9, <1>10, <1>13, <2>2, <2>4, <2>5, AwaitKeepsInv DEF Waits
<1>14. CASE ~(next.rule.site = NoSite /\ sc.all) /\ sites = {}
  <2>1. Return \/ Resolve(next.id)
    BY <1>1, <1>14
  <2>2. CASE Return
    BY <1>9, <1>10, <2>2, ReturnKeepsInv DEF GrantInv, Typed, Started
  <2>3. CASE Resolve(next.id)
    <3> DEFINE named == [NoJob EXCEPT !.id = next.id]
    <3>1. named \in Job /\ named.id = next.id
      BY <1>2, NoJobTyped DEF Job
    <3>2. Await("getkey", named)
      BY <2>3 DEF Resolve
    <3> HIDE DEF named
    <3> QED
      BY <1>2, <1>9, <1>10, <3>1, <3>2, AwaitKeepsInv DEF Waits
  <2> QED
    BY <2>1, <2>2, <2>3
<1> QED
  BY <1>12, <1>13, <1>14

\* The evaluator's other waits, in which the rule in hand stays the same.
LEMMA KnownKeepsInv ==
  ASSUME GrantInv, ReadKnownSites
  PROVE  GrantInv'
<1>1. job \in Job /\ job.id \in Rules /\ rules[job.id] # Unused /\ job.granted = Sites
  BY DEF GrantInv, Typed, JobNamed, WithinGrant, ReadKnownSites
<1>2. UNCHANGED <<ruleVars, open, dedup, lasting, faults, todo>> /\ known \subseteq Sites
      /\ faults \subseteq Disruptions
  BY DEF ReadKnownSites, GrantInv, Typed
<1>3. CASE known = {}
  BY <1>2, <1>3, ReturnKeepsInv DEF ReadKnownSites, GrantInv, Typed, Started
<1>4. CASE known # {}
  <2> DEFINE watching == [job EXCEPT !.sites = known]
  <2>1. watching \in Job
    BY <1>1, <1>2 DEF Job
  <2>2. watching.id = job.id /\ watching.sites = known /\ watching.granted = job.granted
    BY <1>1 DEF Job
  <2>3. Await("sum", watching)
    BY <1>4 DEF ReadKnownSites
  <2> HIDE DEF watching
  <2> QED
    BY <1>1, <1>2, <1>4, <2>1, <2>2, <2>3, AwaitKeepsInv DEF Waits
<1> QED
  BY <1>3, <1>4

LEMMA SumKeepsInv ==
  ASSUME GrantInv, SumWindow
  PROVE  GrantInv'
<1>1. job \in Job /\ job.id \in Rules /\ rules[job.id] # Unused
      /\ job.sites # {} /\ job.sites \subseteq job.granted
  BY DEF GrantInv, Typed, JobNamed, WithinGrant, SumWindow
<1>2. UNCHANGED <<ruleVars, open, dedup, lasting, faults, todo>> /\ faults \subseteq Disruptions
  BY DEF SumWindow, GrantInv, Typed
<1>3. (Volume(job.sites) >= job.threshold) \in BOOLEAN
  OBVIOUS
<1>4. PICK met \in BOOLEAN : Await("isactive", [job EXCEPT !.met = met])
  BY <1>3 DEF SumWindow
<1> DEFINE answered == [job EXCEPT !.met = met]
<1>5. answered \in Job
  BY <1>1 DEF Job
<1>6. answered.id = job.id /\ answered.sites = job.sites /\ answered.granted = job.granted
  BY <1>1 DEF Job
<1>7. Await("isactive", answered)
  BY <1>4
<1> HIDE DEF answered
<1> QED
  BY <1>1, <1>2, <1>5, <1>6, <1>7, AwaitKeepsInv DEF Waits

LEMMA ResolveKeepsInv ==
  ASSUME GrantInv, job.id \in Rules, rules[job.id] # Unused, Resolve(job.id),
         UNCHANGED <<ruleVars, open, dedup, todo, lasting, faults>>
  PROVE  GrantInv'
<1> DEFINE named == [NoJob EXCEPT !.id = job.id]
<1>1. named \in Job /\ named.id = job.id
  BY NoJobTyped DEF Job
<1>2. Await("getkey", named) /\ faults' \subseteq Disruptions
  BY DEF Resolve, GrantInv, Typed
<1> HIDE DEF named
<1> QED
  BY <1>1, <1>2, AwaitKeepsInv DEF Waits

LEMMA ActiveKeepsInv ==
  ASSUME GrantInv, IsActive
  PROVE  GrantInv'
<1>1. job \in Job /\ job.id \in Rules /\ rules[job.id] # Unused
      /\ job.sites # {} /\ job.sites \subseteq job.granted
  BY DEF GrantInv, Typed, JobNamed, WithinGrant, IsActive
<1>2. UNCHANGED <<ruleVars, open, dedup, lasting, faults, todo>> /\ faults \subseteq Disruptions
  BY DEF IsActive, GrantInv, Typed
<1>3. Await("insert", job) \/ Resolve(job.id) \/ Return
  BY DEF IsActive
<1>4. CASE Await("insert", job)
  BY <1>1, <1>2, <1>4, AwaitKeepsInv DEF Waits
<1>5. CASE Resolve(job.id)
  BY <1>1, <1>2, <1>5, ResolveKeepsInv
<1>6. CASE Return
  BY <1>2, <1>6, ReturnKeepsInv DEF GrantInv, Typed, Started
<1> QED
  BY <1>3, <1>4, <1>5, <1>6

LEMMA InsertKeepsInv ==
  ASSUME GrantInv, InsertEvent
  PROVE  GrantInv'
<1>1. job \in Job /\ job.id \in Rules /\ rules[job.id] # Unused
      /\ job.sites # {} /\ job.sites \subseteq job.granted
  BY DEF GrantInv, Typed, JobNamed, WithinGrant, InsertEvent
<1>2. UNCHANGED <<ruleVars, dedup, faults>> /\ faults \subseteq Disruptions
      /\ lasting \subseteq Rules
  BY DEF InsertEvent, GrantInv, Typed
<1>3. ASSUME NEW e \in EventIds, job.id \in Live,
             open' = open \cup {[id |-> e, rule |-> job.id, sites |-> job.sites]},
             Await("setkey", [NoJob EXCEPT !.id = job.id, !.event = e]),
             lasting' \subseteq Rules, todo' = todo
      PROVE  GrantInv'
  <2> DEFINE named == [NoJob EXCEPT !.id = job.id]
             raised == [named EXCEPT !.event = e]
             event == [id |-> e, rule |-> job.id, sites |-> job.sites]
  <2>1. named \in Job /\ named.id = job.id
    BY <1>1, NoJobTyped DEF Job
  <2>2. raised \in Job /\ raised.id = job.id
    <3> HIDE DEF named
    <3> QED
      BY <1>3, <2>1 DEF Job
  <2>3. pc' = "setkey" /\ job' = raised
    BY <1>3 DEF Await
  <2>4. event \in Event /\ event.rule = job.id
    BY <1>1, <1>3 DEF Event, Job
  <2> HIDE DEF raised, event
  <2>5. Typed'
    BY <1>2, <1>3, <2>2, <2>3, <2>4 DEF GrantInv, Typed, ruleVars, event
  <2>6. JobNamed'
    BY <1>1, <1>2, <2>2, <2>3 DEF JobNamed, Waits, ruleVars
  <2>7. Started' /\ WithinGrant'
    BY <1>2, <1>3, <2>3, <2>4 DEF GrantInv, Started, WithinGrant, ruleVars, Live, event
  <2> QED
    BY <2>5, <2>6, <2>7 DEF GrantInv
<1>4. CASE job.id \in Live
  <2>1. FreshIds # {}
    BY <1>4 DEF InsertEvent
  <2>2. PICK e \in FreshIds : e = CHOOSE f \in FreshIds : TRUE
    BY <2>1
  <2>3. e \in EventIds
    BY DEF FreshIds
  <2>4. /\ open' = open \cup {[id |-> e, rule |-> job.id, sites |-> job.sites]}
        /\ Await("setkey", [NoJob EXCEPT !.id = job.id, !.event = e])
        /\ lasting' = IF Met(job.id) THEN lasting \cup {job.id} ELSE lasting
        /\ UNCHANGED todo
    BY <1>4, <2>2 DEF InsertEvent
  <2> QED
    BY <1>1, <1>2, <1>3, <1>4, <2>3, <2>4
<1>5. CASE job.id \notin Live
  BY <1>2, <1>5, ReturnKeepsInv DEF InsertEvent, GrantInv, Typed, Started
<1> QED
  BY <1>4, <1>5

LEMMA StoreStepKeepsInv ==
  ASSUME GrantInv, SetKey \/ GetKey \/ UpdateEvent \/ DeleteKey \/ AbortPass
  PROVE  GrantInv'
<1>1. faults \subseteq Disruptions /\ lasting \subseteq Rules
      /\ todo \subseteq [id : Rules, rule : RuleRow] /\ (\A t \in todo : rules[t.id] # Unused)
      /\ dedup \in [Rules -> EventIds \cup {NoEvent}]
      /\ \A r \in Rules : dedup[r] # NoEvent => rules[r] # Unused
  BY DEF GrantInv, Typed, Started
<1>2. ASSUME pc \in Waits \ {"known"} PROVE job \in Job /\ job.id \in Rules /\ rules[job.id] # Unused
                                           /\ job.event \in EventIds \cup {NoEvent}
  BY <1>2 DEF GrantInv, Typed, JobNamed, Waits, Job
<1>3. CASE SetKey
  <2>1. dedup' = [dedup EXCEPT ![job.id] = job.event] /\ job.id \in Rules /\ rules[job.id] # Unused
        /\ job.event \in EventIds \cup {NoEvent}
    BY <1>2, <1>3 DEF SetKey, Waits
  <2> QED
    BY <1>1, <1>3, <2>1, ReturnKeepsInv DEF SetKey
<1>4. CASE GetKey
  <2>1. job \in Job /\ job.id \in Rules /\ rules[job.id] # Unused
    BY <1>2, <1>4 DEF GetKey, Waits
  <2>2. CASE dedup[job.id] = NoEvent
    BY <1>1, <1>4, <2>2, ReturnKeepsInv DEF GetKey
  <2>3. CASE dedup[job.id] # NoEvent
    <3> DEFINE found == [job EXCEPT !.event = dedup[job.id]]
    <3>1. found \in Job /\ found.id = job.id
      BY <1>1, <2>1 DEF Job
    <3>2. Await("update", found)
      BY <1>4, <2>3 DEF GetKey
    <3> HIDE DEF found
    <3> QED
      BY <1>1, <1>4, <2>1, <3>1, <3>2, AwaitKeepsInv DEF GetKey, Waits
  <2> QED
    BY <2>2, <2>3
<1>5. CASE UpdateEvent
  <2>1. pc' = "delkey" /\ job' = job /\ job \in Job /\ job.id \in Rules /\ rules[job.id] # Unused
    BY <1>2, <1>5 DEF UpdateEvent, Waits, Await
  <2>2. open' \subseteq open /\ UNCHANGED <<ruleVars, dedup, todo, lasting, faults>>
    BY <1>5 DEF UpdateEvent
  <2>3. Typed' /\ JobNamed'
    BY <2>1, <2>2 DEF GrantInv, Typed, JobNamed, Waits, ruleVars
  <2>4. Started' /\ WithinGrant'
    BY <2>1, <2>2 DEF GrantInv, Started, WithinGrant, ruleVars, Live
  <2> QED
    BY <2>3, <2>4 DEF GrantInv
<1>6. CASE DeleteKey
  <2>1. dedup' = [dedup EXCEPT ![job.id] = NoEvent]
    BY <1>6 DEF DeleteKey
  <2> QED
    BY <1>1, <1>6, <2>1, ReturnKeepsInv DEF DeleteKey
<1>7. CASE AbortPass
  BY <1>1, <1>7, ReturnKeepsInv DEF AbortPass, Fault
<1> QED
  BY <1>3, <1>4, <1>5, <1>6, <1>7

-----------------------------------------------------------------------------
\* What the environment does never makes a rule unused again.
LEMMA AroundKeepsInv ==
  ASSUME GrantInv, UNCHANGED evaluatorVars, Typed',
         \A r \in Rules : rules[r] # Unused => rules'[r] # Unused,
         \A r \in Rules : dedup'[r] # NoEvent => dedup[r] # NoEvent,
         \A e \in open' : e \in open /\ (e.rule \in Live => e.rule \in Live')
  PROVE  GrantInv'
<1>1. JobNamed'
  BY DEF GrantInv, JobNamed, evaluatorVars, Waits
<1>2. Started'
  BY DEF GrantInv, Typed, Started, evaluatorVars
<1>3. WithinGrant'
  BY DEF GrantInv, WithinGrant, evaluatorVars
<1> QED
  BY <1>1, <1>2, <1>3 DEF GrantInv

LEMMA EnvironmentKeepsInv ==
  ASSUME GrantInv, Environment
  PROVE  GrantInv'
<1> USE ConstantsAssumption
<1>1. ASSUME NEW s \in Sites, RecordBytes(s) \/ WindowSlides(s) PROVE GrantInv'
  <2>1. UNCHANGED <<rules, scope, open, dedup, evaluatorVars, faults>>
    BY <1>1 DEF RecordBytes, WindowSlides
  <2>2. volume' \in [Sites -> 0..MaxVolume] /\ known' \subseteq Sites
    BY <1>1 DEF RecordBytes, WindowSlides, GrantInv, Typed
  <2>3. lasting' \subseteq lasting
    BY <1>1 DEF RecordBytes, WindowSlides, StillLasting
  <2>4. Typed'
    BY <2>1, <2>2, <2>3 DEF GrantInv, Typed, evaluatorVars
  <2> QED
    BY <2>1, <2>4, AroundKeepsInv DEF Live
<1>2. ASSUME NEW o \in Owners, NEW sc \in Scope, ChangeScope(o, sc) PROVE GrantInv'
  <2>1. Typed'
    BY <1>2 DEF ChangeScope, StillLasting, GrantInv, Typed, evaluatorVars
  <2> QED
    BY <1>2, <2>1, AroundKeepsInv DEF ChangeScope, Live
<1>3. ASSUME NEW r \in Rules, NEW row \in RuleRow, CreateRule(r, row) PROVE GrantInv'
  <2>1. Typed'
    BY <1>3 DEF CreateRule, GrantInv, Typed, evaluatorVars
  <2> QED
    BY <1>3, <2>1, AroundKeepsInv DEF CreateRule, Live, GrantInv, Typed
<1>4. ASSUME NEW r \in Rules, NEW th \in Thresholds, NEW on \in BOOLEAN, UpdateRule(r, th, on)
      PROVE  GrantInv'
  <2>1. rules[r] \in RuleRow /\ r \in Live
    BY <1>4 DEF UpdateRule, Live, GrantInv, Typed
  <2>2. PICK row \in RuleRow : rules' = [rules EXCEPT ![r] = row]
    <3> DEFINE bounded == [rules[r] EXCEPT !.threshold = th]
               row == [bounded EXCEPT !.enabled = on]
    <3>1. bounded \in RuleRow
      BY <2>1 DEF RuleRow
    <3>2. row \in RuleRow
      <4> HIDE DEF bounded
      <4> QED
        BY <3>1 DEF RuleRow
    <3>3. rules' = [rules EXCEPT ![r] = row]
      BY <1>4 DEF UpdateRule
    <3> QED
      BY <3>2, <3>3
  <2>3. Typed'
    BY <1>4, <2>2 DEF UpdateRule, StillLasting, GrantInv, Typed, evaluatorVars
  <2> QED
    BY <1>4, <2>2, <2>3, AroundKeepsInv, NoRowAssumption DEF UpdateRule, Live, GrantInv, Typed
<1>5. ASSUME NEW r \in Rules, DeleteRule(r) PROVE GrantInv'
  <2>1. Typed'
    BY <1>5 DEF DeleteRule, StillLasting, GrantInv, Typed, evaluatorVars
  <2> QED
    BY <1>5, <2>1, AroundKeepsInv DEF DeleteRule, Live, GrantInv, Typed, Event
<1>6. ASSUME NEW r \in Rules, ExpireKey(r) PROVE GrantInv'
  <2>1. Typed'
    BY <1>6 DEF ExpireKey, Fault, GrantInv, Typed, evaluatorVars, ruleVars
  <2> QED
    BY <1>6, <2>1, AroundKeepsInv DEF ExpireKey, Live, GrantInv, Typed, ruleVars
<1> QED
  BY <1>1, <1>2, <1>3, <1>4, <1>5, <1>6 DEF Environment

LEMMA StutterKeepsInv ==
  ASSUME GrantInv, UNCHANGED vars
  PROVE  GrantInv'
<1>1. UNCHANGED <<rules, open, dedup, volume, known, scope, pc, todo, job, faults, lasting>>
  BY DEF vars
<1> QED
  BY <1>1 DEF GrantInv, Typed, JobNamed, Started, WithinGrant, Live

LEMMA GrantInvInitially == Init => GrantInv
<1> SUFFICES ASSUME Init PROVE GrantInv
  OBVIOUS
<1>1. Typed
  <2>1. NoScope \in Scope /\ [all |-> TRUE, sites |-> {}] \in Scope
    BY DEF NoScope, Scope
  <2>2. scope \in [Owners -> Scope]
    BY <2>1 DEF Init
  <2> QED
    BY <2>2, NoJobTyped, ConstantsAssumption DEF Init, Typed
<1> QED
  BY <1>1 DEF Init, GrantInv, JobNamed, Started, WithinGrant

LEMMA GrantInvStep == GrantInv /\ [Next]_vars => GrantInv'
<1> SUFFICES ASSUME GrantInv, [Next]_vars PROVE GrantInv'
  OBVIOUS
<1>1. CASE FetchRules BY <1>1, FetchKeepsInv
<1>2. CASE ReadScope BY <1>2, ScopeKeepsInv
<1>3. CASE ReadKnownSites BY <1>3, KnownKeepsInv
<1>4. CASE SumWindow BY <1>4, SumKeepsInv
<1>5. CASE IsActive BY <1>5, ActiveKeepsInv
<1>6. CASE InsertEvent BY <1>6, InsertKeepsInv
<1>7. CASE SetKey \/ GetKey \/ UpdateEvent \/ DeleteKey \/ AbortPass BY <1>7, StoreStepKeepsInv
<1>8. CASE Environment BY <1>8, EnvironmentKeepsInv
<1>9. CASE UNCHANGED vars BY <1>9, StutterKeepsInv
<1> QED
  BY <1>1, <1>2, <1>3, <1>4, <1>5, <1>6, <1>7, <1>8, <1>9 DEF Next, Evaluator

LEMMA GrantInductive == Spec => []GrantInv
BY GrantInvInitially, GrantInvStep, PTL DEF Spec

LEMMA GrantInvTypes == GrantInv => TypeOK
<1> SUFFICES ASSUME GrantInv PROVE TypeOK
  OBVIOUS
<1>1. open = UNION {ListedEvents(o) : o \in Owners}
  <2>1. ASSUME NEW e \in open PROVE \E o \in Owners : e \in ListedEvents(o)
    <3>1. e.rule \in Live /\ rules[e.rule] \in RuleRow
      BY DEF GrantInv, Typed, Started, Live
    <3>2. rules[e.rule].owner \in Owners
      BY <3>1 DEF RuleRow
    <3> QED
      BY <3>1, <3>2 DEF ListedEvents
  <2>2. \A o \in Owners : ListedEvents(o) \subseteq open
    BY DEF ListedEvents
  <2> QED
    BY <2>1, <2>2
<1>2. (pc \in {"asleep", "scope"}) <=> (job = NoJob)
  BY ConstantsAssumption DEF GrantInv, JobNamed, Waits, NoJob
<1>3. pc \in Waits \cup {"asleep", "scope"}
  BY DEF GrantInv, JobNamed
<1> QED
  BY <1>1, <1>2, <1>3 DEF GrantInv, Typed, TypeOK, Waits, Job

\* Every variable of the alerting service has its type, the evaluator has locals
\* exactly while it evaluates a rule, and no event outlives its rule, so that each
\* is listed to an owner (evaluator.py, routes/events.py).
THEOREM AlertingTyped == Spec => []TypeOK
BY GrantInductive, GrantInvTypes, PTL

\* The flows shown as those that raised an event are of sites its owner could see
\* when the evaluation of the rule began, for any number of rules, owners and
\* sites and whatever changes while the evaluator waits (evaluator.py:77-95,
\* events.py:65-97).
THEOREM EventsShowGrantedFlows == Spec => EventFlowsWithinGrant
<1>1. GrantInv /\ [Next]_vars => [\A e \in open' \ open : FlowsOf(e) \subseteq job.granted]_vars
  <2> SUFFICES ASSUME GrantInv, Next, NEW e \in open' \ open PROVE FlowsOf(e) \subseteq job.granted
    OBVIOUS
  <2>1. CASE InsertEvent
    <3>1. e.sites = job.sites
      BY <2>1 DEF InsertEvent
    <3>2. job.sites # {} /\ job.sites \subseteq job.granted
      BY <2>1 DEF InsertEvent, GrantInv, WithinGrant
    <3> QED
      BY <3>1, <3>2 DEF FlowsOf
  <2>2. CASE ~InsertEvent
    <3>1. open' \subseteq open
      BY <2>2 DEF Next, Evaluator, Environment, FetchRules, ReadScope, ReadKnownSites, SumWindow,
                  IsActive, SetKey, GetKey, UpdateEvent, DeleteKey, AbortPass, ExpireKey,
                  RecordBytes, WindowSlides, ChangeScope, CreateRule, UpdateRule, DeleteRule
    <3> QED
      BY <3>1
  <2> QED
    BY <2>1, <2>2
<1> QED
  BY <1>1, GrantInductive, PTL DEF Spec, EventFlowsWithinGrant

-----------------------------------------------------------------------------
(* The two stores *)

\* What the key of r says, or is about to say.
KeyOf(r) ==
  IF pc = "setkey" /\ job.id = r THEN job.event
  ELSE IF pc = "delkey" /\ job.id = r THEN NoEvent ELSE dedup[r]

AgreeOn(r) ==
  /\ \A e \in open : e.rule = r => e.id = KeyOf(r)
  /\ KeyOf(r) # NoEvent => \E e \in open : e.rule = r /\ e.id = KeyOf(r)

\* An id stands for one event, and the keys and the evaluator use it for the
\* rule of that event only.
IdsOfOne ==
  /\ \A e, f \in open : e.id = f.id => e = f
  /\ \A e \in open, r \in Rules : e.id = dedup[r] => e.rule = r
  /\ \A e \in open : e.id = job.event => e.rule = job.id

\* Only SetKey makes a key, and no other step removes one that is needed.
KeyInHand ==
  /\ pc = "insert" => dedup[job.id] = NoEvent
  /\ pc = "setkey" => job.event \in EventIds
  /\ pc = "update" /\ faults \subseteq {"outage"} /\ job.id \in Live => dedup[job.id] = job.event

Agree == faults \subseteq {"outage"} => \A r \in Live : AgreeOn(r)

StoresInv == IdsOfOne /\ KeyInHand /\ Agree

\* The evaluator's steps that touch neither store.
LEMMA QuietKeepsStores ==
  ASSUME GrantInv, StoresInv, UNCHANGED <<rules, open, dedup>>,
         faults' \subseteq {"outage"} => faults \subseteq {"outage"},
         pc \notin {"setkey", "delkey"}, pc' \notin {"setkey", "delkey"},
         pc' = "insert" => dedup[job'.id] = NoEvent,
         pc' = "update" => dedup[job'.id] = job'.event /\ job'.id \in Rules,
         pc' # "update" => job'.event = NoEvent \/ (job'.event = job.event /\ job'.id = job.id)
  PROVE  StoresInv'
<1>1. Live' = Live
  BY DEF Live
<1>2. \A e \in open : e.id \in EventIds
  BY DEF GrantInv, Typed, Event
<1>3. IdsOfOne'
  <2>1. \A e \in open : e.id # NoEvent
    BY <1>2, ConstantsAssumption
  <2> QED
    BY <2>1 DEF StoresInv, IdsOfOne
<1>4. KeyInHand'
  BY DEF KeyInHand
<1>5. Agree'
  <2>1. \A r \in Live : KeyOf(r)' = KeyOf(r)
    BY DEF KeyOf
  <2> QED
    BY <1>1, <2>1 DEF StoresInv, Agree, AgreeOn
<1> QED
  BY <1>3, <1>4, <1>5 DEF StoresInv

LEMMA ReadKeepsStores ==
  ASSUME GrantInv, StoresInv,
         FetchRules \/ ReadScope \/ ReadKnownSites \/ SumWindow \/ IsActive \/ GetKey
  PROVE  StoresInv'
<1>1. NoJob.event = NoEvent /\ \A i : [NoJob EXCEPT !.id = i].event = NoEvent
  BY DEF NoJob
<1>2. ASSUME Return PROVE pc' \in {"asleep", "scope"} /\ job'.event = NoEvent
  BY <1>1, <1>2 DEF Return, Await
<1>3. ASSUME NEW i, Resolve(i) PROVE pc' = "getkey" /\ job'.event = NoEvent
  BY <1>1, <1>3 DEF Resolve, Await
<1>4. CASE FetchRules
  BY <1>2, <1>4, QuietKeepsStores DEF FetchRules, ruleVars
<1>5. CASE ReadScope
  <2>1. pc' \in {"asleep", "scope", "known", "sum", "getkey"} /\ job'.event = NoEvent
    <3>1. ASSUME NEW i, NEW th, NEW g, NEW ss
          PROVE  LET locals == [NoJob EXCEPT !.id = i, !.threshold = th, !.granted = g]
                 IN locals.event = NoEvent /\ [locals EXCEPT !.sites = ss].event = NoEvent
      <4> DEFINE locals == [NoJob EXCEPT !.id = i, !.threshold = th, !.granted = g]
      <4>1. locals.event = NoJob.event
        BY NoJobTyped DEF Job
      <4>2. [locals EXCEPT !.sites = ss].event = NoJob.event
        BY NoJobTyped DEF Job
      <4> QED
        BY <1>1, <4>1, <4>2
    <3>2. PICK i, th, g, ss :
            LET locals == [NoJob EXCEPT !.id = i, !.threshold = th, !.granted = g]
            IN \/ Await("known", locals)
               \/ Await("sum", [locals EXCEPT !.sites = ss])
               \/ Return
               \/ Resolve(i)
      <4>1. PICK next \in todo, sc \in Scope :
              LET sites == Evaluated(next.rule, sc)
                  locals == [NoJob EXCEPT !.id = next.id, !.threshold = next.rule.threshold,
                                          !.granted = Reach(scope[next.rule.owner])]
              IN \/ Await("known", locals)
                 \/ Await("sum", [locals EXCEPT !.sites = sites])
                 \/ Return
                 \/ Resolve(next.id)
        BY <1>5, Zenon DEF ReadScope
      <4> QED
        BY <4>1, Zenon
    <3>3. CASE Return \/ Resolve(i)
      BY <1>2, <1>3, <3>3
    <3>4. CASE ~(Return \/ Resolve(i))
      <4> DEFINE locals == [NoJob EXCEPT !.id = i, !.threshold = th, !.granted = g]
      <4>1. \/ pc' = "known" /\ job' = locals
            \/ pc' = "sum" /\ job' = [locals EXCEPT !.sites = ss]
        BY <3>2, <3>4, Zenon DEF Await
      <4>2. locals.event = NoEvent /\ [locals EXCEPT !.sites = ss].event = NoEvent
        BY <3>1
      <4> HIDE DEF locals
      <4> QED
        BY <4>1, <4>2
    <3> QED
      BY <3>3, <3>4
  <2>2. faults' = faults \/ faults' = {"outage"}
    BY <1>5 DEF ReadScope, OwnerScope, Fault
  <2>3. faults' \subseteq {"outage"} => faults \subseteq {"outage"}
    BY <1>5 DEF ReadScope, OwnerScope, Fault
  <2> QED
    BY <1>5, <2>1, <2>3, QuietKeepsStores DEF ReadScope, ruleVars
<1>6. ASSUME pc \in Waits PROVE job \in Job /\ job.id \in Rules
  BY <1>6 DEF GrantInv, Typed, JobNamed, Waits
<1>7. CASE ReadKnownSites
  <2>1. job \in Job
    BY <1>6, <1>7 DEF ReadKnownSites, Waits
  <2>2. \A ss : [job EXCEPT !.sites = ss].event = job.event /\ [job EXCEPT !.sites = ss].id = job.id
    BY <2>1 DEF Job
  <2>3. \/ pc' \in {"asleep", "scope"} /\ job'.event = NoEvent
        \/ pc' = "sum" /\ job'.event = job.event /\ job'.id = job.id
    BY <1>2, <1>7, <2>2 DEF ReadKnownSites, Await
  <2> QED
    BY <1>7, <2>3, QuietKeepsStores DEF ReadKnownSites, ruleVars
<1>8. CASE SumWindow
  <2>1. job \in Job
    BY <1>6, <1>8 DEF SumWindow, Waits
  <2>2. \A m : [job EXCEPT !.met = m].event = job.event /\ [job EXCEPT !.met = m].id = job.id
    BY <2>1 DEF Job
  <2>3. pc' = "isactive" /\ job'.event = job.event /\ job'.id = job.id
    <3>1. pc' = "isactive" /\ \E m : job' = [job EXCEPT !.met = m]
      BY <1>8 DEF SumWindow, Await
    <3> QED
      BY <2>2, <3>1
  <2> QED
    BY <1>8, <2>3, QuietKeepsStores DEF SumWindow, ruleVars
<1>9. CASE IsActive
  <2>1. \/ pc' \in {"asleep", "scope", "getkey"} /\ job'.event = NoEvent
        \/ pc' = "insert" /\ job' = job /\ dedup[job.id] = NoEvent
    BY <1>2, <1>3, <1>9 DEF IsActive, Await
  <2> QED
    BY <1>9, <2>1, QuietKeepsStores DEF IsActive, ruleVars
<1>10. CASE GetKey
  <2>1. job \in Job /\ job.id \in Rules
    BY <1>6, <1>10 DEF GetKey, Waits
  <2>2. \A k : [job EXCEPT !.event = k].event = k /\ [job EXCEPT !.event = k].id = job.id
    BY <2>1 DEF Job
  <2>3. \/ pc' \in {"asleep", "scope"} /\ job'.event = NoEvent
        \/ pc' = "update" /\ job'.event = dedup[job.id] /\ job'.id = job.id
    BY <1>2, <1>10, <2>2 DEF GetKey, Await
  <2> QED
    BY <1>10, <2>1, <2>3, QuietKeepsStores DEF GetKey, ruleVars
<1> QED
  BY <1>4, <1>5, <1>7, <1>8, <1>9, <1>10

\* trigger(): the new event has an id of its own, and no key until SetKey.
LEMMA TriggerKeepsStores ==
  ASSUME GrantInv, StoresInv, InsertEvent \/ SetKey
  PROVE  StoresInv'
<1> USE ConstantsAssumption
<1>1. job \in Job /\ job.id \in Rules
  BY DEF GrantInv, Typed, JobNamed, Waits, InsertEvent, SetKey
<1>2. NoJob.event = NoEvent
  BY DEF NoJob
<1>3. \A e \in open : e.id \in EventIds
  BY DEF GrantInv, Typed, Event
<1>4. UNCHANGED <<rules, faults>> /\ Live' = Live
  BY DEF InsertEvent, SetKey, ruleVars, Live
<1>5. CASE InsertEvent /\ job.id \notin Live
  <2>1. pc' \in {"asleep", "scope"} /\ job'.event = NoEvent
    BY <1>2, <1>5 DEF InsertEvent, Return, Await
  <2> QED
    BY <1>5, <2>1, QuietKeepsStores DEF InsertEvent, ruleVars
<1>6. CASE InsertEvent /\ job.id \in Live
  <2> DEFINE e == CHOOSE f \in FreshIds : TRUE
             event == [id |-> e, rule |-> job.id, sites |-> job.sites]
  <2>1. e \in FreshIds
    BY <1>6 DEF InsertEvent
  <2>2. e \in EventIds /\ (\A f \in open : f.id # e) /\ (\A r \in Rules : dedup[r] # e)
    BY <2>1 DEF FreshIds
  <2>3. open' = open \cup {event} /\ dedup' = dedup /\ pc = "insert"
    BY <1>6 DEF InsertEvent
  <2>4. Await("setkey", [NoJob EXCEPT !.id = job.id, !.event = e])
    BY <1>6 DEF InsertEvent
  <2> HIDE DEF e
  <2>5. pc' = "setkey" /\ job'.id = job.id /\ job'.event = e
    <3>1. [NoJob EXCEPT !.id = job.id, !.event = e].id = job.id
      BY NoJobTyped DEF Job
    <3>2. [NoJob EXCEPT !.id = job.id, !.event = e].event = e
      BY NoJobTyped DEF Job
    <3> QED
      BY <2>4, <3>1, <3>2 DEF Await
  <2>6. event.id = e /\ event.rule = job.id
    OBVIOUS
  <2> HIDE DEF event
  <2>7. IdsOfOne'
    BY <2>2, <2>3, <2>5, <2>6 DEF StoresInv, IdsOfOne
  <2>8. KeyInHand'
    BY <2>2, <2>5 DEF KeyInHand
  <2>9. Agree'
    <3> SUFFICES ASSUME faults \subseteq {"outage"}, NEW r \in Live PROVE AgreeOn(r)'
      BY <1>4 DEF Agree
    <3>1. AgreeOn(r) /\ KeyOf(r) = dedup[r]
      BY <2>3 DEF StoresInv, Agree, KeyOf
    <3>2. CASE r = job.id
      <4>1. dedup[r] = NoEvent
        BY <2>3, <3>2 DEF StoresInv, KeyInHand
      <4>2. \A f \in open : f.rule # r
        BY <1>3, <3>1, <4>1 DEF AgreeOn
      <4>3. KeyOf(r)' = e
        BY <2>5, <3>2 DEF KeyOf
      <4> QED
        BY <2>3, <2>6, <3>2, <4>2, <4>3 DEF AgreeOn
    <3>3. CASE r # job.id
      <4>1. KeyOf(r)' = KeyOf(r)
        BY <2>3, <2>5, <3>1, <3>3 DEF KeyOf
      <4> QED
        BY <2>3, <2>6, <3>1, <3>3, <4>1 DEF AgreeOn
    <3> QED
      BY <3>2, <3>3
  <2> QED
    BY <2>7, <2>8, <2>9 DEF StoresInv
<1>7. CASE SetKey
  <2>1. pc = "setkey" /\ dedup' = [dedup EXCEPT ![job.id] = job.event] /\ open' = open
        /\ pc' \in {"asleep", "scope"} /\ job'.event = NoEvent
    BY <1>2, <1>7 DEF SetKey, Return, Await
  <2>2. \A r \in Rules : dedup'[r] = IF r = job.id THEN job.event ELSE dedup[r]
    BY <2>1 DEF GrantInv, Typed
  <2>3. IdsOfOne'
    BY <1>3, <2>1, <2>2 DEF StoresInv, IdsOfOne
  <2>4. KeyInHand'
    BY <2>1 DEF KeyInHand
  <2>5. Agree'
    <3>1. \A r \in Live : KeyOf(r)' = KeyOf(r)
      BY <2>1, <2>2 DEF KeyOf, Live
    <3> QED
      BY <1>4, <2>1, <3>1 DEF StoresInv, Agree, AgreeOn
  <2> QED
    BY <2>3, <2>4, <2>5 DEF StoresInv
<1> QED
  BY <1>5, <1>6, <1>7

\* resolve(): the event in hand is the one of the rule, and the key that is
\* deleted then has no event any more.
LEMMA ResolveKeepsStores ==
  ASSUME GrantInv, StoresInv, UpdateEvent \/ DeleteKey
  PROVE  StoresInv'
<1> USE ConstantsAssumption
<1>1. job \in Job /\ job.id \in Rules
  BY DEF GrantInv, Typed, JobNamed, Waits, UpdateEvent, DeleteKey
<1>2. NoJob.event = NoEvent
  BY DEF NoJob
<1>3. \A e \in open : e.id \in EventIds
  BY DEF GrantInv, Typed, Event
<1>4. UNCHANGED <<rules, faults>> /\ Live' = Live
  BY DEF UpdateEvent, DeleteKey, ruleVars, Live
<1>5. CASE UpdateEvent
  <2>1. pc = "update" /\ open' = {e \in open : e.id # job.event} /\ dedup' = dedup
        /\ pc' = "delkey" /\ job' = job
    BY <1>5 DEF UpdateEvent, Await
  <2>2. IdsOfOne' /\ KeyInHand'
    BY <2>1 DEF StoresInv, IdsOfOne, KeyInHand
  <2>3. Agree'
    <3> SUFFICES ASSUME faults \subseteq {"outage"}, NEW r \in Live PROVE AgreeOn(r)'
      BY <1>4 DEF Agree
    <3>1. AgreeOn(r) /\ KeyOf(r) = dedup[r]
      BY <2>1 DEF StoresInv, Agree, KeyOf
    <3>2. CASE r = job.id
      <4>1. dedup[r] = job.event
        BY <2>1, <3>2 DEF StoresInv, KeyInHand
      <4>2. \A e \in open' : e.rule # r
        BY <2>1, <3>1, <4>1 DEF AgreeOn
      <4>3. KeyOf(r)' = NoEvent
        BY <2>1, <3>2 DEF KeyOf
      <4> QED
        BY <4>2, <4>3 DEF AgreeOn
    <3>3. CASE r # job.id
      <4>1. KeyOf(r)' = KeyOf(r)
        BY <2>1, <3>1, <3>3 DEF KeyOf
      <4>2. \A e \in open : e.rule = r => e \in open'
        BY <2>1, <3>3 DEF StoresInv, IdsOfOne
      <4> QED
        BY <2>1, <3>1, <4>1, <4>2 DEF AgreeOn
    <3> QED
      BY <3>2, <3>3
  <2> QED
    BY <2>2, <2>3 DEF StoresInv
<1>6. CASE DeleteKey
  <2>1. pc = "delkey" /\ dedup' = [dedup EXCEPT ![job.id] = NoEvent] /\ open' = open
        /\ pc' \in {"asleep", "scope"} /\ job'.event = NoEvent
    BY <1>2, <1>6 DEF DeleteKey, Return, Await
  <2>2. \A r \in Rules : dedup'[r] = IF r = job.id THEN NoEvent ELSE dedup[r]
    BY <2>1 DEF GrantInv, Typed
  <2>3. IdsOfOne'
    BY <1>3, <2>1, <2>2 DEF StoresInv, IdsOfOne
  <2>4. KeyInHand'
    BY <2>1 DEF KeyInHand
  <2>5. Agree'
    <3>1. \A r \in Live : KeyOf(r)' = KeyOf(r)
      BY <2>1, <2>2 DEF KeyOf, Live
    <3> QED
      BY <1>4, <2>1, <3>1 DEF StoresInv, Agree, AgreeOn
  <2> QED
    BY <2>3, <2>4, <2>5 DEF StoresInv
<1> QED
  BY <1>5, <1>6

LEMMA AbortKeepsStores ==
  ASSUME GrantInv, StoresInv, AbortPass
  PROVE  StoresInv'
<1>1. pc' \in {"asleep", "scope"} /\ job'.event = NoEvent
  BY DEF AbortPass, Return, Await, NoJob
<1>2. faults' = {"abort"} /\ UNCHANGED <<open, dedup>>
  BY DEF AbortPass, Fault
<1>3. \A e \in open : e.id # NoEvent
  BY ConstantsAssumption DEF GrantInv, Typed, Event
<1>4. IdsOfOne' /\ KeyInHand' /\ Agree'
  BY <1>1, <1>2, <1>3 DEF StoresInv, IdsOfOne, KeyInHand, Agree
<1> QED
  BY <1>4 DEF StoresInv

\* Rules come with neither event nor key and go with their events; a key that
\* expires under an open event counts as a fault.
LEMMA AroundKeepsStores ==
  ASSUME GrantInv, StoresInv, Environment
  PROVE  StoresInv'
<1> USE ConstantsAssumption
<1>1. UNCHANGED <<pc, job, todo>>
  BY DEF Environment, RecordBytes, WindowSlides, ChangeScope, CreateRule, UpdateRule, DeleteRule,
         ExpireKey, evaluatorVars
<1>2. \A e \in open : e.id \in EventIds /\ e.rule \in Live
  BY DEF GrantInv, Typed, Event, Started
<1>3. ASSUME UNCHANGED <<open, dedup, faults>>, Live' \subseteq Live PROVE StoresInv'
  <2>1. IdsOfOne' /\ KeyInHand'
    BY <1>1, <1>3 DEF StoresInv, IdsOfOne, KeyInHand
  <2>2. Agree'
    BY <1>1, <1>3 DEF StoresInv, Agree, AgreeOn, KeyOf
  <2> QED
    BY <2>1, <2>2 DEF StoresInv
<1>4. ASSUME NEW s \in Sites, RecordBytes(s) \/ WindowSlides(s) PROVE StoresInv'
  BY <1>3, <1>4 DEF RecordBytes, WindowSlides, Live
<1>5. ASSUME NEW o \in Owners, NEW sc \in Scope, ChangeScope(o, sc) PROVE StoresInv'
  BY <1>3, <1>5 DEF ChangeScope, Live
<1>6. ASSUME NEW r \in Rules, NEW th \in Thresholds, NEW on \in BOOLEAN, UpdateRule(r, th, on)
      PROVE  StoresInv'
  <2>1. Live' \subseteq Live
    BY <1>6 DEF UpdateRule, Live, GrantInv, Typed
  <2> QED
    BY <1>3, <1>6, <2>1 DEF UpdateRule
<1>7. ASSUME NEW r \in Rules, NEW row \in RuleRow, CreateRule(r, row) PROVE StoresInv'
  <2>1. rules[r] = Unused /\ Live' \subseteq Live \cup {r} /\ UNCHANGED <<open, dedup, faults>>
    BY <1>7 DEF CreateRule, Live, GrantInv, Typed
  <2>2. dedup[r] = NoEvent /\ (\A e \in open : e.rule # r) /\ (pc \in Waits => job.id # r)
    BY <1>2, <2>1 DEF GrantInv, Started, JobNamed, Live, Waits
  <2>3. IdsOfOne'
    BY <1>1, <2>1 DEF StoresInv, IdsOfOne
  <2>4. KeyInHand'
    BY <1>1, <2>1, <2>2 DEF StoresInv, KeyInHand, Waits
  <2>5. Agree'
    <3>1. \A q \in Rules : KeyOf(q)' = KeyOf(q)
      BY <1>1, <2>1 DEF KeyOf
    <3>2. KeyOf(r) = NoEvent
      BY <2>2 DEF KeyOf, Waits
    <3>3. AgreeOn(r)'
      BY <2>1, <2>2, <3>1, <3>2 DEF AgreeOn
    <3>4. ASSUME NEW q \in Live, AgreeOn(q) PROVE AgreeOn(q)'
      BY <2>1, <3>1, <3>4 DEF AgreeOn, Live
    <3> QED
      BY <2>1, <3>3, <3>4 DEF StoresInv, Agree
  <2> QED
    BY <2>3, <2>4, <2>5 DEF StoresInv
<1>8. ASSUME NEW r \in Rules, DeleteRule(r) PROVE StoresInv'
  <2>1. Live' \subseteq Live \ {r} /\ open' = {e \in open : e.rule # r}
        /\ UNCHANGED <<dedup, faults>>
    BY <1>8 DEF DeleteRule, Live, GrantInv, Typed
  <2>2. IdsOfOne' /\ KeyInHand'
    BY <1>1, <2>1 DEF StoresInv, IdsOfOne, KeyInHand
  <2>3. ASSUME NEW q \in Live', AgreeOn(q) PROVE AgreeOn(q)'
    BY <1>1, <2>1, <2>3 DEF AgreeOn, KeyOf
  <2>4. Agree'
    BY <2>1, <2>3 DEF StoresInv, Agree
  <2> QED
    BY <2>2, <2>4 DEF StoresInv
<1>9. ASSUME NEW r \in Rules, ExpireKey(r) PROVE StoresInv'
  <2>1. /\ dedup' = [dedup EXCEPT ![r] = NoEvent] /\ UNCHANGED <<rules, open>>
        /\ (\E e \in open : e.id = dedup[r]) => faults' = {"expiry"}
        /\ ~(\E e \in open : e.id = dedup[r]) => faults' = faults
    BY <1>9 DEF ExpireKey, Fault, ruleVars
  <2>2. \A q \in Rules : dedup'[q] = IF q = r THEN NoEvent ELSE dedup[q]
    BY <2>1 DEF GrantInv, Typed
  <2>3. IdsOfOne'
    BY <1>1, <1>2, <2>1, <2>2 DEF StoresInv, IdsOfOne
  <2>4. pc = "insert" => dedup'[job.id] = NoEvent
    <3>1. pc = "insert" => job.id \in Rules
      BY DEF GrantInv, JobNamed
    <3> QED
      BY <2>2, <3>1 DEF StoresInv, KeyInHand
  <2>5. CASE ~(faults' \subseteq {"outage"})
    <3>1. KeyInHand' /\ Agree'
      BY <1>1, <2>4, <2>5 DEF StoresInv, KeyInHand, Agree
    <3> QED
      BY <2>3, <3>1 DEF StoresInv
  <2>6. CASE faults' \subseteq {"outage"}
    <3>1. faults \subseteq {"outage"} /\ (\A e \in open : e.id # dedup[r]) /\ Live' = Live
      BY <2>1, <2>6 DEF Live
    <3>2. \A q \in Live : AgreeOn(q)
      BY <3>1 DEF StoresInv, Agree
    <3>3. r \in Live => KeyOf(r) = KeyOf(r)'
      <4>1. SUFFICES ASSUME r \in Live, KeyOf(r) = dedup[r] PROVE KeyOf(r) = KeyOf(r)'
        BY <1>1 DEF KeyOf
      <4>2. dedup[r] = NoEvent
        BY <3>1, <3>2, <4>1 DEF AgreeOn
      <4> QED
        BY <1>1, <2>2, <4>2 DEF KeyOf
    <3>4. \A q \in Live : KeyOf(q)' = KeyOf(q)
      BY <1>1, <2>2, <3>3 DEF KeyOf, Live
    <3>5. Agree'
      BY <2>1, <3>1, <3>2, <3>4 DEF Agree, AgreeOn
    <3>6. pc = "update" /\ job.id \in Live => dedup'[job.id] = job.event
      <4>1. SUFFICES ASSUME pc = "update", job.id = r, r \in Live PROVE dedup'[r] = job.event
        BY <2>2, <3>1 DEF StoresInv, KeyInHand, Live
      <4>2. KeyOf(r) = dedup[r] /\ dedup[r] = job.event
        BY <3>1, <4>1 DEF StoresInv, KeyInHand, KeyOf
      <4>3. AgreeOn(r) /\ \A e \in open : e.id # dedup[r]
        BY <3>1, <3>2, <4>1
      <4>4. dedup[r] = NoEvent
        BY <4>2, <4>3, Zenon DEF AgreeOn
      <4> QED
        BY <2>2, <4>2, <4>4
    <3>7. KeyInHand'
      BY <1>1, <2>4, <3>1, <3>6 DEF StoresInv, KeyInHand
    <3> QED
      BY <2>3, <3>5, <3>7 DEF StoresInv
  <2> QED
    BY <2>5, <2>6
<1> QED
  BY <1>4, <1>5, <1>6, <1>7, <1>8, <1>9 DEF Environment

LEMMA StoresInductive == Spec => [](GrantInv /\ StoresInv)
<1>1. Init => StoresInv
  BY DEF Init, StoresInv, IdsOfOne, KeyInHand, Agree, AgreeOn, KeyOf, Live
<1>2. GrantInv /\ StoresInv /\ [Next]_vars => StoresInv'
  <2> SUFFICES ASSUME GrantInv, StoresInv, [Next]_vars PROVE StoresInv'
    OBVIOUS
  <2>1. CASE UNCHANGED vars
    BY <2>1 DEF vars, StoresInv, IdsOfOne, KeyInHand, Agree, AgreeOn, KeyOf, Live
  <2> QED
    BY <2>1, ReadKeepsStores, TriggerKeepsStores, ResolveKeepsStores, AbortKeepsStores,
       AroundKeepsStores DEF Next, Evaluator
<1> QED
  BY <1>1, <1>2, GrantInvInitially, GrantInvStep, PTL DEF Spec

\* PostgreSQL and Redis agree about every rule that exists, but for the two
\* moments at which the evaluator has written one and not yet the other, until a
\* key expires under an open event or a pass is aborted (notifier.py:43-84).
THEOREM BothStoresAgree == Spec => []StoresAgree
<1>1. ASSUME GrantInv, StoresInv, faults \subseteq {"outage"}, NEW r \in Live
      PROVE  {e.id : e \in OpenOf(r)} =
               CASE pc = "setkey" /\ job.id = r -> {job.event}
                 [] pc = "delkey" /\ job.id = r -> {}
                 [] OTHER -> {dedup[r]} \ {NoEvent}
  <2>1. AgreeOn(r) /\ \A e \in open : e.id # NoEvent
    BY <1>1, ConstantsAssumption DEF StoresInv, Agree, GrantInv, Typed, Event
  <2>2. {e.id : e \in OpenOf(r)} = {KeyOf(r)} \ {NoEvent}
    BY <2>1 DEF AgreeOn, OpenOf
  <2>3. CASE pc = "setkey" /\ job.id = r
    <3>1. job.event # NoEvent
      BY <1>1, <2>3, ConstantsAssumption DEF StoresInv, KeyInHand
    <3> QED
      BY <2>2, <2>3, <3>1 DEF KeyOf
  <2>4. CASE pc = "delkey" /\ job.id = r
    BY <2>2, <2>4 DEF KeyOf
  <2>5. CASE pc \notin {"setkey", "delkey"} \/ job.id # r
    BY <2>2, <2>5 DEF KeyOf
  <2> QED
    BY <2>3, <2>4, <2>5
<1>2. GrantInv /\ StoresInv => StoresAgree
  BY <1>1 DEF StoresAgree
<1> QED
  BY <1>2, StoresInductive, PTL

-----------------------------------------------------------------------------
(* The bytes of a set of sites *)

\* Among sets of sites some are minimal: induction over the sites.
LEMMA MinimalSites ==
  ASSUME NEW T \in SUBSET SUBSET Sites, T # {}
  PROVE  \E A \in T : \A B \in T : B \subseteq A => B = A
<1> DEFINE R == StrictSubsetOrdering(Sites)
<1>1. IsWellFoundedOn(R, FiniteSubsetsOf(Sites)) /\ FiniteSubsetsOf(Sites) = SUBSET Sites
  BY ConstantsAssumption, FS_StrictSubsetOrderingWellFounded, FS_FiniteSubsetsOfFinite
<1>2. \E A \in T : \A B \in T : ~ (<<B, A>> \in R)
  <2> HIDE DEF R
  <2> QED
    BY <1>1, WFMin
<1>3. \A A, B \in T : B \subseteq A /\ B # A => <<B, A>> \in R
  BY DEF StrictSubsetOrdering
<1> HIDE DEF R
<1> QED
  BY <1>2, <1>3

\* The function by which the sum over a set of sites is defined.
Head(sites) == CHOOSE s \in sites : TRUE

Sums(f, all) ==
  f = [sites \in SUBSET all |->
         IF sites = {} THEN 0 ELSE volume[Head(sites)] + f[sites \ {Head(sites)}]]

LEMMA VolumeIsSum == \A all : Volume(all) = (CHOOSE f : Sums(f, all))[all]
BY DEF Volume, MapThenSumSet, MapThenFoldSet, Sums, Head

LEMMA HeadIn == \A A : A # {} => Head(A) \in A
BY DEF Head

LEMMA SumsAgree ==
  ASSUME NEW A \in SUBSET Sites, NEW B \in SUBSET Sites, NEW f, NEW g, Sums(f, A), Sums(g, B)
  PROVE  \A sites \in SUBSET (A \cap B) : f[sites] = g[sites]
<1> DEFINE bad == {sites \in SUBSET (A \cap B) : f[sites] # g[sites]}
<1>1. SUFFICES ASSUME bad # {} PROVE FALSE
  OBVIOUS
<1>2. PICK s \in bad : \A t \in bad : t \subseteq s => t = s
  <2>1. bad \in SUBSET SUBSET Sites
    OBVIOUS
  <2> HIDE DEF bad
  <2> QED
    BY <1>1, <2>1, MinimalSites
<1>3. /\ f[s] = IF s = {} THEN 0 ELSE volume[Head(s)] + f[s \ {Head(s)}]
      /\ g[s] = IF s = {} THEN 0 ELSE volume[Head(s)] + g[s \ {Head(s)}]
  BY Zenon DEF Sums
<1>4. s # {}
  BY <1>3
<1>5. f[s \ {Head(s)}] = g[s \ {Head(s)}]
  BY <1>2, <1>4, HeadIn
<1> QED
  BY <1>3, <1>4, <1>5

LEMMA SumsExist ==
  ASSUME NEW A \in SUBSET Sites
  PROVE  \E f : Sums(f, A)
<1> DEFINE bad == {all \in SUBSET Sites : ~ \E f : Sums(f, all)}
<1>1. SUFFICES ASSUME bad # {} PROVE FALSE
  OBVIOUS
<1>2. PICK all \in bad : \A t \in bad : t \subseteq all => t = all
  <2>1. bad \in SUBSET SUBSET Sites
    OBVIOUS
  <2> HIDE DEF bad
  <2> QED
    BY <1>1, <2>1, MinimalSites
<1>3. \A t \in SUBSET all : t # all => Sums(CHOOSE f : Sums(f, t), t)
  BY <1>2
<1> DEFINE total(t) == (CHOOSE f : Sums(f, t))[t]
           h == [sites \in SUBSET all |->
                   IF sites = {} THEN 0 ELSE volume[Head(sites)] + total(sites \ {Head(sites)})]
<1>4. ASSUME NEW t \in SUBSET all, t # all PROVE total(t) = h[t]
  <2> DEFINE f == CHOOSE k : Sums(k, t)
             rest == t \ {Head(t)}
             g == CHOOSE k : Sums(k, rest)
  <2>1. Sums(f, t)
    BY <1>3, <1>4
  <2>2. CASE t = {}
    <3>1. f[t] = 0
      BY <2>1, <2>2, Zenon DEF Sums
    <3> QED
      BY <2>2, <3>1
  <2>3. CASE t # {}
    <3>1. f[t] = volume[Head(t)] + f[rest]
      <4> HIDE DEF f
      <4> QED
      BY <2>1, <2>3 DEF Sums
    <3>2. Sums(g, rest) /\ rest \in SUBSET t
      BY <1>3, <1>4
    <3>3. f[rest] = g[rest]
      <4> HIDE DEF f, g
      <4> QED
      BY <2>1, <3>2, SumsAgree
    <3>4. h[t] = volume[Head(t)] + g[rest]
      BY <2>3
    <3>5. total(t) = f[t]
      OBVIOUS
    <3> QED
      <4> HIDE DEF total, f, h, g
      <4> QED
      BY <3>1, <3>3, <3>4, <3>5
  <2> QED
    BY <2>2, <2>3
<1>5. \A sites \in SUBSET all : sites # {} => total(sites \ {Head(sites)}) = h[sites \ {Head(sites)}]
  <2> HIDE DEF total, h
  <2> QED
    BY <1>4, HeadIn
<1>6. Sums(h, all)
  <2>1. h = [sites \in SUBSET all |->
         IF sites = {} THEN 0 ELSE volume[Head(sites)] + h[sites \ {Head(sites)}]]
    <3>1. \A sites \in SUBSET all : h[sites] = IF sites = {} THEN 0 ELSE volume[Head(sites)] + total(sites \ {Head(sites)})
      <4> HIDE DEF total
      <4> QED
        OBVIOUS
    <3>2. h = [sites \in SUBSET all |-> h[sites]]
      <4> HIDE DEF total
      <4> QED
        OBVIOUS
    <3> HIDE DEF total, h
    <3>3. \A sites \in SUBSET all : h[sites] = IF sites = {} THEN 0 ELSE volume[Head(sites)] + h[sites \ {Head(sites)}]
      BY <3>1, <1>5
    <3> QED
      BY <3>2, <3>3
  <2> HIDE DEF h
  <2> QED
    BY <2>1 DEF Sums
<1> QED
  <2> HIDE DEF h
  <2> QED
    BY <1>2, <1>6

\* The bytes of a set of sites: those of one of them and those of the others.
LEMMA VolumeOfHead ==
  ASSUME NEW A \in SUBSET Sites
  PROVE  /\ A = {} => Volume(A) = 0
         /\ A # {} => Volume(A) = volume[Head(A)] + Volume(A \ {Head(A)})
<1> DEFINE rest == A \ {Head(A)}
<1>1. PICK f : f = (CHOOSE h : Sums(h, A)) /\ Sums(f, A)
  BY SumsExist
<1>2. PICK g : g = (CHOOSE h : Sums(h, rest)) /\ Sums(g, rest)
  <2>1. rest \in SUBSET Sites
    OBVIOUS
  <2> HIDE DEF rest
  <2> QED
    BY <2>1, SumsExist
<1>3. Volume(A) = f[A] /\ Volume(rest) = g[rest]
  BY <1>1, <1>2, VolumeIsSum
<1>4. f[rest] = g[rest]
  BY <1>1, <1>2, SumsAgree
<1>5. f[A] = IF A = {} THEN 0 ELSE volume[Head(A)] + f[rest]
  BY <1>1, Zenon DEF Sums
<1> QED
  <2> HIDE DEF rest
  <2>1. CASE A = {} 
    BY <1>3, <1>5, <2>1
  <2>2. CASE A # {} 
    BY <1>3, <1>4, <1>5, <2>2 DEF rest
  <2> QED
    BY <2>1, <2>2

LEMMA VolumeIsNat ==
  ASSUME volume \in [Sites -> Nat]
  PROVE  \A A \in SUBSET Sites : Volume(A) \in Nat
<1> DEFINE bad == {A \in SUBSET Sites : Volume(A) \notin Nat}
<1>1. SUFFICES ASSUME bad # {} PROVE FALSE
  OBVIOUS
<1>2. PICK A \in bad : \A B \in bad : B \subseteq A => B = A
  <2>1. bad \in SUBSET SUBSET Sites
    OBVIOUS
  <2> HIDE DEF bad
  <2> QED
    BY <1>1, <2>1, MinimalSites
<1>3. A # {}
  <2>1. A \in SUBSET Sites /\ Volume(A) \notin Nat
    OBVIOUS
  <2>2. A = {} => Volume(A) = 0
    BY <2>1, VolumeOfHead
  <2> QED
    BY <2>1, <2>2
<1>4. Head(A) \in A /\ A \in SUBSET Sites /\ Volume(A) \notin Nat
  BY <1>3, HeadIn
<1>5. Volume(A \ {Head(A)}) \in Nat
  BY <1>2, <1>4
<1>6. volume[Head(A)] \in Nat
  BY <1>4
<1> QED
  BY <1>3, <1>4, <1>5, <1>6, VolumeOfHead

\* The sum does not depend on the order in which the sites are taken.
LEMMA VolumeOfAny ==
  ASSUME volume \in [Sites -> Nat]
  PROVE  \A A \in SUBSET Sites : \A s \in A : Volume(A) = volume[s] + Volume(A \ {s})
<1> DEFINE Right(A) == \A s \in A : Volume(A) = volume[s] + Volume(A \ {s})
           bad == {A \in SUBSET Sites : ~Right(A)}
<1>1. SUFFICES ASSUME bad # {} PROVE FALSE
  OBVIOUS
<1>2. PICK A \in bad : \A B \in bad : B \subseteq A => B = A
  <2>1. bad \in SUBSET SUBSET Sites
    OBVIOUS
  <2> HIDE DEF bad
  <2> QED
    BY <1>1, <2>1, MinimalSites
<1>3. PICK s \in A : Volume(A) # volume[s] + Volume(A \ {s})
  OBVIOUS
<1>4. \A B \in SUBSET A : B # A => Right(B)
  BY <1>2
<1> DEFINE c == Head(A)
           rest == A \ {c}
           both == A \ {c, s}
<1>5. A \in SUBSET Sites /\ c \in A /\ s \in A /\ A # {}
  BY <1>3, HeadIn
<1>6. Volume(A) = volume[c] + Volume(rest)
  BY <1>5, VolumeOfHead
<1>7. s # c
  BY <1>3, <1>6
<1>8. Volume(rest) = volume[s] + Volume(both)
  <2>1. Right(rest) /\ s \in rest /\ rest \ {s} = both
    BY <1>4, <1>5, <1>7
  <2> QED
    BY <2>1
<1>9. Volume(A \ {s}) = volume[c] + Volume(both)
  <2>1. Right(A \ {s}) /\ c \in A \ {s} /\ (A \ {s}) \ {c} = both
    BY <1>4, <1>5, <1>7
  <2> QED
    BY <2>1
<1>10. volume[c] \in Nat /\ volume[s] \in Nat /\ Volume(both) \in Nat
  BY <1>5, VolumeIsNat
<1> HIDE DEF c, rest, both, bad
<1> QED
  BY <1>3, <1>6, <1>8, <1>9, <1>10

\* More sites, no fewer bytes.
LEMMA VolumeGrows ==
  ASSUME volume \in [Sites -> Nat], NEW B \in SUBSET Sites, NEW A \in SUBSET B
  PROVE  Volume(A) <= Volume(B)
<1> DEFINE bad == {C \in SUBSET Sites : A \subseteq C /\ ~(Volume(A) <= Volume(C))}
<1>1. SUFFICES ASSUME bad # {} PROVE FALSE
  OBVIOUS
<1>2. PICK C \in bad : \A D \in bad : D \subseteq C => D = C
  <2>1. bad \in SUBSET SUBSET Sites
    OBVIOUS
  <2> HIDE DEF bad
  <2> QED
    BY <1>1, <2>1, MinimalSites
<1>3. Volume(A) \in Nat /\ Volume(C) \in Nat /\ C \in SUBSET Sites /\ A \subseteq C
  BY <1>2, VolumeIsNat
<1>4. PICK s \in C : s \notin A
  BY <1>2, <1>3
<1>5. Volume(C) = volume[s] + Volume(C \ {s})
  BY <1>3, VolumeOfAny
<1>6. Volume(A) <= Volume(C \ {s})
  BY <1>2, <1>3, <1>4
<1>7. volume[s] \in Nat /\ Volume(C \ {s}) \in Nat
  BY <1>3, VolumeIsNat
<1>8. ~(Volume(A) <= Volume(C))
  BY <1>2
<1> HIDE DEF bad
<1> QED
  BY <1>3, <1>5, <1>6, <1>7, <1>8

\* Volume, as a function of the windows it adds up.
Bytes(windows, sites) == MapThenSumSet(LAMBDA s : windows[s], sites)

LEMMA VolumeIsBytes ==
  /\ \A A : Volume(A) = Bytes(volume, A)
  /\ \A A : Volume(A)' = Bytes(volume', A)
BY DEF Volume, Bytes, MapThenSumSet, MapThenFoldSet

-----------------------------------------------------------------------------
(* One event while a condition lasts *)

\* A pass evaluates a rule once.
OncePerPass ==
  /\ \A t, u \in todo : t.id = u.id => t = u
  /\ pc \in Waits => \A t \in todo : t.id # job.id

\* What the evaluator holds of rule r leads it to find the condition met.
FindsMet(r) ==
  job.id = r =>
    /\ pc \in {"known", "sum", "isactive", "setkey"}
    /\ pc \in {"known", "sum"} => job.threshold = rules[r].threshold
    /\ pc = "known" => WatchedSites(r) \subseteq known
    /\ pc = "sum" => WatchedSites(r) \subseteq job.sites
    /\ pc = "isactive" => job.met

\* The condition of rule r is met, its key is set or about to be, and the pass
\* has the rule as it is.
Undisturbed(r) ==
  /\ Met(r)
  /\ KeyOf(r) # NoEvent
  /\ \A t \in todo : t.id = r => t.rule = rules[r]
  /\ FindsMet(r)

EpisodeInv == OncePerPass /\ (faults = {} => \A r \in lasting : Undisturbed(r))

LEMMA MetNeedsSites ==
  ASSUME GrantInv, NEW r \in Rules, Met(r)
  PROVE  /\ r \in Live /\ rules[r] \in RuleRow
         /\ WatchedSites(r) # {} /\ WatchedSites(r) \subseteq Sites
<1> USE ConstantsAssumption
<1>1. r \in Live /\ rules[r] \in RuleRow
  BY DEF Met, Enabled, Live, GrantInv, Typed
<1>2. rules[r].owner \in Owners /\ rules[r].threshold \in Nat \ {0}
      /\ rules[r].site \in Sites \cup {NoSite}
  BY <1>1 DEF RuleRow
<1>3. scope[rules[r].owner] \in Scope /\ known \subseteq Sites
  BY <1>2 DEF GrantInv, Typed
<1>4. WatchedSites(r) \subseteq Sites
  BY <1>2, <1>3, ScopeReaches DEF WatchedSites, Evaluated
<1>5. Volume(WatchedSites(r)) >= rules[r].threshold
  BY DEF Met
<1>6. WatchedSites(r) = {} => Volume(WatchedSites(r)) = 0
  BY <1>4, VolumeOfHead
<1> QED
  BY <1>1, <1>2, <1>4, <1>5, <1>6

\* While no rule, scope or window changes, what is met stays met.
LEMMA MetStays ==
  ASSUME UNCHANGED ruleVars, NEW r \in Rules
  PROVE  Met(r)' = Met(r) /\ WatchedSites(r)' = WatchedSites(r)
<1>1. UNCHANGED <<rules, volume, known, scope>>
  BY DEF ruleVars
<1>2. WatchedSites(r)' = WatchedSites(r)
  BY <1>1 DEF WatchedSites, Evaluated, Reach
<1>3. Volume(WatchedSites(r))' = Bytes(volume', WatchedSites(r)')
  BY DEF Volume, Bytes, MapThenSumSet, MapThenFoldSet
<1>4. Volume(WatchedSites(r)) = Bytes(volume, WatchedSites(r))
  BY VolumeIsBytes
<1>5. Volume(WatchedSites(r))' = Volume(WatchedSites(r))
  BY <1>1, <1>2, <1>3, <1>4
<1> QED
  BY <1>1, <1>2, <1>5 DEF Met, Enabled, Live

\* The evaluator leaves the evaluation of a rule, or goes on with it.
LEMMA OncePerPassKept ==
  ASSUME GrantInv, OncePerPass, todo' \subseteq todo,
         pc' \in {"asleep", "scope"} \/ (pc \in Waits /\ job'.id = job.id)
  PROVE  OncePerPass'
BY DEF OncePerPass, Waits

LEMMA ReturnLeaves ==
  ASSUME Return
  PROVE  pc' \in {"asleep", "scope"} /\ job'.id \notin Rules
BY ConstantsAssumption DEF Return, Await, NoJob

LEMMA FetchKeepsEpisode ==
  ASSUME GrantInv, EpisodeInv, FetchRules
  PROVE  EpisodeInv'
<1>1. /\ pc = "asleep" /\ pc' \in {"asleep", "scope"} /\ job'.id \notin Rules
      /\ UNCHANGED <<ruleVars, open, dedup, lasting, faults>>
      /\ todo' = {[id |-> r, rule |-> rules[r]] : r \in Enabled}
  BY ReturnLeaves DEF FetchRules
<1>2. OncePerPass'
  BY <1>1 DEF OncePerPass, Waits
<1>3. ASSUME faults' = {}, NEW r \in lasting' PROVE Undisturbed(r)'
  <2>1. r \in Rules /\ Undisturbed(r)
    BY <1>1, <1>3 DEF EpisodeInv, GrantInv, Typed
  <2>2. Met(r)'
    BY <1>1, <2>1, MetStays DEF Undisturbed
  <2>3. KeyOf(r)' # NoEvent
    BY <1>1, <2>1 DEF Undisturbed, KeyOf
  <2>4. \A t \in todo' : t.id = r => t.rule = rules'[r]
    BY <1>1 DEF ruleVars
  <2>5. FindsMet(r)'
    BY <1>1, <2>1 DEF FindsMet
  <2> QED
    BY <2>2, <2>3, <2>4, <2>5 DEF Undisturbed
<1> QED
  BY <1>2, <1>3 DEF EpisodeInv

\* A step of the evaluator that creates no event and leaves the rules and the
\* traffic alone leaves a lasting condition undisturbed when it keeps its key and
\* what it goes on with finds it met.
LEMMA EvaluatorKeepsEpisode ==
  ASSUME GrantInv, EpisodeInv, UNCHANGED <<ruleVars, lasting>>, todo' \subseteq todo,
         OncePerPass', faults' = {} => faults = {},
         \A r \in lasting : Undisturbed(r) /\ faults' = {} => KeyOf(r)' # NoEvent /\ FindsMet(r)'
  PROVE  EpisodeInv'
<1>1. ASSUME faults' = {}, NEW r \in lasting' PROVE Undisturbed(r)'
  <2>1. r \in Rules /\ Undisturbed(r) /\ KeyOf(r)' # NoEvent /\ FindsMet(r)'
    BY <1>1 DEF EpisodeInv, GrantInv, Typed
  <2>2. Met(r)'
    BY <2>1, MetStays DEF Undisturbed
  <2>3. \A t \in todo' : t.id = r => t.rule = rules'[r]
    BY <2>1 DEF Undisturbed, ruleVars
  <2> QED
    BY <2>1, <2>2, <2>3 DEF Undisturbed
<1> QED
  BY <1>1 DEF EpisodeInv

LEMMA ScopeKeepsEpisode ==
  ASSUME GrantInv, EpisodeInv, ReadScope
  PROVE  EpisodeInv'
<1> USE ConstantsAssumption
<1>1. PICK next \in todo, sc \in Scope :
        LET sites == Evaluated(next.rule, sc)
            orgWide == next.rule.site = NoSite
            locals == [NoJob EXCEPT !.id = next.id, !.threshold = next.rule.threshold,
                                    !.granted = Reach(scope[next.rule.owner])]
        IN /\ OwnerScope(next.rule.owner, sc)
           /\ todo' = todo \ {next}
           /\ \/ orgWide /\ sc.all /\ Await("known", locals)
              \/ ~(orgWide /\ sc.all) /\ sites # {} /\ Await("sum", [locals EXCEPT !.sites = sites])
              \/ orgWide /\ ~sc.all /\ sites = {} /\ Return
              \/ ~orgWide /\ sites = {} /\ Resolve(next.id)
  BY DEF ReadScope
<1> DEFINE sites == Evaluated(next.rule, sc)
           orgWide == next.rule.site = NoSite
           named == [NoJob EXCEPT !.id = next.id]
           bounded == [named EXCEPT !.threshold = next.rule.threshold]
           locals == [bounded EXCEPT !.granted = Reach(scope[next.rule.owner])]
           watching == [locals EXCEPT !.sites = sites]
<1>2. /\ OwnerScope(next.rule.owner, sc) /\ todo' = todo \ {next}
      /\ \/ orgWide /\ sc.all /\ Await("known", locals)
         \/ ~(orgWide /\ sc.all) /\ sites # {} /\ Await("sum", watching)
         \/ orgWide /\ ~sc.all /\ sites = {} /\ Return
         \/ ~orgWide /\ sites = {} /\ Await("getkey", named)
  BY <1>1, Zenon DEF Resolve
<1>3. pc = "scope" /\ UNCHANGED <<ruleVars, open, dedup, lasting>>
  BY DEF ReadScope
<1>4. next.id \in Rules
  BY DEF GrantInv, Typed
<1>5. /\ named.id = next.id
      /\ locals.id = next.id /\ locals.threshold = next.rule.threshold
      /\ watching.id = next.id /\ watching.threshold = next.rule.threshold
      /\ watching.sites = sites
  <2>1. named \in Job /\ named.id = next.id
    BY <1>4, NoJobTyped DEF Job
  <2>2. bounded \in Job /\ bounded.id = next.id /\ bounded.threshold = next.rule.threshold
    <3>1. next.rule.threshold \in Thresholds
      BY DEF GrantInv, Typed, RuleRow
    <3> HIDE DEF named
    <3> QED
      BY <2>1, <3>1 DEF Job
  <2>3. locals \in Job /\ locals.id = next.id /\ locals.threshold = next.rule.threshold
    <3>1. scope[next.rule.owner] \in Scope
      BY DEF GrantInv, Typed, RuleRow
    <3>2. Reach(scope[next.rule.owner]) \subseteq Sites
      BY <3>1, ScopeReaches
    <3> HIDE DEF bounded
    <3> QED
      BY <2>2, <3>2 DEF Job
  <2>4. watching.id = next.id /\ watching.threshold = next.rule.threshold /\ watching.sites = sites
    <3> HIDE DEF locals, sites
    <3> QED
      BY <2>3 DEF Job
  <2> HIDE DEF named, locals, watching, sites
  <2> QED
    BY <2>1, <2>3, <2>4
<1> HIDE DEF named, bounded, locals, watching
<1>6. \/ pc' \in {"known", "sum", "getkey"} /\ job'.id = next.id
      \/ pc' \in {"asleep", "scope"} /\ job'.id \notin Rules
  BY <1>2, <1>5, ReturnLeaves DEF Await
<1>7. OncePerPass'
  BY <1>2, <1>6 DEF EpisodeInv, OncePerPass, Waits
<1>8. ASSUME NEW r \in lasting, Undisturbed(r), faults' = {}
      PROVE  KeyOf(r)' # NoEvent /\ FindsMet(r)'
  <2>1. KeyOf(r)' # NoEvent
    BY <1>3, <1>6, <1>8 DEF Undisturbed, KeyOf
  <2>2. r \in Rules
    BY DEF GrantInv, Typed
  <2>3. CASE next.id # r
    BY <1>6, <2>1, <2>2, <2>3 DEF FindsMet
  <2>4. CASE next.id = r
    <3>1. next.rule = rules[r]
      BY <1>8, <2>4 DEF Undisturbed
    <3>2. sc = scope[rules[r].owner]
      BY <1>2, <1>8, <3>1 DEF OwnerScope, Fault
    <3>3. sites = WatchedSites(r)
      BY <3>1, <3>2 DEF WatchedSites
    <3>4. WatchedSites(r) # {}
      BY <1>8, <2>2, MetNeedsSites DEF Undisturbed
    <3>5. WatchedSites(r)' = WatchedSites(r) /\ UNCHANGED <<rules, known>>
      BY <1>3, <2>2, MetStays DEF ruleVars
    <3>6. orgWide /\ sc.all => WatchedSites(r) = known
      BY <3>1, <3>2 DEF WatchedSites, Evaluated
    <3>7. \/ orgWide /\ sc.all /\ pc' = "known" /\ job'.threshold = rules[r].threshold
          \/ pc' = "sum" /\ job'.threshold = rules[r].threshold /\ job'.sites = WatchedSites(r)
          \/ pc' \in {"asleep", "scope"} /\ job'.id \notin Rules
      BY <1>2, <1>5, <3>1, <3>3, <3>4, ReturnLeaves DEF Await
    <3> QED
      BY <2>1, <2>2, <3>5, <3>6, <3>7 DEF FindsMet
  <2> QED
    BY <2>3, <2>4
<1>9. faults' = {} => faults = {}
  BY <1>2 DEF OwnerScope, Fault
<1> QED
  BY <1>2, <1>3, <1>7, <1>8, <1>9, EvaluatorKeepsEpisode

\* known_site_ids(), sum_window() and is_active(): the reading is of no fewer sites
\* than the rule watches, and the key is there, so nothing is called for.
LEMMA ReadingKeepsEpisode ==
  ASSUME GrantInv, StoresInv, EpisodeInv, ReadKnownSites \/ SumWindow \/ IsActive
  PROVE  EpisodeInv'
<1>1. /\ UNCHANGED <<ruleVars, open, dedup, todo, lasting, faults>>
      /\ pc \in {"known", "sum", "isactive"} /\ job \in Job /\ known \subseteq Sites
      /\ volume \in [Sites -> Nat]
  BY ConstantsAssumption DEF ReadKnownSites, SumWindow, IsActive, GrantInv, Typed
<1>2. \/ pc' \in {"asleep", "scope"} /\ job'.id \notin Rules
      \/ pc' \in {"sum", "isactive", "insert", "getkey"} /\ job'.id = job.id
  <2>1. /\ \A ss : [job EXCEPT !.sites = ss].id = job.id
        /\ \A m : [job EXCEPT !.met = m].id = job.id
        /\ [NoJob EXCEPT !.id = job.id].id = job.id
    BY <1>1, NoJobTyped DEF Job
  <2>2. CASE ReadKnownSites
    BY <2>1, <2>2, ReturnLeaves DEF ReadKnownSites, Await
  <2>3. CASE SumWindow
    <3>1. pc' = "isactive" /\ \E m : job' = [job EXCEPT !.met = m]
      BY <2>3 DEF SumWindow, Await
    <3> QED
      BY <2>1, <3>1
  <2>4. CASE IsActive
    <3>1. Await("insert", job) \/ Resolve(job.id) \/ Return
      BY <2>4 DEF IsActive
    <3> QED
      BY <2>1, <3>1, ReturnLeaves DEF Resolve, Await
  <2> QED
    BY <2>2, <2>3, <2>4
<1>3. OncePerPass'
  BY <1>1, <1>2, OncePerPassKept DEF EpisodeInv, Waits
<1>4. ASSUME NEW r \in lasting, Undisturbed(r), faults' = {}
      PROVE  KeyOf(r)' # NoEvent /\ FindsMet(r)'
  <2>1. KeyOf(r)' # NoEvent /\ dedup[r] # NoEvent
    BY <1>1, <1>2, <1>4 DEF Undisturbed, KeyOf
  <2>2. /\ r \in Rules /\ WatchedSites(r)' = WatchedSites(r) /\ rules' = rules
        /\ WatchedSites(r) # {}
    BY <1>1, <1>4, MetStays, MetNeedsSites DEF GrantInv, Typed, Undisturbed, ruleVars
  <2>3. CASE job.id # r \/ pc' \in {"asleep", "scope"}
    BY <1>2, <2>1, <2>2, <2>3 DEF FindsMet
  <2>4. CASE job.id = r /\ pc' \notin {"asleep", "scope"}
    <3>1. CASE ReadKnownSites
      <4>1. WatchedSites(r) \subseteq known /\ job.threshold = rules[r].threshold
        BY <1>4, <2>4, <3>1 DEF Undisturbed, FindsMet, ReadKnownSites
      <4>2. pc' = "sum" /\ job' = [job EXCEPT !.sites = known]
        BY <2>4, <3>1, ReturnLeaves DEF ReadKnownSites, Await
      <4>3. job'.sites = known /\ job'.threshold = job.threshold
        BY <1>1, <4>2 DEF Job
      <4> QED
        BY <2>1, <2>2, <4>1, <4>2, <4>3 DEF FindsMet
    <3>2. CASE SumWindow
      <4>1. WatchedSites(r) \subseteq job.sites /\ job.threshold = rules[r].threshold
        BY <1>4, <2>4, <3>2 DEF Undisturbed, FindsMet, SumWindow
      <4>2. job.sites \subseteq Sites /\ job.threshold \in Nat
        <5>1. job.sites \subseteq Sites /\ job.threshold \in Thresholds \cup {0}
          BY <1>1 DEF Job
        <5>2. Thresholds \subseteq Nat
          BY ConstantsAssumption
        <5>3. job.threshold \in Nat
          BY <5>1, <5>2, 0 \in Nat, Zenon
        <5> QED
          BY <5>1, <5>3
      <4>3. Volume(WatchedSites(r)) <= Volume(job.sites)
        BY <1>1, <4>1, <4>2, VolumeGrows
      <4>4. Volume(WatchedSites(r)) \in Nat /\ Volume(job.sites) \in Nat
        BY <1>1, <4>1, <4>2, VolumeIsNat
      <4>5. Volume(job.sites) >= job.threshold
        BY <1>4, <4>1, <4>2, <4>3, <4>4 DEF Undisturbed, Met
      <4>6. Await("isactive", [job EXCEPT !.met = TRUE])
        BY <3>2, <4>5 DEF SumWindow
      <4>7. pc' = "isactive" /\ job'.met
        BY <1>1, <4>6 DEF Await, Job
      <4> QED
        BY <2>1, <4>7 DEF FindsMet
    <3>3. CASE IsActive
      <4>1. job.met
        BY <1>4, <2>4, <3>3 DEF Undisturbed, FindsMet, IsActive
      <4>2. Return
        BY <2>1, <2>4, <3>3, <4>1, Zenon DEF IsActive
      <4> QED
        BY <2>4, <4>2, ReturnLeaves
    <3> QED
      BY <3>1, <3>2, <3>3
  <2> QED
    BY <2>3, <2>4
<1> QED
  BY <1>1, <1>3, <1>4, EvaluatorKeepsEpisode

\* trigger(): the condition that begins to last was not lasting, and the pass is
\* done with its rule.
LEMMA TriggerKeepsEpisode ==
  ASSUME GrantInv, StoresInv, EpisodeInv, InsertEvent
  PROVE  EpisodeInv'
<1> USE ConstantsAssumption
<1>1. /\ UNCHANGED <<ruleVars, dedup, faults>> /\ pc = "insert" /\ job.id \in Rules
      /\ todo' \subseteq todo
  BY DEF InsertEvent, GrantInv, JobNamed
<1>2. CASE job.id \notin Live
  <2>1. pc' \in {"asleep", "scope"} /\ job'.id \notin Rules /\ lasting' = lasting
    BY <1>2, ReturnLeaves DEF InsertEvent
  <2>2. OncePerPass'
    BY <1>1, <2>1, OncePerPassKept DEF EpisodeInv
  <2>3. ASSUME NEW r \in lasting, Undisturbed(r) PROVE KeyOf(r)' # NoEvent /\ FindsMet(r)'
    <3>1. r \in Rules
      BY DEF GrantInv, Typed
    <3> QED
      BY <1>1, <2>1, <2>3, <3>1 DEF Undisturbed, KeyOf, FindsMet
  <2> QED
    BY <1>1, <2>1, <2>2, <2>3, EvaluatorKeepsEpisode
<1>3. CASE job.id \in Live
  <2>1. PICK e \in EventIds : Await("setkey", [NoJob EXCEPT !.id = job.id, !.event = e])
    <3>1. (CHOOSE e \in FreshIds : TRUE) \in EventIds
      BY <1>3 DEF InsertEvent, FreshIds
    <3>2. Await("setkey", [NoJob EXCEPT !.id = job.id, !.event = CHOOSE e \in FreshIds : TRUE])
      BY <1>3 DEF InsertEvent
    <3> QED
      BY <3>1, <3>2
  <2>2. pc' = "setkey" /\ job'.id = job.id /\ job'.event = e
    <3>1. [NoJob EXCEPT !.id = job.id, !.event = e].id = job.id
      BY NoJobTyped DEF Job
    <3>2. [NoJob EXCEPT !.id = job.id, !.event = e].event = e
      BY NoJobTyped DEF Job
    <3> QED
      BY <2>1, <3>1, <3>2 DEF Await
  <2>3. todo' = todo /\ lasting' = IF Met(job.id) THEN lasting \cup {job.id} ELSE lasting
    BY <1>3 DEF InsertEvent
  <2>4. OncePerPass'
    BY <1>1, <2>2, OncePerPassKept DEF EpisodeInv, Waits
  <2>5. ASSUME faults' = {}, NEW r \in lasting' PROVE Undisturbed(r)'
    <3>1. \A q \in lasting : Undisturbed(q) /\ q \in Rules
      BY <1>1, <2>5 DEF EpisodeInv, GrantInv, Typed
    <3>2. CASE r = job.id
      <4>1. Met(r) /\ r \in Rules
        BY <1>1, <2>3, <3>1, <3>2 DEF Undisturbed
      <4>2. Met(r)'
        BY <1>1, <4>1, MetStays
      <4>3. KeyOf(r)' = e
        BY <2>2, <3>2 DEF KeyOf
      <4>4. \A t \in todo' : t.id # r
        BY <1>1, <2>3, <3>2 DEF EpisodeInv, OncePerPass, Waits
      <4>5. FindsMet(r)'
        BY <2>2 DEF FindsMet
      <4> QED
        BY <4>2, <4>3, <4>4, <4>5 DEF Undisturbed
    <3>3. CASE r # job.id
      <4>1. Undisturbed(r) /\ r \in Rules
        BY <2>3, <3>1, <3>3
      <4>2. Met(r)'
        BY <1>1, <4>1, MetStays DEF Undisturbed
      <4>3. KeyOf(r)' # NoEvent /\ FindsMet(r)'
        BY <1>1, <2>2, <3>3, <4>1 DEF Undisturbed, KeyOf, FindsMet
      <4> QED
        BY <1>1, <2>3, <4>1, <4>2, <4>3 DEF Undisturbed, ruleVars
    <3> QED
      BY <3>2, <3>3
  <2> QED
    BY <2>4, <2>5 DEF EpisodeInv
<1> QED
  BY <1>2, <1>3

\* SetKey writes the key of the event in hand; resolve() is never called for a
\* condition that lasts.
LEMMA KeyKeepsEpisode ==
  ASSUME GrantInv, StoresInv, EpisodeInv, SetKey \/ GetKey \/ UpdateEvent \/ DeleteKey
  PROVE  EpisodeInv'
<1>1. /\ UNCHANGED <<ruleVars, lasting, faults, todo>> /\ job \in Job /\ job.id \in Rules
      /\ pc \in {"setkey", "getkey", "update", "delkey"}
      /\ dedup \in [Rules -> EventIds \cup {NoEvent}]
  BY DEF SetKey, GetKey, UpdateEvent, DeleteKey, GrantInv, Typed, JobNamed, Waits
<1>2. \/ pc' \in {"asleep", "scope"} /\ job'.id \notin Rules
      \/ pc' \in {"update", "delkey"} /\ job'.id = job.id
  <2>1. \A k : [job EXCEPT !.event = k].id = job.id
    BY <1>1 DEF Job
  <2> QED
    BY <2>1, ReturnLeaves DEF SetKey, GetKey, UpdateEvent, DeleteKey, Await
<1>3. OncePerPass'
  BY <1>1, <1>2, OncePerPassKept DEF EpisodeInv, Waits
<1>4. ASSUME NEW r \in lasting, Undisturbed(r), faults' = {}
      PROVE  KeyOf(r)' # NoEvent /\ FindsMet(r)'
  <2>1. r \in Rules /\ (job.id = r => pc = "setkey")
    BY <1>1, <1>4 DEF GrantInv, Typed, Undisturbed, FindsMet
  <2>2. pc = "setkey" => SetKey
    BY DEF SetKey, GetKey, UpdateEvent, DeleteKey
  <2>3. CASE job.id = r
    <3>1. KeyOf(r) = job.event /\ dedup' = [dedup EXCEPT ![r] = job.event]
          /\ pc' \in {"asleep", "scope"}
      BY <2>1, <2>2, <2>3, ReturnLeaves DEF KeyOf, SetKey
    <3>2. KeyOf(r)' = job.event
      BY <1>1, <2>1, <3>1 DEF KeyOf
    <3> QED
      BY <1>2, <1>4, <2>1, <3>1, <3>2 DEF Undisturbed, FindsMet
  <2>4. CASE job.id # r
    <3>1. dedup'[r] = dedup[r]
      BY <1>1, <2>1, <2>4 DEF SetKey, GetKey, UpdateEvent, DeleteKey
    <3> QED
      BY <1>2, <1>4, <2>1, <2>4, <3>1 DEF Undisturbed, KeyOf, FindsMet
  <2> QED
    BY <2>3, <2>4
<1> QED
  BY <1>1, <1>3, <1>4, EvaluatorKeepsEpisode

\* What the environment does either keeps the condition of a rule and its being
\* met, or the condition lasts no longer.
LEMMA AroundKeepsEpisode ==
  ASSUME GrantInv, StoresInv, EpisodeInv, Environment
  PROVE  EpisodeInv'
<1> USE ConstantsAssumption
<1>1. UNCHANGED <<pc, job, todo>>
  BY DEF Environment, RecordBytes, WindowSlides, ChangeScope, CreateRule, UpdateRule, DeleteRule,
         ExpireKey, evaluatorVars
<1>2. OncePerPass'
  BY <1>1 DEF EpisodeInv, OncePerPass
<1>3. ASSUME faults = {}, NEW r \in lasting
      PROVE  r \in Rules /\ Undisturbed(r) /\ r \in Live
  BY <1>3, MetNeedsSites DEF EpisodeInv, GrantInv, Typed, Undisturbed
<1>4. ASSUME faults = {}, NEW r \in lasting, Met(r)', rules'[r] = rules[r],
             WatchedSites(r)' = WatchedSites(r), known \subseteq known', KeyOf(r)' # NoEvent
      PROVE  Undisturbed(r)'
  <2>1. Undisturbed(r) /\ \A t \in todo : t.id = r => t.rule = rules[r]
    BY <1>3, <1>4 DEF Undisturbed
  <2>2. FindsMet(r)'
    BY <1>1, <1>4, <2>1 DEF Undisturbed, FindsMet
  <2> QED
    BY <1>1, <1>4, <2>1, <2>2 DEF Undisturbed
<1>5. ASSUME UNCHANGED <<dedup, faults>>, known \subseteq known', StillLasting
      PROVE  EpisodeInv'
  <2>1. ASSUME faults' = {}, NEW r \in lasting' PROVE Undisturbed(r)'
    <3>1. r \in lasting /\ r \in Live' /\ Met(r)' /\ Condition(r)' = Condition(r)
      BY <1>5 DEF StillLasting
    <3>2. Undisturbed(r) /\ r \in Live
      BY <1>3, <1>5, <2>1, <3>1
    <3>3. rules'[r] = rules[r] /\ WatchedSites(r)' = WatchedSites(r)
      BY <3>1, <3>2 DEF Condition
    <3>4. KeyOf(r)' # NoEvent
      BY <1>1, <1>5, <3>2 DEF Undisturbed, KeyOf
    <3> QED
      BY <1>4, <1>5, <2>1, <3>1, <3>3, <3>4
  <2> QED
    BY <1>2, <2>1 DEF EpisodeInv
<1>6. ASSUME NEW s \in Sites, RecordBytes(s) \/ WindowSlides(s) PROVE EpisodeInv'
  BY <1>5, <1>6 DEF RecordBytes, WindowSlides
<1>7. ASSUME NEW o \in Owners, NEW sc \in Scope, ChangeScope(o, sc) PROVE EpisodeInv'
  BY <1>5, <1>7 DEF ChangeScope
<1>8. ASSUME NEW r \in Rules, NEW th \in Thresholds, NEW on \in BOOLEAN, UpdateRule(r, th, on)
      PROVE  EpisodeInv'
  BY <1>5, <1>8 DEF UpdateRule
<1>9. ASSUME NEW r \in Rules, DeleteRule(r) PROVE EpisodeInv'
  BY <1>5, <1>9 DEF DeleteRule
<1>10. ASSUME NEW q \in Rules, NEW row \in RuleRow, CreateRule(q, row) PROVE EpisodeInv'
  <2>1. /\ rules[q] = Unused /\ rules' = [rules EXCEPT ![q] = row]
        /\ UNCHANGED <<volume, known, scope, dedup, lasting, faults>>
    BY <1>10 DEF CreateRule
  <2>2. ASSUME faults' = {}, NEW r \in lasting' PROVE Undisturbed(r)'
    <3>1. r \in lasting /\ r \in Rules /\ Undisturbed(r) /\ r \in Live
      BY <1>3, <2>1, <2>2
    <3>2. rules'[r] = rules[r]
      BY <2>1, <3>1 DEF Live, GrantInv, Typed
    <3>3. WatchedSites(r)' = WatchedSites(r)
      BY <2>1, <3>2 DEF WatchedSites, Evaluated, Reach
    <3>4. Volume(WatchedSites(r))' = Volume(WatchedSites(r))
      <4>1. Volume(WatchedSites(r))' = Bytes(volume', WatchedSites(r)')
        BY DEF Volume, Bytes, MapThenSumSet, MapThenFoldSet
      <4>2. Volume(WatchedSites(r)) = Bytes(volume, WatchedSites(r))
        BY VolumeIsBytes
      <4> QED
        BY <2>1, <3>3, <4>1, <4>2
    <3>5. Met(r)'
      BY <3>1, <3>2, <3>3, <3>4 DEF Undisturbed, Met, Enabled, Live
    <3>6. KeyOf(r)' # NoEvent
      BY <1>1, <2>1, <3>1 DEF Undisturbed, KeyOf
    <3> QED
      BY <1>4, <2>1, <2>2, <3>1, <3>2, <3>3, <3>5, <3>6
  <2> QED
    BY <1>2, <2>2 DEF EpisodeInv
<1>11. ASSUME NEW q \in Rules, ExpireKey(q) PROVE EpisodeInv'
  <2>1. /\ dedup' = [dedup EXCEPT ![q] = NoEvent] /\ UNCHANGED <<ruleVars, open, lasting>>
        /\ faults' = {} => faults = {} /\ \A e \in open : e.id # dedup[q]
    BY <1>11 DEF ExpireKey, Fault
  <2>2. ASSUME faults' = {}, NEW r \in lasting' PROVE Undisturbed(r)'
    <3>1. r \in lasting /\ r \in Rules /\ Undisturbed(r) /\ r \in Live
          /\ faults = {} /\ \A e \in open : e.id # dedup[q]
      BY <1>3, <2>1, <2>2
    <3>2. AgreeOn(r) /\ KeyOf(r) # NoEvent
      BY <3>1 DEF StoresInv, Agree, Undisturbed
    <3>3. KeyOf(r) = dedup[r] => r # q
      BY <3>1, <3>2 DEF AgreeOn
    <3>4. KeyOf(r)' = KeyOf(r)
      BY <1>1, <2>1, <3>1, <3>3 DEF KeyOf, GrantInv, Typed
    <3>5. Met(r)' /\ WatchedSites(r)' = WatchedSites(r)
      BY <2>1, <3>1, MetStays DEF Undisturbed
    <3> QED
      BY <1>4, <2>1, <3>1, <3>2, <3>4, <3>5 DEF ruleVars
  <2> QED
    BY <1>2, <2>2 DEF EpisodeInv
<1> QED
  BY <1>6, <1>7, <1>8, <1>9, <1>10, <1>11 DEF Environment

LEMMA AbortKeepsEpisode ==
  ASSUME GrantInv, EpisodeInv, AbortPass
  PROVE  EpisodeInv'
<1>1. todo' = {} /\ faults' # {} /\ pc' \in {"asleep", "scope"}
  BY ReturnLeaves DEF AbortPass, Fault
<1> QED
  BY <1>1 DEF EpisodeInv, OncePerPass, Waits

LEMMA EpisodeStutters ==
  ASSUME EpisodeInv, GrantInv, UNCHANGED vars
  PROVE  EpisodeInv'
<1>1. UNCHANGED <<rules, open, dedup, volume, known, scope, pc, todo, job, faults, lasting>>
  BY DEF vars
<1>2. OncePerPass'
  BY <1>1 DEF EpisodeInv, OncePerPass
<1>3. ASSUME NEW r \in lasting, Undisturbed(r), faults' = {}
      PROVE  KeyOf(r)' # NoEvent /\ FindsMet(r)'
  <2>1. WatchedSites(r)' = WatchedSites(r)
    BY <1>1, MetStays DEF ruleVars, GrantInv, Typed
  <2> QED
    BY <1>1, <1>3, <2>1 DEF Undisturbed, KeyOf, FindsMet
<1> QED
  BY <1>1, <1>2, <1>3, EvaluatorKeepsEpisode DEF ruleVars

LEMMA EpisodeInductive == Spec => [](GrantInv /\ StoresInv /\ EpisodeInv)
<1>1. Init => EpisodeInv
  BY DEF Init, EpisodeInv, OncePerPass, Waits
<1>2. GrantInv /\ StoresInv /\ EpisodeInv /\ [Next]_vars => EpisodeInv'
  <2> SUFFICES ASSUME GrantInv, StoresInv, EpisodeInv, [Next]_vars PROVE EpisodeInv'
    OBVIOUS
  <2> QED
    BY EpisodeStutters, FetchKeepsEpisode, ScopeKeepsEpisode, ReadingKeepsEpisode,
       TriggerKeepsEpisode, KeyKeepsEpisode, AbortKeepsEpisode, AroundKeepsEpisode
       DEF Next, Evaluator
<1> QED
  BY <1>1, <1>2, StoresInductive, PTL DEF Spec

\* While the condition of a rule stays the same and met after its event, no second
\* event is created for it, however often the evaluator passes and whatever the
\* traffic and the other rules do meanwhile, until something goes wrong
\* (notifier.py:3-4, evaluator.py:105-113).
THEOREM EpisodesRaiseOnce == Spec => OneEventPerEpisode
<1>1. GrantInv /\ EpisodeInv /\ [Next]_vars
        => [faults = {} => \A e \in open' \ open : e.rule \notin lasting]_vars
  <2> SUFFICES ASSUME GrantInv, EpisodeInv, Next, faults = {}, NEW e \in open' \ open
               PROVE  e.rule \notin lasting
    OBVIOUS
  <2>1. CASE InsertEvent
    <3>1. e.rule = job.id /\ pc = "insert"
      BY <2>1 DEF InsertEvent
    <3>2. \A r \in lasting : FindsMet(r)
      BY DEF EpisodeInv, Undisturbed
    <3> QED
      BY <3>1, <3>2 DEF FindsMet
  <2>2. CASE ~InsertEvent
    <3>1. open' \subseteq open
      BY <2>2 DEF Next, Evaluator, Environment, FetchRules, ReadScope, ReadKnownSites, SumWindow,
                  IsActive, SetKey, GetKey, UpdateEvent, DeleteKey, AbortPass, ExpireKey,
                  RecordBytes, WindowSlides, ChangeScope, CreateRule, UpdateRule, DeleteRule
    <3> QED
      BY <3>1
  <2> QED
    BY <2>1, <2>2
<1> QED
  BY <1>1, EpisodeInductive, PTL DEF Spec, OneEventPerEpisode

-----------------------------------------------------------------------------
(* The book of alerts *)

\* The service keeps the abstract book: its rules are those of the table, its
\* memory is lost with a key that expires or a pass that is aborted.
Book == INSTANCE AlertBook WITH
  live <- Live, retired <- {r \in Rules : rules[r] = Deleted},
  lost <- ~(faults \subseteq {"outage"})

Retired == {r \in Rules : rules[r] = Deleted}
Lost == ~(faults \subseteq {"outage"})

\* Steps that touch neither rules nor events at most lose the memory.
LEMMA QuietKeepsBook ==
  ASSUME UNCHANGED open, Live' = Live, Retired' = Retired, Lost' = Lost \/ Lost' = TRUE
  PROVE  [Book!Next]_(Book!vars)
<1>1. CASE Lost' = Lost
  BY <1>1 DEF Book!vars, Retired, Lost
<1>2. CASE Lost' = TRUE
  <2>1. Book!Lose
    BY <1>2 DEF Book!Lose, Retired, Lost
  <2> QED
    BY <2>1 DEF Book!Next
<1> QED
  BY <1>1, <1>2

\* trigger() inserts for a rule whose key is missing, and by AgreeOn such a rule
\* has no open event.
LEMMA InsertKeepsBook ==
  ASSUME GrantInv, StoresInv, InsertEvent
  PROVE  [Book!Next]_(Book!vars)
<1>1. UNCHANGED <<rules, faults>> /\ Live' = Live /\ Retired' = Retired /\ Lost' = Lost
  BY DEF InsertEvent, ruleVars, Live, Retired, Lost
<1>2. CASE job.id \notin Live
  BY <1>1, <1>2, QuietKeepsBook DEF InsertEvent
<1>3. CASE job.id \in Live
  <2> DEFINE i == CHOOSE f \in FreshIds : TRUE
             e == [id |-> i, rule |-> job.id, sites |-> job.sites]
  <2>1. i \in FreshIds /\ open' = open \cup {e} /\ pc = "insert"
    BY <1>3 DEF InsertEvent
  <2>2. e.id = i /\ e.rule = job.id
    OBVIOUS
  <2>3. \A f \in open : f.id # i
    BY <2>1 DEF FreshIds
  <2> HIDE DEF i, e
  <2>4. ASSUME ~Lost, NEW f \in open PROVE f.rule # job.id
    <3>1. AgreeOn(job.id) /\ dedup[job.id] = NoEvent
      BY <1>3, <2>1, <2>4 DEF StoresInv, Agree, KeyInHand, Lost
    <3>2. KeyOf(job.id) = NoEvent
      BY <2>1, <3>1 DEF KeyOf
    <3>3. f.id # NoEvent
      BY ConstantsAssumption DEF GrantInv, Typed, Event
    <3> QED
      BY <3>1, <3>2, <3>3 DEF AgreeOn
  <2>5. e \in open' /\ e.rule \in Live
    BY <1>3, <2>1, <2>2
  <2>6. \A f \in open : f.id # e.id /\ (f.rule # e.rule \/ Lost)
    BY <2>2, <2>3, <2>4
  <2>7. Book!Raise
    BY <1>1, <2>1, <2>5, <2>6 DEF Book!Raise, Retired, Lost
  <2> QED
    BY <2>7 DEF Book!Next
<1> QED
  BY <1>2, <1>3

\* resolve() closes the one event its key names.
LEMMA UpdateKeepsBook ==
  ASSUME GrantInv, StoresInv, UpdateEvent
  PROVE  [Book!Next]_(Book!vars)
<1>1. Live' = Live /\ Retired' = Retired /\ Lost' = Lost
      /\ open' = {e \in open : e.id # job.event}
  BY DEF UpdateEvent, ruleVars, Live, Retired, Lost
<1>2. CASE \A e \in open : e.id # job.event
  <2>1. open' = open
    BY <1>1, <1>2
  <2> QED
    BY <1>1, <2>1, QuietKeepsBook
<1>3. ASSUME NEW e \in open, e.id = job.event PROVE Book!Resolve
  <2>1. \A f \in open : f.id = job.event <=> f = e
    BY <1>3 DEF StoresInv, IdsOfOne
  <2>2. open' = open \ {e}
    BY <1>1, <2>1
  <2> QED
    BY <1>1, <2>2 DEF Book!Resolve, Retired, Lost
<1> QED
  BY <1>2, <1>3 DEF Book!Next

\* Rules are created with fresh ids, changed in place, and deleted with their events.
LEMMA AroundKeepsBook ==
  ASSUME GrantInv, Environment
  PROVE  [Book!Next]_(Book!vars)
<1>1. ASSUME NEW r \in Rules, NEW row \in RuleRow, CreateRule(r, row)
      PROVE  [Book!Next]_(Book!vars)
  <2>1. \A q \in Rules : rules'[q] = IF q = r THEN row ELSE rules[q]
    BY <1>1 DEF CreateRule, GrantInv, Typed
  <2>2. rules[r] = Unused /\ row \notin {Unused, Deleted}
    BY <1>1, NoRowAssumption DEF CreateRule
  <2>3. r \notin Live \cup Retired
    BY <2>2, ConstantsAssumption DEF Live, Retired
  <2>4. Live' = Live \cup {r}
    BY <2>1, <2>2 DEF Live
  <2>5. UNCHANGED <<Retired, Lost, open>>
    BY <1>1, <2>1, <2>2, ConstantsAssumption DEF Retired, Lost, CreateRule
  <2>6. Book!Create(r)
    BY <2>3, <2>4, <2>5 DEF Book!Create, Retired, Lost
  <2> QED
    BY <2>6 DEF Book!Next
<1>2. ASSUME NEW r \in Rules, DeleteRule(r) PROVE [Book!Next]_(Book!vars)
  <2>1. \A q \in Rules : rules'[q] = IF q = r THEN Deleted ELSE rules[q]
    BY <1>2 DEF DeleteRule, GrantInv, Typed
  <2>2. r \in Live /\ Live' = Live \ {r} /\ Retired' = Retired \cup {r}
    BY <1>2, <2>1 DEF DeleteRule, Live, Retired
  <2>3. Lost' = Lost /\ open' = {e \in open : e.rule # r}
    BY <1>2 DEF DeleteRule, Lost
  <2>4. Book!Drop(r)
    BY <2>2, <2>3 DEF Book!Drop, Retired, Lost
  <2> QED
    BY <2>4 DEF Book!Next
<1>3. ASSUME NEW r \in Rules, NEW th \in Thresholds, NEW on \in BOOLEAN, UpdateRule(r, th, on)
      PROVE  [Book!Next]_(Book!vars)
  <2>1. r \in Live /\ rules[r] \in RuleRow
    BY <1>3 DEF UpdateRule, Live, GrantInv, Typed
  <2> DEFINE row == [rules[r] EXCEPT !.threshold = th, !.enabled = on]
  <2>2. row \in RuleRow
    BY <2>1 DEF RuleRow
  <2>3. rules' = [rules EXCEPT ![r] = row]
    BY <1>3, <2>1 DEF UpdateRule, RuleRow, GrantInv, Typed
  <2> HIDE DEF row
  <2>4. \A q \in Rules : rules'[q] = IF q = r THEN row ELSE rules[q]
    BY <2>3 DEF GrantInv, Typed
  <2>5. Live' = Live /\ Retired' = Retired
    BY <2>1, <2>2, <2>4, NoRowAssumption DEF Live, Retired
  <2>6. UNCHANGED open /\ Lost' = Lost
    BY <1>3 DEF UpdateRule, Lost
  <2> QED
    BY <2>5, <2>6, QuietKeepsBook
<1>4. ASSUME NEW r \in Rules, ExpireKey(r) PROVE [Book!Next]_(Book!vars)
  <2>1. UNCHANGED <<rules, open>> /\ (faults' = faults \/ faults' = {"expiry"})
    BY <1>4 DEF ExpireKey, Fault, ruleVars
  <2>2. Live' = Live /\ Retired' = Retired /\ (Lost' = Lost \/ Lost' = TRUE)
    BY <2>1 DEF Live, Retired, Lost
  <2> QED
    BY <2>1, <2>2, QuietKeepsBook
<1>5. CASE UNCHANGED <<rules, open, faults>>
  <2>1. Live' = Live /\ Retired' = Retired /\ Lost' = Lost
    BY <1>5 DEF Live, Retired, Lost
  <2> QED
    BY <1>5, <2>1, QuietKeepsBook
<1> QED
  BY <1>1, <1>2, <1>3, <1>4, <1>5 DEF Environment, RecordBytes, WindowSlides, ChangeScope

\* The evaluator's other steps and its end: an outage loses nothing.
LEMMA EvaluatorKeepsBook ==
  ASSUME FetchRules \/ ReadScope \/ ReadKnownSites \/ SumWindow \/ IsActive \/ SetKey
           \/ GetKey \/ DeleteKey \/ AbortPass
  PROVE  [Book!Next]_(Book!vars)
<1>1. UNCHANGED <<rules, open>>
  BY DEF FetchRules, ReadScope, ReadKnownSites, SumWindow, IsActive, SetKey, GetKey, DeleteKey,
         AbortPass, ruleVars
<1>2. faults' = faults \/ (faults = {} /\ faults' = {"outage"}) \/ faults' = {"abort"}
  BY DEF FetchRules, ReadScope, OwnerScope, ReadKnownSites, SumWindow, IsActive, SetKey, GetKey,
         DeleteKey, AbortPass, Fault
<1>3. Live' = Live /\ Retired' = Retired /\ (Lost' = Lost \/ Lost' = TRUE)
  BY <1>1, <1>2 DEF Live, Retired, Lost
<1> QED
  BY <1>1, <1>3, QuietKeepsBook

\* Evaluation, de-dup keys and rule changes, with outages, aborted passes and
\* expired keys, implement the abstract book: each step of the service opens one
\* event, closes one, drops a rule with its own, loses the memory of what was
\* raised, or is none of its business (evaluator.py:72-133, notifier.py:43-84).
THEOREM AlertingImplementsBook == Spec => Book!Spec
<1>1. Init => Book!Init
  BY ConstantsAssumption DEF Init, Live, Book!Init
<1>2. GrantInv /\ StoresInv /\ [Next]_vars => [Book!Next]_(Book!vars)
  <2>1. ASSUME UNCHANGED vars PROVE UNCHANGED Book!vars
    BY <2>1 DEF vars, Book!vars, Live
  <2> QED
    BY <2>1, InsertKeepsBook, UpdateKeepsBook, AroundKeepsBook, EvaluatorKeepsBook
       DEF Next, Evaluator
<1> QED
  BY <1>1, <1>2, StoresInductive, PTL DEF Spec, Book!Spec

\* Events are of rules that exist, an id is one event, and there is one event to a
\* rule unless the memory was lost.
BookSound ==
  /\ \A e \in open : e.rule \in Live
  /\ \A e, f \in open : e.id = f.id => e = f
  /\ Lost \/ \A e, f \in open : e.rule = f.rule => e = f

\* What the book promises by itself: one open event per rule as long as nothing of
\* what was raised is forgotten.
THEOREM BookKeepsOne == Book!Spec => []BookSound
<1>1. Book!Init => BookSound
  BY DEF Book!Init, BookSound
<1>2. BookSound /\ [Book!Next]_(Book!vars) => BookSound'
  <2> SUFFICES ASSUME BookSound, [Book!Next]_(Book!vars) PROVE BookSound'
    OBVIOUS
  <2>1. CASE Book!Raise
    <3>1. PICK e \in open' : Book!Raise!(e)
      BY <2>1 DEF Book!Raise
    <3> QED
      BY <3>1 DEF BookSound, Lost
  <2>2. CASE Book!Resolve
    BY <2>2 DEF Book!Resolve, BookSound, Lost
  <2>3. CASE Book!Lose
    BY <2>3 DEF Book!Lose, BookSound, Lost
  <2>4. ASSUME NEW r \in Rules, Book!Create(r) \/ Book!Drop(r) PROVE BookSound'
    BY <2>4 DEF Book!Create, Book!Drop, BookSound, Lost
  <2>5. CASE UNCHANGED Book!vars
    BY <2>5 DEF Book!vars, BookSound, Lost
  <2> QED
    BY <2>1, <2>2, <2>3, <2>4, <2>5 DEF Book!Next
<1> QED
  BY <1>1, <1>2, PTL DEF Book!Spec

\* "One open row per active condition" (migrations/0002_alert_event.sql:2-3), which
\* Alerting_expiry refutes when a key expires, does hold until a key has expired or a
\* pass was aborted: outages of identity, rule changes and deletions in the middle of
\* a pass do not break it.
THEOREM OneOpenUntilForgotten == Spec => [](faults \subseteq {"outage"} => OneOpenEventPerRule)
<1>1. BookSound => (faults \subseteq {"outage"} => OneOpenEventPerRule)
  <2> SUFFICES ASSUME BookSound, ~Lost, NEW r \in Rules PROVE Cardinality(OpenOf(r)) <= 1
    BY DEF Lost, OneOpenEventPerRule
  <2>1. CASE OpenOf(r) = {}
    BY <2>1, FS_EmptySet
  <2>2. ASSUME NEW e \in OpenOf(r) PROVE Cardinality(OpenOf(r)) = 1
    <3>1. OpenOf(r) = {e}
      BY <2>2 DEF OpenOf, BookSound
    <3> QED
      BY <3>1, FS_Singleton
  <2> QED
    BY <2>1, <2>2
<1> QED
  BY <1>1, AlertingImplementsBook, BookKeepsOne, PTL
=============================================================================
