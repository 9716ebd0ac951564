------------------------------ MODULE Alerting ------------------------------
(***************************************************************************)
(* The alerting service (services/alerting/src): the evaluation loop of    *)
(* evaluator.py, the de-dup state and the events of notifier.py, the rules *)
(* and the events of routes/, and the bytes in the windows of the sites    *)
(* (how they get there and leave is RollingWindow's subject).              *)
(*                                                                         *)
(* One evaluator runs; each of its awaits is a step, because the rules, an *)
(* owner's scope and the traffic change while it waits.  The events live   *)
(* in PostgreSQL and the de-dup keys in Redis: no step changes both.       *)
(***************************************************************************)
EXTENDS Naturals, FiniteSetsExt

CONSTANTS
  Rules,       \* ids of alert rules, given out in order
  Owners,      \* users who own rules
  Sites,
  EventIds,    \* bound: events that are open or referred to at one time
  NoSite,      \* site_scope NULL: all sites the owner can access
  NoEvent,     \* no de-dup key, no event in hand
  NoRule,      \* no rule in hand
  Unused,      \* a rule id not given out yet
  Deleted,     \* a rule id whose rule was deleted
  Thresholds,  \* values of condition.bytes_threshold
  MaxVolume,   \* bound: bytes in one site's window
  Disruptions  \* what may go wrong besides the normal operations

ASSUME ConstantsAssumption ==
  /\ Rules \subseteq Nat
  /\ NoSite \notin Sites /\ NoEvent \notin EventIds /\ NoRule \notin Rules
  /\ Thresholds \subseteq Nat \ {0}
  /\ MaxVolume \in Nat
  /\ IsFiniteSet(Sites) /\ IsFiniteSet(EventIds)
  /\ Disruptions \subseteq {"abort", "expiry", "outage"}
  /\ Unused # Deleted

Scope == {[all |-> TRUE, sites |-> {}]} \cup [all : {FALSE}, sites : SUBSET Sites]
RuleRow == [owner : Owners, site : Sites \cup {NoSite},
            threshold : Thresholds, enabled : BOOLEAN]
Event == [id : EventIds, rule : Rules, sites : SUBSET Sites]

ASSUME NoRowAssumption == Unused \notin RuleRow /\ Deleted \notin RuleRow

VARIABLES
  rules,     \* table alert_rule: its row for each id, Unused or Deleted
  open,      \* the rows of alert_event with resolved_at NULL
  dedup,     \* Redis alerting:dedup:<rule>
  volume,    \* bytes in each site's window, Redis alerting:volume:<site>
  known,     \* Redis alerting:known_sites
  scope,     \* identity's current site scope of each owner
  pc,        \* the await the evaluator is in
  todo,      \* the rules fetched for this pass and not yet evaluated
  job,       \* _evaluate_rule's locals, and granted: the owner's scope as it was read
  faults,    \* history: what has gone wrong so far
  lasting    \* history: rules whose condition is the same and met since their last event

evaluatorVars == <<pc, todo, job>>
ruleVars == <<rules, volume, known, scope>>
vars == <<rules, open, dedup, volume, known, scope, pc, todo, job, faults, lasting>>

NoScope == [all |-> FALSE, sites |-> {}]
NoJob == [id |-> NoRule, threshold |-> 0, sites |-> {}, granted |-> {},
          met |-> FALSE, event |-> NoEvent]

Live == {r \in Rules : rules[r] \notin {Unused, Deleted}}
Enabled == {r \in Live : rules[r].enabled}

Volume(sites) == MapThenSumSet(LAMBDA s : volume[s], sites)

\* The sites an owner with this scope may see.
Reach(sc) == IF sc.all THEN Sites ELSE sc.sites

EvaluatedUnchecked(rule, sc) ==
  IF rule.site = NoSite
  THEN IF sc.all THEN known ELSE sc.sites
  ELSE {rule.site}

\* The sites a rule is evaluated on when its owner has scope sc.
Evaluated(rule, sc) ==
  IF rule.site = NoSite
  THEN IF sc.all THEN known ELSE sc.sites
  ELSE {rule.site} \cap Reach(sc)

WatchedSites(r) == Evaluated(rules[r], scope[rules[r].owner])

\* The condition of rule r, and whether it is met, at this moment.
Condition(r) == <<rules[r], IF r \in Live THEN WatchedSites(r) ELSE {}>>

Met(r) == r \in Enabled /\ Volume(WatchedSites(r)) >= rules[r].threshold

\* Bound: one fault in a behaviour.
Fault(kind) ==
  /\ faults = {} /\ kind \in Disruptions
  /\ faults' = {kind}

Init ==
  /\ rules = [r \in Rules |-> Unused]
  /\ open = {} /\ dedup = [r \in Rules |-> NoEvent]
  /\ volume = [s \in Sites |-> 0] /\ known = {}
  /\ scope \in [Owners -> {NoScope, [all |-> TRUE, sites |-> {}]}]
  /\ pc = "asleep" /\ todo = {} /\ job = NoJob /\ faults = {}
  /\ lasting = {}

-----------------------------------------------------------------------------
(* evaluator.py: run_evaluation_loop and _evaluate_rule *)

\* The evaluator goes on to await `next` with `locals`.
Await(next, locals) == pc' = next /\ job' = locals

\* _evaluate_rule returns: the next rule of the pass, or the end of it.
Return == Await(IF todo' = {} THEN "asleep" ELSE "scope", NoJob)

\* resolve() of rule r is called.
Resolve(r) == Await("getkey", [NoJob EXCEPT !.id = r])

\* The pass begins: SELECT ... FROM alert_rule WHERE enabled.
FetchRules ==
  /\ pc = "asleep"
  /\ todo' = {[id |-> r, rule |-> rules[r]] : r \in Enabled}
  /\ Return
  /\ UNCHANGED <<ruleVars, open, dedup, lasting, faults>>

\* get_owner_scope(): identity's answer, or no scope at all when the call fails.
OwnerScope(owner, sc) ==
  \/ sc = scope[owner] /\ UNCHANGED faults
  \/ sc = NoScope /\ Fault("outage")

\* The next rule, its owner's scope, and the sites it is evaluated on.
ReadScope ==
  /\ pc = "scope"
  /\ \E next \in todo, sc \in Scope :
       LET sites == Evaluated(next.rule, sc)
           orgWide == next.rule.site = NoSite
           locals == [NoJob EXCEPT !.id = next.id, !.threshold = next.rule.threshold,
                                   !.granted = Reach(scope[next.rule.owner])]
       IN /\ OwnerScope(next.rule.owner, sc)
          /\ todo' = todo \ {next}
          /\ \/ orgWide /\ sc.all /\ Await("known", locals)
             \/ ~(orgWide /\ sc.all) /\ sites # {} /\ Await("sum", [locals EXCEPT !.sites = sites])
             \/ orgWide /\ ~sc.all /\ sites = {} /\ Return
             \/ ~orgWide /\ sites = {} /\ Resolve(next.id)
  /\ UNCHANGED <<ruleVars, open, dedup, lasting>>

\* known_site_ids(): an org-wide rule of an owner without restrictions.
ReadKnownSites ==
  /\ pc = "known"
  /\ UNCHANGED todo
  /\ IF known = {} THEN Return ELSE Await("sum", [job EXCEPT !.sites = known])
  /\ UNCHANGED <<ruleVars, open, dedup, lasting, faults>>

SumWindowStrict ==
  /\ pc = "sum"
  /\ Await("isactive", [job EXCEPT !.met = Volume(job.sites) > job.threshold])
  /\ UNCHANGED <<ruleVars, open, dedup, todo, lasting, faults>>

\* sum_window(): the window ends when the call begins, so bytes that arrive
\* while it reads site after site are not counted: one reading.
SumWindow ==
  /\ pc = "sum"
  /\ Await("isactive", [job EXCEPT !.met = Volume(job.sites) >= job.threshold])
  /\ UNCHANGED <<ruleVars, open, dedup, todo, lasting, faults>>

IsActiveToggles ==
  /\ pc = "isactive"
  /\ UNCHANGED todo
  /\ CASE job.met /\ dedup[job.id] = NoEvent -> Await("insert", job)
       [] dedup[job.id] # NoEvent -> Resolve(job.id)
       [] OTHER -> Return
  /\ UNCHANGED <<ruleVars, open, dedup, lasting, faults>>

\* is_active(), and what the reading and the key together call for.
IsActive ==
  /\ pc = "isactive"
  /\ UNCHANGED todo
  /\ CASE job.met /\ dedup[job.id] = NoEvent -> Await("insert", job)
       [] ~job.met /\ dedup[job.id] # NoEvent -> Resolve(job.id)
       [] OTHER -> Return
  /\ UNCHANGED <<ruleVars, open, dedup, lasting, faults>>

-----------------------------------------------------------------------------
(* notifier.py: trigger and resolve *)

\* The ids no open event, key or local refers to: one is as good as another.
FreshIds == EventIds \ ({e.id : e \in open} \cup {dedup[r] : r \in Rules} \cup {job.event})

\* trigger(), INSERT INTO alert_event.  The foreign key refuses an event of a
\* rule that was deleted meanwhile, and the exception ends the pass.
InsertEvent ==
  /\ pc = "insert"
  /\ \/ /\ job.id \in Live
        /\ FreshIds # {}
        /\ LET e == CHOOSE e \in FreshIds : TRUE
           IN /\ open' = open \cup {[id |-> e, rule |-> job.id, sites |-> job.sites]}
              /\ Await("setkey", [NoJob EXCEPT !.id = job.id, !.event = e])
        /\ lasting' = IF Met(job.id) THEN lasting \cup {job.id} ELSE lasting
        /\ UNCHANGED todo
     \/ /\ job.id \notin Live
        /\ todo' = {}
        /\ Return
        /\ UNCHANGED <<open, lasting>>
  /\ UNCHANGED <<ruleVars, dedup, faults>>

\* trigger(), SET alerting:dedup:<rule> with its expiry; _deliver() that follows
\* sends the webhook, logs a failure and does not try again.
SetKey ==
  /\ pc = "setkey"
  /\ dedup' = [dedup EXCEPT ![job.id] = job.event]
  /\ UNCHANGED todo
  /\ Return
  /\ UNCHANGED <<ruleVars, open, lasting, faults>>

GetAndDeleteKey ==
  /\ pc = "getkey"
  /\ UNCHANGED todo
  /\ IF dedup[job.id] = NoEvent THEN Return
     ELSE Await("update", [job EXCEPT !.event = dedup[job.id]])
  /\ dedup' = [dedup EXCEPT ![job.id] = NoEvent]
  /\ UNCHANGED <<ruleVars, open, lasting, faults>>

\* resolve(), GET alerting:dedup:<rule>.
GetKey ==
  /\ pc = "getkey"
  /\ UNCHANGED todo
  /\ IF dedup[job.id] = NoEvent THEN Return
     ELSE Await("update", [job EXCEPT !.event = dedup[job.id]])
  /\ UNCHANGED <<ruleVars, open, dedup, lasting, faults>>

UpdateKeepsEvent ==
  /\ pc = "update"
  /\ Await("delkey", job)
  /\ UNCHANGED <<ruleVars, open, dedup, todo, lasting, faults>>

\* resolve(), UPDATE alert_event SET resolved_at ... WHERE id = event.
UpdateEvent ==
  /\ pc = "update"
  /\ open' = {e \in open : e.id # job.event}
  /\ Await("delkey", job)
  /\ UNCHANGED <<ruleVars, dedup, todo, lasting, faults>>

\* resolve(), DEL alerting:dedup:<rule>.
DeleteKey ==
  /\ pc = "delkey"
  /\ dedup' = [dedup EXCEPT ![job.id] = NoEvent]
  /\ UNCHANGED todo
  /\ Return
  /\ UNCHANGED <<ruleVars, open, lasting, faults>>

AbortKeepsJob ==
  /\ pc # "asleep" /\ Fault("abort")
  /\ todo' = {} /\ pc' = "asleep"
  /\ UNCHANGED <<ruleVars, open, dedup, job, lasting>>

\* An await raises and the loop's except ends the pass, or the process
\* crashes and a new one starts with run_evaluation_loop's sleep.
AbortPass ==
  /\ pc # "asleep" /\ Fault("abort")
  /\ todo' = {}
  /\ Return
  /\ UNCHANGED <<ruleVars, open, dedup, lasting>>

\* The key's expiry, notification_latency_budget_seconds * 10 after SetKey; it
\* does harm only when the event is still open.
ExpireKey(r) ==
  /\ dedup[r] # NoEvent
  /\ IF \E e \in open : e.id = dedup[r] THEN Fault("expiry") ELSE UNCHANGED faults
  /\ dedup' = [dedup EXCEPT ![r] = NoEvent]
  /\ UNCHANGED <<ruleVars, open, evaluatorVars, lasting>>

-----------------------------------------------------------------------------
(* What changes while the evaluator waits *)

\* The rules that stay the same and met through a step of the environment.
StillLasting ==
  lasting' = {r \in lasting : r \in Live' /\ Met(r)' /\ Condition(r)' = Condition(r)}

\* record_bytes(), called for each flow record.
RecordBytes(s) ==
  /\ volume[s] < MaxVolume
  /\ volume' = [volume EXCEPT ![s] = @ + 1]
  /\ known' = known \cup {s}
  /\ UNCHANGED <<rules, scope, open, dedup, evaluatorVars, faults>>
  /\ StillLasting

\* Time passes: bytes leave the window.
WindowSlides(s) ==
  /\ volume[s] > 0
  /\ volume' = [volume EXCEPT ![s] = @ - 1]
  /\ UNCHANGED <<rules, known, scope, open, dedup, evaluatorVars, faults>>
  /\ StillLasting

\* An administrator changes an owner's site scope in identity.
ChangeScope(o, sc) ==
  /\ scope[o] # sc
  /\ scope' = [scope EXCEPT ![o] = sc]
  /\ UNCHANGED <<rules, volume, known, open, dedup, evaluatorVars, faults>>
  /\ StillLasting

\* POST /rules, with the caller's scope checked.
CreateRule(r, row) ==
  /\ rules[r] = Unused /\ \A q \in Rules : q < r => rules[q] # Unused
  /\ row.site # NoSite => row.site \in Reach(scope[row.owner])
  /\ rules' = [rules EXCEPT ![r] = row]
  /\ UNCHANGED <<volume, known, scope, open, dedup, evaluatorVars, lasting, faults>>

\* PATCH /rules/{id}: the condition and the enabled flag.
UpdateRule(r, threshold, enabled) ==
  /\ r \in Live
  /\ <<threshold, enabled>> # <<rules[r].threshold, rules[r].enabled>>
  /\ rules' = [rules EXCEPT ![r].threshold = threshold, ![r].enabled = enabled]
  /\ UNCHANGED <<volume, known, scope, open, dedup, evaluatorVars, faults>>
  /\ StillLasting

\* DELETE /rules/{id}: its events go with it (ON DELETE CASCADE), its key stays.
DeleteRule(r) ==
  /\ r \in Live
  /\ rules' = [rules EXCEPT ![r] = Deleted]
  /\ open' = {e \in open : e.rule # r}
  /\ UNCHANGED <<volume, known, scope, dedup, evaluatorVars, faults>>
  /\ StillLasting

-----------------------------------------------------------------------------
(* routes/events.py *)

\* GET /events: the events of the caller's rules.
ListedEvents(o) == {e \in open : e.rule \in Live /\ rules[e.rule].owner = o}

\* GET /events/{id}/flows: the sites whose flows it asks GET /internal/flows of
\* the query API for, which takes no sites for all sites.
FlowsOf(e) == IF e.sites = {} THEN Sites ELSE e.sites

-----------------------------------------------------------------------------
Evaluator ==
  \/ FetchRules \/ ReadScope \/ ReadKnownSites \/ SumWindow \/ IsActive
  \/ InsertEvent \/ SetKey
  \/ GetKey \/ UpdateEvent \/ DeleteKey

Environment ==
  \/ \E s \in Sites : RecordBytes(s) \/ WindowSlides(s)
  \/ \E o \in Owners, sc \in Scope : ChangeScope(o, sc)
  \/ \E r \in Rules, row \in RuleRow : CreateRule(r, row)
  \/ \E r \in Rules, th \in Thresholds, on \in BOOLEAN : UpdateRule(r, th, on)
  \/ \E r \in Rules : DeleteRule(r) \/ ExpireKey(r)

Next == Evaluator \/ AbortPass \/ Environment

Spec == Init /\ [][Next]_vars

\* The loop sleeps for a fixed interval, every call it awaits has a timeout, and
\* no key outlives its expiry.
FairSpec == Spec /\ WF_vars(Evaluator) /\ \A r \in Rules : WF_vars(ExpireKey(r))

-----------------------------------------------------------------------------
(* Properties *)

\* Every variable has its type, and every open event is listed to the owner of
\* its rule.
TypeOK ==
  /\ rules \in [Rules -> RuleRow \cup {Unused, Deleted}]
  /\ open \subseteq Event /\ open = UNION {ListedEvents(o) : o \in Owners}
  /\ dedup \in [Rules -> EventIds \cup {NoEvent}]
  /\ volume \in [Sites -> 0..MaxVolume]
  /\ known \subseteq Sites
  /\ scope \in [Owners -> Scope]
  /\ pc \in {"asleep", "scope", "known", "sum", "isactive", "insert", "setkey",
             "getkey", "update", "delkey"}
  /\ todo \subseteq [id : Rules, rule : RuleRow]
  /\ job \in [id : Rules \cup {NoRule}, threshold : Thresholds \cup {0},
              sites : SUBSET Sites, granted : SUBSET Sites, met : BOOLEAN, event : EventIds \cup {NoEvent}]
  /\ (pc \in {"asleep", "scope"}) <=> (job = NoJob)
  /\ faults \subseteq Disruptions
  /\ lasting \subseteq Rules

OpenOf(r) == {e \in open : e.rule = r}

\* The flows shown as those that raised an event are of sites its owner could
\* see when this evaluation of the rule began, never of all sites because the
\* event names none (evaluator.py:77-95, events.py:65-97, internal_flows.py:23;
\* alerting-api.md:16-18).
EventFlowsWithinGrant ==
  [][\A e \in open' \ open : FlowsOf(e) \subseteq job.granted]_vars

\* The two stores agree about each rule, except within trigger() between the
\* INSERT and the SET and within resolve() between the UPDATE and the DEL: the
\* key names the one open event, or there is neither, as long as no key has
\* expired and no pass was aborted (notifier.py:43-84).
StoresAgree ==
  faults \subseteq {"outage"} =>
    \A r \in Live :
      {e.id : e \in OpenOf(r)} =
        CASE pc = "setkey" /\ job.id = r -> {job.event}
          [] pc = "delkey" /\ job.id = r -> {}
          [] OTHER -> {dedup[r]} \ {NoEvent}

\* notifier.py:3-4 "While a condition remains continuously true, no new
\* AlertEvent/notification is created"; the rule and the
\* sites it watches, which the condition is about, stay as they are meanwhile,
\* and nothing has gone wrong yet.
OneEventPerEpisode ==
  [][faults = {} => \A e \in open' \ open : e.rule \notin lasting]_vars

\* migrations/0002_alert_event.sql:2-3 "one open row per active condition".
OneOpenEventPerRule == \A r \in Rules : Cardinality(OpenOf(r)) <= 1

\* From some point on neither the rule nor the sites it watches change.
Steady(r) == <>[][Condition(r)' = Condition(r)]_vars

\* A rule that stays as it is and whose condition stays met ends up with an open
\* event, whatever the traffic does otherwise, whatever other rules are created,
\* changed and deleted in the middle of passes, and whatever has gone wrong: a
\* key that was left without its event mutes the rule only until it expires
\* (evaluator.py:124-133, notifier.py:64-84; FR-013).
RaisedWhenMet ==
  \A r \in Rules : Steady(r) /\ <>[]Met(r) => <>[](OpenOf(r) # {})

\* A rule that stays as it is and below its threshold ends up with no open
\* event, and so does a rule for one site that its owner may no longer see,
\* unless a key has expired or a pass was aborted (evaluator.py:82-85, 112-113).
ResolvedWhenUnmet ==
  \A r \in Rules :
    /\ Steady(r)
    /\ <>[]/\ r \in Enabled /\ ~Met(r) /\ (rules[r].site # NoSite \/ WatchedSites(r) # {})
           /\ faults \subseteq {"outage"}
    => <>[](OpenOf(r) = {})
=============================================================================
