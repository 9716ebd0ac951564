----------------------------- MODULE Staleness ------------------------------
(***************************************************************************)
(* Site status across two services: the realtime service notices which     *)
(* sites send flow records and sweeps for those that went silent           *)
(* (services/realtime/src/staleness.py, called by aggregator.py), and      *)
(* reports to identity, which keeps Site.status                            *)
(* (services/identity/src/sites/router.py).                                *)
(*                                                                         *)
(* The consumer and the sweep are two tasks of one event loop.  Each       *)
(* awaits its own HTTP requests, on connections of their own, so identity  *)
(* may carry out a request of one before an earlier request of the other.  *)
(* The code between two awaits of a task is one step.                      *)
(*                                                                         *)
(* Clock readings are abstracted to two sets: the sites last seen more     *)
(* than stale_after_seconds ago, and the sites reported as seen less than  *)
(* _IDENTITY_SEEN_THROTTLE_SECONDS ago.                                    *)
(***************************************************************************)
EXTENDS Naturals, FiniteSets

CONSTANTS
  Sites,
  NoSite,       \* a task that is handling no site
  MaxFaults,    \* bound: requests that time out, restarts and dead consumers
  Disruptions   \* what may go wrong besides the normal operations

ASSUME ConstantsAssumption ==
  /\ NoSite \notin Sites
  /\ MaxFaults \in Nat
  /\ Disruptions \subseteq {"timeout", "restart", "redis"}

VARIABLES
  tracked,    \* the keys of _last_seen
  silent,     \* the sites with no flow handled for stale_after_seconds
  reported,   \* _last_reported_status, "active" where it has no entry
  throttled,  \* the sites with now - last_call < _IDENTITY_SEEN_THROTTLE_SECONDS
  consumer,   \* note_site_seen()'s await, its site, whether a report is due
  sweep,      \* run_staleness_sweep()'s await, its site, what is left of its pass
  late,       \* requests that timed out and identity may still carry out
  status,     \* identity's site.status
  excused,    \* history: sites seen while a sweep still held them for silent, or
              \* whose stale report failed, and not seen since
  faults      \* how many disruptions there have been

vars == <<tracked, silent, reported, throttled, consumer, sweep, late, status, excused, faults>>

Request == [site : Sites, to : {"active", "stale"}]

\* The sites with now - last_seen > stale_after_seconds.
Overdue == tracked \cap silent

ConsumerIdle == [step |-> "idle", site |-> NoSite, due |-> FALSE]
SweepAsleep == [step |-> "asleep", site |-> NoSite, suspects |-> {}]

Init ==
  /\ tracked = {} /\ silent = Sites /\ throttled = {} /\ late = {} /\ excused = {}
  /\ reported = [s \in Sites |-> "active"]
  /\ consumer = ConsumerIdle /\ sweep = SweepAsleep
  /\ status = [s \in Sites |-> "never_connected"]
  /\ faults = 0

-----------------------------------------------------------------------------
(* Requests to identity *)

\* Identity sets the status of a site.
Carry(request) == status' = [status EXCEPT ![request.site] = request.to]

Fault(kind) ==
  /\ kind \in Disruptions
  /\ faults < MaxFaults
  /\ faults' = faults + 1

\* The await of a POST ends: identity has carried the request out, or an
\* HTTPError was caught and the request is lost or still under way.
Posted(request) ==
  \/ Carry(request) /\ UNCHANGED <<late, faults>>
  \/ /\ Fault("timeout")
     /\ late' \in {late, late \cup {request}}
     /\ UNCHANGED status

CarryLate(request) ==
  /\ request \in late
  /\ late' = late \ {request}
  /\ Carry(request)
  /\ UNCHANGED <<tracked, silent, reported, throttled, consumer, sweep, excused, faults>>

-----------------------------------------------------------------------------
(* note_site_seen() *)

\* From here note_site_seen(s) reports the site as seen, when that is due.
ReportSeen(s, due) ==
  IF due
  THEN /\ throttled' = throttled \cup {s}
       /\ consumer' = [step |-> "seen", site |-> s, due |-> FALSE]
  ELSE /\ consumer' = ConsumerIdle
       /\ UNCHANGED throttled

RecoverSilently(s) ==
  /\ reported[s] = "stale"
  /\ consumer' = [step |-> "status", site |-> s, due |-> s \notin throttled]
  /\ UNCHANGED <<reported, throttled>>

\* The site was reported stale: it is active again, and identity is told so
\* before anything else.
Recover(s) ==
  /\ reported[s] = "stale"
  /\ reported' = [reported EXCEPT ![s] = "active"]
  /\ consumer' = [step |-> "status", site |-> s, due |-> s \notin throttled]
  /\ UNCHANGED throttled

FlowArrives(s) ==
  /\ consumer = ConsumerIdle
  /\ tracked' = tracked \cup {s}
  /\ silent' = silent \ {s}
  /\ \/ Recover(s)
     \/ /\ reported[s] # "stale"
        /\ ReportSeen(s, s \notin throttled)
        /\ UNCHANGED reported
  /\ excused' = IF s \in sweep.suspects \/ sweep.site = s THEN excused \cup {s} ELSE excused \ {s}
  /\ UNCHANGED <<sweep, late, status, faults>>

ActivePosted ==
  /\ consumer.step = "status"
  /\ Posted([site |-> consumer.site, to |-> "active"])
  /\ ReportSeen(consumer.site, consumer.due)
  /\ UNCHANGED <<tracked, silent, reported, sweep, excused>>

SeenKeepsStatus ==
  /\ consumer.step = "seen"
  /\ consumer' = ConsumerIdle
  /\ UNCHANGED <<tracked, silent, reported, throttled, sweep, late, status, excused, faults>>

\* POST /seen sets the status to active, too.
SeenPosted ==
  /\ consumer.step = "seen"
  /\ Posted([site |-> consumer.site, to |-> "active"])
  /\ consumer' = ConsumerIdle
  /\ UNCHANGED <<tracked, silent, reported, throttled, sweep, excused>>

\* record_event() raises, nothing catches it, and the consume loop is gone.
ConsumerDies ==
  /\ consumer = ConsumerIdle
  /\ Fault("redis")
  /\ consumer' = [ConsumerIdle EXCEPT !.step = "dead"]
  /\ UNCHANGED <<tracked, silent, reported, throttled, sweep, late, status, excused>>

-----------------------------------------------------------------------------
(* run_staleness_sweep() *)

MarkWithoutPost(s, left) ==
  /\ reported[s] # "stale"
  /\ reported' = [reported EXCEPT ![s] = "stale"]
  /\ sweep' = [step |-> "push", site |-> s, suspects |-> left]

\* The sweep reaches a suspect that is not reported stale, and posts that.
Mark(s, left) ==
  /\ reported[s] # "stale"
  /\ reported' = [reported EXCEPT ![s] = "stale"]
  /\ sweep' = [step |-> "status", site |-> s, suspects |-> left]

\* The sweep goes on without an await to the next site it has to report, past
\* some of those reported already, or to sleep.
Advance(suspects) ==
  LET done == {s \in suspects : reported[s] = "stale"}
  IN \/ \E s \in suspects \ done, skipped \in SUBSET done :
          Mark(s, suspects \ (skipped \cup {s}))
     \/ /\ suspects = done
        /\ sweep' = SweepAsleep
        /\ UNCHANGED reported

\* A pass begins: the time and _last_seen are read once for all of it.
BeginSweep ==
  /\ sweep = SweepAsleep
  /\ Overdue # {}
  /\ Advance(Overdue)
  /\ UNCHANGED <<tracked, silent, throttled, consumer, late, status, excused, faults>>

StalePosted ==
  /\ sweep.step = "status"
  /\ Posted([site |-> sweep.site, to |-> "stale"])
  /\ excused' = IF faults' = faults THEN excused ELSE excused \cup {sweep.site}
  /\ sweep' = [sweep EXCEPT !.step = "push"]
  /\ UNCHANGED <<tracked, silent, reported, throttled, consumer>>

\* broadcast_site_status_changed() has sent to the dashboards.
Pushed ==
  /\ sweep.step = "push"
  /\ Advance(sweep.suspects)
  /\ UNCHANGED <<tracked, silent, throttled, consumer, late, status, excused, faults>>

-----------------------------------------------------------------------------
(* Time and restarts *)

\* A site has sent nothing for stale_after_seconds.  That is far longer than
\* any request about it takes, and than the throttle.
GoesSilent(s) ==
  /\ s \notin silent
  /\ consumer.site # s
  /\ \A request \in late : request.site # s
  /\ silent' = silent \cup {s}
  /\ throttled' = throttled \ {s}
  /\ UNCHANGED <<tracked, reported, consumer, sweep, late, status, excused, faults>>

ThrottleEnds(s) ==
  /\ s \in throttled
  /\ consumer.site # s
  /\ throttled' = throttled \ {s}
  /\ UNCHANGED <<tracked, silent, reported, consumer, sweep, late, status, excused, faults>>

\* The requests a task is waiting for.
Awaited ==
  (IF consumer.step \in {"status", "seen"}
   THEN {[site |-> consumer.site, to |-> "active"]} ELSE {})
  \cup
  (IF sweep.step = "status" THEN {[site |-> sweep.site, to |-> "stale"]} ELSE {})

\* The process ends and a new one starts with empty dictionaries.
Restart ==
  /\ Fault("restart")
  /\ tracked' = {} /\ throttled' = {} /\ excused' = {}
  /\ reported' = [s \in Sites |-> "active"]
  /\ consumer' = ConsumerIdle /\ sweep' = SweepAsleep
  /\ \E sent \in SUBSET Awaited : late' = late \cup sent
  /\ UNCHANGED <<silent, status>>

-----------------------------------------------------------------------------
ConsumerStep == ActivePosted \/ SeenPosted \/ ConsumerDies
SweepStep == BeginSweep \/ StalePosted \/ Pushed

Next ==
  \/ ConsumerStep \/ SweepStep \/ Restart
  \/ \E s \in Sites : FlowArrives(s) \/ GoesSilent(s) \/ ThrottleEnds(s)
  \/ \E request \in Request : CarryLate(request)

Spec == Init /\ [][Next]_vars

\* Requests end, the sweep runs on its interval, and time passes.  Nothing is
\* assumed of the sites.
Fairness ==
  /\ WF_vars(ActivePosted \/ SeenPosted)
  /\ WF_vars(SweepStep)
  /\ \A s \in Sites : SF_vars(ThrottleEnds(s))
  /\ \A request \in Request : WF_vars(CarryLate(request))

FairSpec == Spec /\ Fairness

-----------------------------------------------------------------------------
(* Properties *)

\* Every variable has its type.
TypeOK ==
  /\ tracked \subseteq Sites /\ silent \subseteq Sites
  /\ throttled \subseteq Sites /\ excused \subseteq Sites
  /\ reported \in [Sites -> {"active", "stale"}]
  /\ consumer \in [step : {"idle", "status", "seen", "dead"},
                   site : Sites \cup {NoSite}, due : BOOLEAN]
  /\ sweep \in [step : {"asleep", "status", "push"},
                site : Sites \cup {NoSite}, suspects : SUBSET Sites]
  /\ late \subseteq Request
  /\ status \in [Sites -> {"never_connected", "active", "stale"}]
  /\ faults \in 0..MaxFaults

Pending(s) == consumer.site = s \/ (sweep.site = s /\ sweep.step = "status")

\* Every variable has its type.  A site realtime believes it reported stale is
\* stale in identity, unless that report failed or a flow of the site came in
\* while a sweep held it for silent: restarts and requests that are late or
\* overtaken do not matter
\* (staleness.py:27-73, sites/router.py:165-187).
ReportedStaleIsStale ==
  /\ TypeOK
  /\ \A s \in Sites :
       reported[s] = "stale" /\ s \notin excused /\ ~Pending(s) => status[s] = "stale"

\* A site the process has seen and that stays silent ends up stale in identity,
\* with the same exceptions (staleness.py:62-73; FR-004).
SilentShownUnlessExcused ==
  \A s \in Sites : <>[](s \in Overdue \ excused) => <>[](status[s] = "stale")

\* A site that goes on sending ends up active in identity, whatever the sweep
\* did before and however requests overtake one another or fail
\* (staleness.py:27-38; sites/router.py:165-174).
SendingShown ==
  \A s \in Sites :
    <>[](s \in tracked \ silent) /\ []<><<FlowArrives(s)>>_vars => <>[](status[s] = "active")

\* spec.md:92, FR-004 "MUST visibly indicate when a previously-active site stops
\* sending flow data": a site that identity knows as connected and that stays
\* silent ends up stale in identity.
SilentSiteShown ==
  \A s \in Sites :
    <>[](s \in silent /\ status[s] # "never_connected") => <>[](status[s] = "stale")
=============================================================================
