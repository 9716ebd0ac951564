# FlowMaster: a TLA+ verification

FlowMaster collects NetFlow v5 datagrams from the exporters of an organization's
sites, stores the flow records, shows live and historical statistics and raises
alerts. This directory models the services' own logic in TLA+, checks the
models with TLC on small instances, and proves their central properties with
TLAPS for every value of the constants. Paths below are relative to `src/`.

    tlc -workers 2 -config FlowWriter_batches.cfg MCFlowWriter.tla
    tlapm FlowWriterProofs.tla

`PROJECT.json` lists the components, the runs, the lines each definition stands
for, the hazards of the code, the theorems, and for every checked property a
plausible bug (a *mutant*, an operator next to the definition it would replace)
that breaks it.

## 1. The system

    exporter --UDP--> ingestion --Kafka flow-records.v1--+--> flow-writer --> ClickHouse
                          |                              +--> realtime ----> Redis
                          | site lookups                 +--> alerting ----> Redis, PostgreSQL
                          v                                     |
                      identity (PostgreSQL) <--- status, scopes-+
                          ^
    browser --> gateway --+--> query-api --> ClickHouse
                          +--> realtime /ws (pushes)

All services are Python processes on one asyncio event loop each. Inside a
service the interleavings are therefore those of tasks at their `await`s;
between services they are those of requests, messages, timeouts and crashes.

| component | state | operations | interacts with | what is hard |
|---|---|---|---|---|
| flow-writer: consumer, `DedupeCache` | offsets, `_seen` | receive, validate, dedupe, auto-commit, rebalance, restart | Kafka; calls `BatchWriter.add` | commits independent of storage, replays, silent end of the loop |
| flow-writer: `BatchWriter` | `_buffer`, `_flush_task`, inserts under way | `add`, timer, `flush`, shutdown | ClickHouse | timer against size limit, overlapping flushes, a flush that cancels its own timer, failed inserts |
| flow-writer: retention purge | TTL of `flow_record`, what the loop has read | read policy, `ALTER ... MODIFY TTL` | PostgreSQL, ClickHouse | failures that must not end the loop or shorten the retention |
| ingestion | attribution cache, shared producer, a task per datagram, counters | parse, look up, publish | identity, Kafka | concurrent lookups and starts, cached failures, datagrams that end half-way |
| identity | users, assignments, sites, credentials, policy, audit log | the administrative routes, login, `whoami` | PostgreSQL | concurrent administrators, READ COMMITTED, several statements per request |
| alerting: evaluator, notifier | open events (PostgreSQL), de-dup keys (Redis), a pass's locals | fetch, scope, window, trigger, resolve | identity, Redis, PostgreSQL, webhooks | two stores, expiring keys, state used after awaits, aborted passes |
| alerting: rules, events | `alert_rule`, `alert_event` | create, update, delete, list, flows of an event | PostgreSQL, query-api | changes in the middle of a pass |
| alerting: volume window | bytes per site, known sites | record, sum | Redis | sliding time, trimming, expiry, a sum over several reads |
| realtime: staleness | `_last_seen`, `_last_reported_status` | note, sweep, report | identity, push channel | two tasks and two requests that overtake one another |
| realtime: aggregator | windows in Redis, `realtime:sites` | record, summarize | Kafka, Redis | an error ends the loop |
| realtime: push channel | connections and their sites | subscribe, push, broadcast | gateway, Redis | connections that close at any point |
| frontend: realtime hook | socket, reconnect timer, label | connect, reselect, reconnect | gateway | selection changes against reconnects |
| gateway | counters in Redis | token check, rate limit, proxy, WebSocket pumps | identity, all services | two commands on an expiring counter, the two pumps, failing upstreams |
| query-api | saved reports | flow query, reports, export, aggregates, statuses | identity, ClickHouse, PostgreSQL | several lookups per request while everything changes |
| shared | none | event schema, `require_site_scope`, `filter_sites`, envelope | | |
| frontend pages | what is shown | refresh, forms | gateway | overlapping refreshes |

What makes each correct: the flow writer keeps every event it has accepted in
exactly one place until it is stored or given up by a failed insert, and waits
for no event for ever; ingestion publishes a datagram whole and at one site or
counts it, and its cache heals; identity never widens or strips a user's reach
by accident and leaves no dangling row; the evaluator raises one event per
episode, on sites its owner may see, and resolves it; site statuses converge to
what the sites do; a rolling window loses nothing younger than its limit; rows
are deleted and given out only as policy and scope allow; the limiter admits its
limit and charges no minute for another; a dashboard has one socket and gets its
data back.

## 2. The modules

One action is the code between two suspensions. Each module names its history
variables ("history") and bounds ("bound") where it declares them; the code
reads neither.

**FlowWriter** (`services/flow-writer/src/{consumer,batch_writer,main}.py`). The
partition is the sequence `log`; `position` and `committed` are the consumer's
offsets. `Receive`'s alternatives are `_handle_message` with `add()` and the
flush it may call, up to the insert: the critical sections under `_lock`
contain no await, so the lock never blocks and is not in the model. `Flush` is
an operator on (buffer, timer, status) that `Add`, `WakeTimer` and `FinalFlush`
share; `Cancelled` is the test that keeps a timer's flush from cancelling
itself. An insert is a status of its task that ends by `InsertSucceeds` or
`InsertFails`; what raises in the consume loop ends that loop (`AfterError`).
Dedupe entries may leave at any call (`Evictable`), which covers the 300 s
expiry. `Crash`, `StopConsumer`/`FinalFlush`/`Exit` and `Restart` are the
process's life; with no committed offset `StartOffset` chooses the end of the
topic, aiokafka's default. **DeliveryLedger** is the abstract specification:
events are accepted one by one, held, and settled once. `ImplementsLedger` is
the refinement, with `accepted`, `held` and `stored` mapped to the number of
events, the contents of buffer and batches, and the table.

**Alerting** (`services/alerting/src`). The evaluator's `pc` is the await it is
in; `job` holds `_evaluate_rule`'s locals, `todo` the rules fetched. PostgreSQL
(`open`) and Redis (`dedup`) change in different steps. Rules, scopes and
volumes change between any two awaits. `AbortPass` is the exception that ends a
pass or the crash of the process, `ExpireKey` the 600 s expiry, an outage the
`NoScope` of a failed lookup. `ListedEvents` and `FlowsOf` are the events
routes. The id of an event is used again once the event is resolved and nothing
refers to it. **AlertBook** is the abstract specification of the events: rules
that come and go, events that are opened and closed one by one, and a memory of
what was raised whose loss is what permits a second event beside an open one.
AlertingProofs proves that Alerting implements it.

**Clock**, **RollingWindow**, **RateLimit**, **Retention** and
**ExpiringStores**: the stores in which data expires by the clock.

* RollingWindow (`services/alerting/src/volume_window.py`,
  `services/realtime/src/aggregator.py`): a record is stamped when it is taken
  from Kafka and enters its site's sorted set when Redis carries the transaction
  out, possibly much later; each write trims by that stamp and renews the key's
  expiry. A reader takes its time once and reads site after site. The two
  services do the same with other numbers, which are constants per service.
  Alerting's `SumWindow` reads the volumes in one step: `SumAsOfCall` is why it
  may.
* RateLimit (`gateway/src/middleware/rate_limit.py`): INCR and EXPIRE are two
  steps on the counter of a minute whose number was computed before both.
* Retention (`services/flow-writer/src/retention_purge.py`, the policy's update
  in identity): the hourly loop with its read and its ALTER, ClickHouse's
  merges, rows with ages in days.
* ExpiringStores puts the three side by side. They share the clock and no key
  or table, so that the behaviours of the composition are those of its
  components; a behaviour lets one of them move.

**Query** (`gateway/src/main.py`, `gateway/src/middleware/auth.py`,
`packages/shared/src/shared/{authz,envelope}.py`, `services/query-api/src`)
extends Retention by one request and its lookups, for every route of the query
API: the token at the gateway and again at the service, the scope, a report's
filter, the rows, then the policy that explains an empty answer; the two reads
and the statuses of a summary; rankings and buckets; saving and exporting a
report. A page of flow records is cut from the matching rows by descending time,
rows of one age in any order (`Newest`, `Offset`, `QueryFlows`); of a row's bytes
the model keeps whether they are zero (`Weightless`), because a summary calls
itself empty by their sum. Requests share no state, so one at a time is enough; a saved report may
be opened by anybody, so its filter is arbitrary. What a request asks for
matters only when its handler starts and is chosen there, and a request's
history is kept only as long as a property needs it; both keep the states few
and lose none that tells properties apart. Days pass while a request's
window still starts before `Cap`, the age from which rows are no longer told
apart.

**Staleness** (`services/realtime/src/staleness.py`, called by
`aggregator.py`; `services/identity/src/sites/router.py`). The consumer and the
sweep each await their own request. A request ends carried out, lost, or `late`:
timed out here but carried out by identity at any time afterwards. The clock is
reduced to two sets, the overdue and the throttled sites.

**Identity** (`services/identity/src`, its migrations). One record per request
under way; each SQL statement is a step that commits, except in
`update_user_roles`, whose DELETE takes a snapshot, waits for row locks, and
commits with the INSERTs (READ COMMITTED). Foreign keys and cascades are in the
deleting actions. A tag on each assignment says which update wrote it. Roles'
names, tokens and hashes are data.

**Ingestion** (`services/ingestion/src`). A record per datagram being
processed: new, looking up, answered, starting the producer, sending. The cache
keeps the answer and the age of the time that was read before the request was
sent. `Malformed` computes with the real header and record lengths, `Flows` and
`BuildEvent` make the events with the real table of applications by port; the
other fields of a record are one value. `counted` is the counter or the event of
the last step.

**PushChannel** (`frontend/src/services/realtime.ts`, `realtime_proxy` of
`gateway/src/main.py`, `services/realtime/src/websocket.py`). A connection has
three ends, browser, gateway and realtime, each with its own idea of whether it
is open. A push and its arrival are one step. A valid token is stored throughout:
without one `connect()` returns with neither a socket nor a timer
(`realtime.ts:53`), and the hook stays so until the selection changes. A
subscription is for the sites known when it is made; one that becomes known later
is not added to it.

The `MC` modules give the constants model values and sets; the `Proofs` modules
hold the theorems (section 4).

## 3. The runs

| run | asks | bounds |
|---|---|---|
| FlowWriter_batches | timer discipline, batch bounds, one holder, duplicates, refinement, liveness, under crashes, shutdowns, rebalances, failed inserts and evictions | 2 keys and both bad messages, `MaxSize` 2, 2 timers, `MaxLog` 2, `MaxReplays` 1 |
| Alerting_rules | agreement of the two stores, one event per episode, events within the owner's grant, raised when met, resolved when unmet, with one aborted pass, expired key or outage | 2 rules, 1 owner, 1 site, 3 events, volumes 0 and 1 |
| Staleness_status | statuses converge, with timeouts, restarts and a dead consumer | 2 sites, `MaxFaults` 2 |
| Identity_admin | references, replacement, reach, no moment without assignments, with failing statements | 2 users, 1 site, 1 credential, 2 requests at a time, 6 in all |
| Ingestion_packets | what becomes of each datagram, the cache's age, every task ends unless it sends on a producer whose start failed, the cache heals | 1 exporter, 1 site, 2 tasks, 4 datagrams, `TTL` 2, `Cap` 3, `MaxFaults` 2 |
| Query_flows | answers within access, honest reasons for empty answers, for every route | 2 flows, one of zero bytes, at 2 sites, `PAGE_SIZE` 1, pages 1 and 2, policies of 1 and 2 days, a window from 3 to 2 days ago, `MaxChanges` 1, `MaxFaults` 1 |
| ExpiringStores_time | windows keep and sums are exact, the limit holds, purges under a policy, the policy takes effect | 3 records at 2 sites, 3 requests, `LIMIT` 2, `MINUTE` 2, `Horizon` 4, `MaxChanges` 3, `MaxFaults` 2 |
| PushChannel_dashboard | one socket and an honest label, stats that arrive are of the selection, broadcasts, recovery | 2 sites, `MaxChanges` 1, `MaxFaults` 1, so 3 connections |
| FlowWriter_insert_loses | *violated*: accepted and committed events are delivered | `MaxLog` 3, failed inserts only |
| Alerting_expiry | *violated*: one open event per rule | 1 rule, 1 site, expiry only |
| Staleness_race | *violated*: a silent site is shown stale | 2 sites, no fault at all |
| Identity_union | *violated*: an update replaces the assignments | 2 overlapping updates |

Why these bounds are enough to meet the cases: two timers are a sleeping one and
one inside its insert, the most the flush discipline has to tell apart (the
proofs have any number); a batch of two has both the size flush and the timer
flush; one replay re-delivers everything. Two rules let one pass be disturbed by
the other rule; the scope of the owner and the known sites both go from nothing
to a site and back, which is what makes an org-wide rule differ from the rule of
a site (the proof of the grant has any number of sites). Three events are two
open ones of one rule and one of the other. Alerting allows one fault in a
behaviour, of any of its kinds (`Fault`): how two of them combine is not checked;
the safety theorems hold for what the model allows, one fault, and any rules,
owners and sites. The staleness race needs a second
site for the sweep to wait on. Two requests at a time are what a READ COMMITTED
anomaly needs. With two tasks lookups and starts overlap, and `TTL` 2 below
`Cap` 3 leaves ages before, at and after the lifetime; the datagrams are one
with more records than it announces, one with fewer, another version and a
truncated one. A cap of 3 days lies beyond both policies, and the window leaves
the retention while the request is under way. Two flows and pages of one row give
a page in the middle, a last one and one past the end, and a summary of a row of
zero bytes alone and beside another. One change and one fault per request are
enough to come between any two of its reads: a fault ends its request or replaces
one lookup's result, requests share nothing, and the second of two changes of the
caller's sites, token or policy meets a request as a first one would (the
theorems have any number of both). In ExpiringStores three ticks
cross a trim age of 2 and a minute of 2 with transactions still waiting, the
rules' windows lie on both sides of the trim age, two records share a site and
one does not, and three requests are one more than the limit. One selection
change and one fault give the hook a change while connecting, while open and
while a reconnect is pending. Deadlock is not checked where a bound or a crash
really stops the model; in Alerting_rules it is.

### Disagreements with the documents

* **FlowWriter_insert_loses.** `flush()` takes the batch out before the insert
  and never puts it back; its offsets are committed all the same. The contract
  `event-flow-record.md:33` says "At-least-once delivery".
* **Alerting_expiry.** The key is set once for 600 s (`notifier.py:66`): a
  condition that stays met gets a second open event, against
  `0002_alert_event.sql:3`.
* **Staleness_race.** A flow during a sweep lets the sweep's stale report and
  the flow's seen report cross; when the site then goes silent the sweep skips
  it as already reported, and it stays active for ever (`spec.md:92`).
* **Identity_union.** Two overlapping role updates leave the union of both,
  against `users/router.py:134` "Replaces".

Others that were met while modelling have no run of their own, because they are
about data the models leave out or can be read off the code:

* alerting: `notifier.py:4-6` says that latency is measured from the flow's
  `observed_at`; `evaluator.py:110` passes the evaluator's own `now()`. An
  identity outage reads as an empty scope and resolves a met rule
  (`scope_client.py:22`). `PATCH /rules` may set a condition type that
  `POST /rules` refuses (`rules.py:85`, `127`).
* query-api: a page of `GET /flows` beyond the data says `no_traffic`, and so does
  a summary of stored rows whose bytes are zero (`summary.py:69`); an export
  holds only the first page, as the view of a report does; `site_status`, which
  `query-api.md:32-34` asks of every response, is only in the summary; rows
  deleted under a shorter policy are reported as `no_traffic` after it was
  lengthened.
* ingestion: datagrams dropped on a cached negative answer are not counted
  (`attribution.py:24`); `DatagramsAccounted` says so.
* flow-writer: a group that crashes before its first commit skips what was
  published before (`consumer.py:49`). The pool and the ClickHouse client are
  "created once per process" (`db.py:1`) by a test before an await, so that two
  first callers make two (`batch_writer.py:38`).
* identity: nothing inserts the one row of `retention_policy`, so that the PATCH
  answers 404; an invitation with an unknown role answers 422 and leaves an
  account without role or audit entry (`users/router.py:104-106`).
* realtime: the channel does no scope check, as `websocket.py:4-8` says itself, so
  that every caller may subscribe to every known site; `realtime-channel.md:13-15`
  says that the server "MUST silently drop any requested site outside that scope".
  `Subscribe` has what the code does, and no property is about the scope.
* frontend: after the selection changes the stats of the former one stay on the
  page until the first push of the new socket; `StatsMatchSelection` is about what
  arrives on the present socket.
* gateway and frontend: a proxied mutation may have been carried out when the
  gateway gives up after ten seconds (`gateway/src/main.py:48`); a late answer of
  the dashboard's refresh overwrites a newer selection's (`Dashboard.tsx:142`);
  "Failed to load sites. Retrying" is not retried (`Dashboard.tsx:125`); the
  administration page replaces all assignments of a user with one
  organization-wide role (`Admin.tsx:121`).

### Fairness

Weak fairness is given to what the event loop and its timeouts guarantee: a
timer that sleeps wakes, a handler that can run runs, an awaited call returns or
fails, a loop's sleep ends (`Evaluator`, `LoopStep`, `SweepStep`), a Redis key
with an expiry expires (`ExpireKey`). Which of its outcomes a call has is never
assumed, and faults are never fair but bounded (`MaxFaults`, `MaxReplays`), so
that a liveness property says "once things stop failing". Nothing is assumed of
users, exporters or administrators. The one strong fairness is `ThrottleEnds` in
Staleness: a flow re-arms the throttle, and time passes all the same. In
FlowWriter the automatic commit, the publisher and every disruption are unfair.

Properties that excuse something say so: `RecordsReachTable` excuses a disturbed
service, `SilentShownUnlessExcused` the race above, `ReplacedUnlessMixed`
overlapping updates, `TasksEnd` a task that sends on a producer whose start failed,
`PolicyTakesEffect` a loop that could not make its pool
(`retention_purge.py:41`, outside the `try`), `OneEventPerEpisode` any fault,
`ResolvedWhenUnmet` a key that expired or a pass that was aborted (both leave an
event that no key names), `StoresAgree` the same. `RaisedWhenMet` excuses none
of them: a key left without its event mutes the rule only until it expires.

## 4. The proofs

Eight modules hold proofs, from the constants' assumptions named in the modules
alone: for any numbers of keys, timers, sites, users, requests, records, and any
bounds and disruptions.

| module | theorem | states |
|---|---|---|
| FlowWriterProofs | `TypeCorrect`, `TimerAlwaysGuards`, `BatchesAlwaysBounded`, `AlwaysOneHolder`, `DuplicatesNeedForgetting` | `Spec => []` of the five invariants of the run |
| | `WriterImplementsLedger` | `Spec => Ledger!Spec` |
| | `LedgerSettlesOnce`, `WriterSettlesOnce` | the ledger, and so the writer, never takes up again what has left it, and loses no row |
| | `FlushesLoseNothing` | no swap of the buffer gives up an event |
| | `OnlyFailuresLose` | `AcceptedIsDelivered` without failed inserts, shutdowns and crashes |
| AlertingProofs | `AlertingTyped`, `BothStoresAgree` | `TypeOK`, `StoresAgree` |
| | `EventsShowGrantedFlows` | an event's flows are of sites granted when its evaluation began |
| | `EpisodesRaiseOnce` | `OneEventPerEpisode` |
| | `AlertingImplementsBook`, `BookKeepsOne` | `Spec => Book!Spec`, and what the book promises |
| | `OneOpenUntilForgotten` | `OneOpenEventPerRule` until a key has expired or a pass was aborted |
| StalenessProofs | `StaleReportsStand` | `ReportedStaleIsStale` |
| IdentityProofs | `NothingOutlives`, `UpdatesReplace`, `NothingElseWidens`, `UpdatesNeverStrip` | the invariant and the three action properties of the run |
| IngestionProofs | `IngestionTyped` | `TypeOK` |
| | `EveryDatagramAccounted`, `AnswersAreRecent` | `DatagramsAccounted`, `AttributedRecently` |
| QueryProofs | `QueryTyped`, `AnswersStayWithinAccess`, `OutsideAnswersAreOld`, `NoTrafficMeansNone` | `TypeOK` and the three action properties of the run |
| ExpiringStoresProofs | `RecordsAreKept`, `SumsAreOfTheirCall`, `LimitIsExact` | `RecordedIsKept`, `SumAsOfCall`, `LimitHolds` of each component by itself |
| | `StoresKeepPromises` | the same three of the composition that the run checks |
| | `PurgesObeyPolicies` | `PurgedUnderAPolicy` |
| PushChannelProofs | `HookKeepsOneSocket`, `StatsAreOfSelection`, `StatusReachesAll` | the three invariants of the run |

Every invariant and every action property that a passing run checks is stated by
one of these theorems. Three of the four violated properties have their
counterpart: what the code does keep, with the condition it needs, is
`OnlyFailuresLose` for the delivery of accepted events, `OneOpenUntilForgotten`
for one open event per rule, and `UpdatesReplace` (updates that overlap no other)
for role updates. The fourth, `SilentSiteShown`, is a liveness property.

None of the invariants is inductive alone. What each proof adds:

* *FlowWriter*, `IInv == ConsumerTypeOK /\ WriterInv /\ DedupeInv`. That
  overlapping flushes never share an event needs that a batch is non-empty only
  while its task inserts, that the sleeping timer is the one to be cancelled,
  and that event ids are those already handed out; `DedupeInv` says that a key
  with an event is remembered or forgotten, and that two events of one key need
  the latter. The writer's part is proved first for `Flush` as an operator on
  values, so that the size flush, the timer's and the shutdown's cite one lemma
  each. The refinement maps `Add` to Accept, the end of an insert and of the
  process to Settle, and all else to a stutter. That settling is final is then
  proved of the ledger, whose states are few, and holds of the writer because it
  implements the ledger. `OnlyFailuresLose` adds to `IInv` that nothing accepted
  is missing (`KeptInv`); its hypothesis is about the constant `Disruptions`.
* *Alerting*, `GrantInv` and `StoresInv`. `WithinGrant` keeps the sites in hand
  among those granted from the reading of the scope to the INSERT. The stores
  agree because an id stands for one event and is used for its rule only
  (`IdsOfOne`), and because within trigger() and resolve() the key is what the
  evaluator has in hand (`KeyInHand`). The book of alerts maps to the rules of
  the table, its open events, and whether a fault other than an outage has
  happened; that an INSERT finds no open event of its rule is `AgreeOn`. One event
  per episode needs `EpisodeInv`: each rule is evaluated once in a pass
  (`OncePerPass`), and of a lasting condition the key is set or about to be, the
  pass has the rule as it is, and every value the evaluator holds of it leads it
  to find the condition met (`FindsMet`: the sites to sum include those it
  watches, so that their bytes reach the threshold). That more sites have no
  fewer bytes is a fact about the sum over a set; it is proved for any finite set
  by taking a set of least size for which it fails (`MinimalSites`, from the
  well-foundedness of proper subsets).
* *Staleness*. A stale report that stands needs that no request under way can
  undo it (`NothingUndoes`), which holds because a request that makes a site
  active is about a site that sends (`ActiveRequestsSend`), and because every
  site of the pass was silent since it began, or excused (`HeldAreSilent`).
* *ExpiringStores*. RollingWindow: a member outlives its set's expiry or was due
  to be trimmed (`Kept`), the stamp of a waiting transaction being of the past
  (`PendingStamped`); `ReaderExact` relates what a reader has counted and must
  count to the window of its call. RateLimit, `LimiterInv`: no key expires before
  its minute is over (`KeysLast`), so no number is given out twice within it
  (`Ahead`, `Distinct`), and a counter is filled by requests of its own minute
  (`Filled`, `Behind`); the bound on admitted requests is then an injection into
  `1..LIMIT`. Both are proved about `WindowSpec` and `LimiterSpec`. The
  composition implements each (`ComposedWindow`, `ComposedLimiter`), which needs
  that a component whose turn it is not has nothing the clock could expire
  (`WindowAside`, `LimiterAside`). Retention, `PolicyKnown`: the TTL and the days
  in the loop's hands were in force when the policy was read or later.
* *Ingestion*, `IInv == TypeOK /\ TasksSound /\ AnswersDated`. The events sent and
  the flows left are together those of the datagram in order (`Progress`), and an
  answer in the cache or on its way to a task was identity's at its age or later.
  That one task at most is starting the producer is part of `TypeOK`.
* *PushChannel*, `ChannelInv`. `Budget` pays each socket but the first with a
  change or a fault, so that the connections never run out; `Hook`, `Shown`,
  `Registered` and `Told` relate the three ends of the present and the former
  connections.
* *Query*, `RequestInv`. `Sound` relates the locals of a request to its history:
  until the handler starts the caller's present scope is in it, and afterwards
  what is allowed lies within one of its scopes. `NoneHidden` adds, for
  "no_traffic", that what a request has not found up to its await was not there, but
for the rows of the pages before and rows of zero bytes: an empty page means that
the pages before it hold all matching rows (`EmptyPageExcused`), and what is hidden
can only become less while the request explains itself (`FewerExcused`).
* *Identity*, `IInv == TypeOK /\ RequestsInv /\ TablesInv`. An update that is
  alone is the only one of its user (`AloneIsAlone`), so the rows there are have
  all been seen by its DELETE (`Covered`); rows inserted and not yet committed
  keep what they refer to (`FreshLive`). An update's commit takes the last
  assignment only when its own list is empty, because all that it removes and all
  that it inserts is of its user.

Only model-checked are the liveness properties, since fairness and ENABLED are
out of the prover's reach: `EventsSettle`, `RecordsReachTable`, `RaisedWhenMet`,
`ResolvedWhenUnmet`, `SendingShown`, `SilentShownUnlessExcused`, `TasksEnd`,
`OnboardingTakesEffect`, `PolicyTakesEffect` and `StatsResume`. The violated
properties are refuted as they stand.

## 5. Not modelled

The fields of flow records beyond their ports, time and site; the numbers in
aggregates, summaries and stats (but for a sum of zero); passwords
and token strings; the outcome of webhooks; log messages; the routing table and
settings. These are data, formatting or plain reads. The pages of the frontend
are rendering, forms and polling: what they keep between two renders is the last
answer of each request, and they have nothing that orders answers (section 3
lists what this leads to). The containers' configuration, and the spec-kit
scripts under `.specify`, which prepare templates for documents, are no part of
the running program.

## 6. Plan

Done: FlowWriter with DeliveryLedger, Alerting, Staleness, Identity, Ingestion,
Retention with Query, PushChannel, RollingWindow and RateLimit with their
composition ExpiringStores, and the proofs of section 4.

What is left, in order:

1. *Dashboard*: overlapping refreshes of one selection and the next, the
   15 s interval, `Promise.all`, and the `siteStatus` of PushChannel with the
   contents of a broadcast (a recovered site is never pushed).
2. A store shared by Identity and Query, so that a role update's transaction is
   what changes a request's scope; today `ChangeScope` stands for it.
3. *Paging* as a relation between requests: which rows two pages share or miss when
   rows come and go between them (a single page is in Query).
4. Abstract specifications for site status (a register per site that follows the
   reports) and for role updates (replacements one after the other), refined by
   Staleness and Identity as far as their races allow.
5. The safety part of the liveness properties: for each, the invariant that says
   that whatever is awaited is always on its way (as `TimerGuardsBuffer` does for
   `EventsSettle`).
