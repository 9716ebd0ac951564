------------------------------- MODULE Query --------------------------------
(***************************************************************************)
(* A request to the query API, from the gateway to its answer: drilling    *)
(* down into flow records, opening, exporting and saving a report, the     *)
(* aggregates of the dashboard and the statuses of the sites               *)
(* (gateway/src/middleware/auth.py, gateway/src/main.py, shared/authz.py,  *)
(* query-api/src/flow_query.py, query-api/src/routes).  While it is under  *)
(* way the caller's sites, the retention policy and the rows change.       *)
(*                                                                         *)
(* Requests share no state, so the module follows one at a time.  A saved  *)
(* report is never changed or deleted and may be opened by anybody, so the *)
(* filter of a report is any that somebody may have saved before.          *)
(***************************************************************************)
EXTENDS Retention

CONSTANTS
  Sites,
  SiteOf,    \* the site of each flow record
  AnySite,   \* the request names no site, or all of them
  Windows,   \* the start and end of a filter's window, as ages
  PAGE_SIZE, \* how many rows the query of flow records returns
  MaxPage,   \* bound: the last page of flow records that is asked for
  Weightless, \* the flow records of zero bytes, which their schema allows
  Nothing

ASSUME QueryAssumption ==
  /\ SiteOf \in [Flows -> Sites]
  /\ AnySite \notin Sites
  /\ Windows \subseteq {w \in (0..Cap) \X (0..Cap) : w[1] >= w[2]}
  /\ PAGE_SIZE \in Nat \ {0} /\ MaxPage \in Nat \ {0}
  /\ IsFiniteSet(Flows) /\ Weightless \subseteq Flows

\* GET /flows, GET /reports/{id}, GET /reports/{id}/export, POST /reports, GET
\* /summary, the three routes that rank or bucket rows, and GET /sites/status.
Kinds == {"flows", "report", "export", "save", "summary", "ranking", "statuses"}

\* The longest range of an aggregate, in days.
MAX_RANGE == 1

VARIABLES
  usable,   \* the caller's token is valid and its user active, in identity
  scope,    \* the sites of the caller's role assignments
  request,  \* how far the request has come, and its locals
  answer    \* the answer given in the last step

queryVars == <<usable, scope, request, answer>>
vars == <<storeVars, queryVars>>

-----------------------------------------------------------------------------
Init ==
  /\ StoreInit
  /\ usable = TRUE
  /\ scope \in SUBSET Sites
  /\ request = Nothing
  /\ answer = Nothing

At(step) == request # Nothing /\ request.step = step

\* The request is over: an error, or an envelope that tells of some sites.
Refuse == request' = Nothing /\ answer' = Nothing
Respond(rows, sites, reason) ==
  /\ request' = Nothing
  /\ answer' = [rows |-> rows, sites |-> sites, reason |-> reason]

Proceed(r) == request' = r /\ answer' = Nothing
Continue(step) == Proceed([request EXCEPT !.step = step])

Undisturbed == UNCHANGED <<storeVars, usable, scope>>
Disturbed == UNCHANGED <<policy, ttl, loop, flow, age, changes, usable, scope>>

\* The history of a request: whether its token was usable and which scopes its
\* caller had until they were read, and the policies until the answer.
Note(use, sites, days) ==
  IF request = Nothing THEN Nothing
  ELSE IF request.kind = Nothing
  THEN [request EXCEPT !.usable = @ \/ use, !.scopes = @ \cup {sites}, !.days = @ \cup {days}]
  ELSE [request EXCEPT !.days = IF @ = {} THEN {} ELSE @ \cup {days}]

\* A request arrives at the gateway.  What it asks for matters, and is chosen,
\* only when its handler starts.
Ask ==
  /\ request = Nothing
  /\ Proceed([kind |-> Nothing, step |-> "gateway", site |-> AnySite, start |-> 0, end |-> 0,
              page |-> 1, allowed |-> {}, rows |-> {}, usable |-> usable, scopes |-> {scope},
              days |-> {Days(policy)}, before |-> {f \in Flows : flow[f] = "stored"}])
  /\ Undisturbed

\* AuthMiddleware looks the token up, before the proxy passes the request on.
Authenticate ==
  /\ At("gateway")
  /\ IF usable THEN Continue("service") ELSE Refuse
  /\ Undisturbed

\* The query API looks it up again: require_site_scope() by GET /auth/whoami.
LookUpToken ==
  /\ At("service")
  /\ IF usable THEN Continue("scope") ELSE Refuse
  /\ Undisturbed

\* Identity does not answer: 503.
LookUpFails ==
  /\ At("gateway") \/ At("service") \/ At("scope")
  /\ Fault("identity")
  /\ Refuse
  /\ Disturbed

\* The proxy gives up on the query API after ten seconds: 500.
ProxyFails ==
  /\ request # Nothing /\ request.step # "gateway"
  /\ Fault("proxy")
  /\ Refuse
  /\ Disturbed

\* The handler compares the site of a filter with the caller's sites.
Admit(r, next) ==
  IF r.site \in r.allowed \cup {AnySite} THEN Proceed([r EXCEPT !.step = next])
  ELSE IF r.kind \in {"export", "save"} THEN Refuse
  ELSE Respond({}, {}, "no_traffic")

Filter(r, site, window) == [r EXCEPT !.site = site, !.start = window[1], !.end = window[2]]

\* The request when its handler starts; only some of them need the history.
Start(kind) ==
  [request EXCEPT !.kind = kind, !.allowed = scope,
                  !.days = IF kind \in {"flows", "report"} THEN @ ELSE {},
                  !.before = IF kind \in {"save", "export", "statuses"} THEN {} ELSE @]

FilterSitesAsked(requested) == requested

\* filter_sites(): the requested sites the caller may see.
FilterSites(requested) == requested \cap scope

\* whoami goes on with _load_site_scope(), and the handler starts.
LoadScope ==
  /\ At("scope")
  /\ \/ \E site \in Sites \cup {AnySite}, window \in Windows, page \in 1..MaxPage :
          Admit([Filter(Start("flows"), site, window) EXCEPT !.page = page], "rows")
     \/ \E site \in Sites \cup {AnySite} : Admit([Start("save") EXCEPT !.site = site], "insert")
     \/ \E kind \in {"report", "export"} : Proceed([Start(kind) EXCEPT !.step = "filter"])
     \/ \E kind \in {"summary", "ranking"}, sites \in (SUBSET Sites) \ {{}} :
          Proceed([Start(kind) EXCEPT !.step = kind, !.allowed = FilterSites(sites)])
     \/ Proceed([Start("statuses") EXCEPT !.step = "statuses"])
  /\ Undisturbed

-----------------------------------------------------------------------------
(* Reports *)

\* create_report() inserts its row.
SaveReport ==
  /\ At("insert")
  /\ Respond({}, {request.site} \ {AnySite}, "saved")
  /\ Undisturbed

\* From here on get_report() does what get_flows() does.
Opened(site, window) ==
  [Filter(request, site, window) EXCEPT !.kind = IF @ = "export" THEN @ ELSE "flows"]

LoadFilterUnchecked(site, window) ==
  /\ At("filter")
  /\ Proceed([Opened(site, window) EXCEPT !.step = "rows"])
  /\ Undisturbed

\* _load_filter(), for a report of any caller, whose site is checked then.
LoadFilter(site, window) ==
  /\ At("filter")
  /\ Admit(Opened(site, window), "rows")
  /\ Undisturbed

\* There is no such report: 404.
FilterMissing == At("filter") /\ Refuse /\ Undisturbed

-----------------------------------------------------------------------------
(* Flow records *)

\* The rows of the request's window.
InWindow == {f \in Flows : flow[f] = "stored" /\ request.end <= age[f] /\ age[f] <= request.start}

\* The conditions of query_flows(): the named site's rows, or those of all
\* allowed sites.
Matching ==
  LET sites == IF request.site = AnySite THEN request.allowed ELSE {request.site}
  IN {f \in InWindow : SiteOf[f] \in sites}

OffsetFromOne(page) == page * PAGE_SIZE

\* How many rows the pages before this one hold.
Offset(page) == (page - 1) * PAGE_SIZE

\* The first n rows in descending order of time, or all when there are fewer: any
\* of those whose ages the order allows, since an age does not tell the time.
Newest(n, rows) ==
  {top \in SUBSET rows :
     /\ Cardinality(top) <= n
     /\ top # rows => Cardinality(top) = n
     /\ \A f \in top, g \in rows \ top : age[f] <= age[g]}

\* What query_flows() may return: a page of the matching rows, which is empty when
\* the pages before it hold them all.
QueryFlows ==
  UNION {Newest(PAGE_SIZE, Matching \ skipped) : skipped \in Newest(Offset(request.page), Matching)}

\* get_flows() gives out the page, or looks for a reason for an empty one.
ReadRows ==
  /\ At("rows") /\ request.kind = "flows"
  /\ \E page \in QueryFlows : IF page = {} THEN Continue("policy") ELSE Respond(page, {}, "data")
  /\ Undisturbed

\* export_report() gives out the first page, an empty table too.
ExportRows ==
  /\ At("rows") /\ request.kind = "export"
  /\ \E page \in QueryFlows : Respond(page, {}, "csv")
  /\ Undisturbed

\* ClickHouse, or the database of the reports, does not answer: 500.
QueryFails ==
  /\ request # Nothing
  /\ request.step \in {"rows", "summary", "breakdown", "ranking", "filter", "insert"}
  /\ Fault("database")
  /\ Refuse
  /\ Disturbed

ReasonByStart(days) == IF request.start > days THEN "outside_retention" ELSE "no_traffic"

\* is_outside_retention(), once the number of days is known.
Reason(days) == IF request.end > days THEN "outside_retention" ELSE "no_traffic"

\* get_retention_days(): identity answers, or the default stands in.
ExplainEmpty ==
  /\ At("policy")
  /\ Respond({}, {}, Reason(Days(policy)))
  /\ Undisturbed

ExplainByDefault ==
  /\ At("policy")
  /\ Fault("identity")
  /\ Respond({}, {}, Reason(DEFAULT_DAYS))
  /\ Disturbed

-----------------------------------------------------------------------------
(* Aggregates and statuses *)

\* The rows of the range before now(), of the filtered sites.
InRange == {f \in Flows : flow[f] = "stored" /\ age[f] < MAX_RANGE /\ SiteOf[f] \in request.allowed}

DataOrNone(rows) == IF rows = {} THEN "no_traffic" ELSE "data"

\* get_summary() sums up first.
ReadTotals ==
  /\ At("summary")
  /\ Proceed([request EXCEPT !.step = "breakdown", !.rows = InRange])
  /\ Undisturbed

\* Then it asks for the applications, of the rows there are by now.  The summary
\* is empty when the sum of the bytes it has read is zero, that is, when all of
\* those rows have no bytes.
ReadBreakdown ==
  /\ At("breakdown")
  /\ Proceed([request EXCEPT !.step = IF request.rows \subseteq Weightless THEN "empty" ELSE "full",
                              !.rows = @ \cup InRange])
  /\ Undisturbed

\* Last it adds the statuses of the sites, or none when identity fails.
AddStatuses ==
  /\ At("empty") \/ At("full")
  /\ LET reason == IF At("empty") THEN "no_traffic" ELSE "data"
     IN \/ Respond(request.rows, request.allowed, reason) /\ Undisturbed
        \/ Fault("identity") /\ Respond(request.rows, {}, reason) /\ Disturbed

\* What LIMIT leaves of the rows: some of them, when there are any.
Limited(rows) == {top \in SUBSET rows : rows # {} => top # {}}

\* get_top_talkers(): the rows of the sources with most bytes.
ReadTopTalkers ==
  /\ At("ranking")
  /\ \E top \in Limited(InRange) : Respond(top, {}, DataOrNone(top))
  /\ Undisturbed

\* get_flow_map(): the rows of the pairs of addresses with most bytes.  It leaves
\* out rows from an address to itself; Flows has none.
ReadFlowMap ==
  /\ At("ranking")
  /\ \E top \in Limited(InRange) : Respond(top, {}, DataOrNone(top))
  /\ Undisturbed

\* get_traffic_over_time(): the rows by minutes or hours.
ReadBuckets ==
  /\ At("ranking")
  /\ Respond(InRange, {}, DataOrNone(InRange))
  /\ Undisturbed

\* get_sites_status(): identity lists all sites, the caller gets its own.
ListStatuses ==
  /\ At("statuses")
  /\ Respond({}, request.allowed, "statuses")
  /\ Undisturbed

\* Identity does not answer get_sites_status(): 500.
ListStatusesFails ==
  /\ At("statuses")
  /\ Fault("identity")
  /\ Refuse
  /\ Disturbed

\* A range or a format that is not supported: 422.
Unsupported == At("scope") /\ Refuse /\ Undisturbed

\* The handler of the request does its next step.
Serve ==
  \/ Authenticate \/ LookUpToken \/ LookUpFails \/ ProxyFails \/ LoadScope \/ Unsupported
  \/ SaveReport \/ FilterMissing
  \/ \E site \in Sites \cup {AnySite}, window \in Windows : LoadFilter(site, window)
  \/ ReadRows \/ ExportRows \/ QueryFails \/ ExplainEmpty \/ ExplainByDefault
  \/ ReadTotals \/ ReadBreakdown \/ AddStatuses
  \/ ReadTopTalkers \/ ReadFlowMap \/ ReadBuckets \/ ListStatuses \/ ListStatusesFails

-----------------------------------------------------------------------------
(* What changes meanwhile *)

\* The store does a step of its own; a new policy is noted.
StoreChanges ==
  /\ StoreStep
  /\ request' = Note(usable, scope, Days(policy'))
  /\ answer' = Nothing
  /\ UNCHANGED <<usable, scope>>

\* A day passes for the rows and for the window of the request, if it has one.
\* Bound: a window that does not start at Cap, before everything, does not come
\* to, since rows of that age and older are no longer told apart.
Tick ==
  /\ DayPasses
  /\ At("rows") \/ At("policy") => request.start + 1 # Cap
  /\ request' = IF request # Nothing /\ (At("rows") \/ At("policy"))
                THEN [request EXCEPT !.start = Older(@), !.end = Older(@)]
                ELSE request
  /\ answer' = Nothing
  /\ UNCHANGED <<usable, scope>>

\* The token is revoked or expires, the user is disabled or enabled again.
ChangeAccess ==
  /\ Change
  /\ usable' = ~usable
  /\ request' = Note(usable', scope, Days(policy))
  /\ answer' = Nothing
  /\ UNCHANGED <<policy, ttl, loop, flow, age, faults, scope>>

\* update_user_roles() commits, or a site is deleted with its assignments.
ChangeScope(sites) ==
  /\ Change
  /\ sites # scope
  /\ scope' = sites
  /\ request' = Note(usable, sites, Days(policy))
  /\ answer' = Nothing
  /\ UNCHANGED <<policy, ttl, loop, flow, age, faults, usable>>

Next ==
  \/ Ask
  \/ Serve
  \/ StoreChanges
  \/ Tick
  \/ ChangeAccess
  \/ \E sites \in SUBSET Sites : ChangeScope(sites)

Spec == Init /\ [][Next]_vars

-----------------------------------------------------------------------------
(* Properties *)

\* Every variable has its type.
TypeOK ==
  /\ policy \in Policies \cup {NoPolicy}
  /\ ttl \in Policies \cup {DEFAULT_DAYS}
  /\ loop \in [step : {"starting", "asleep", "alter", "unpooled"}, days : Nat]
  /\ flow \in [Flows -> {"none", "stored", "purged"}]
  /\ age \in [Flows -> 0..Cap]
  /\ changes \in 0..MaxChanges /\ faults \in 0..MaxFaults
  /\ usable \in BOOLEAN /\ scope \subseteq Sites
  /\ request # Nothing =>
       /\ request.kind \in Kinds \cup {Nothing}
       /\ request.step \in Kinds \cup {"gateway", "service", "scope", "filter", "insert", "rows",
                                     "policy", "breakdown", "empty", "full"}
       /\ request.site \in Sites \cup {AnySite}
       /\ request.end \in 0..Cap /\ request.start \in request.end..Cap
       /\ request.page \in 1..MaxPage /\ request.allowed \subseteq Sites
       /\ request.site # AnySite /\ request.step \in {"insert", "rows", "policy"} =>
            request.site \in request.allowed
  /\ answer # Nothing =>
       /\ answer.reason \in {"data", "outside_retention", "no_traffic", "csv", "saved", "statuses"}
       /\ answer.reason = "data" => answer.rows # {}

\* An answer tells of rows and sites only when the caller's token was usable and
\* all of those sites were within its scope at one time while the request was
\* under way: the next request after a change is bound by it, whatever changes
\* between the lookups, and a report gives its reader no more than a query
\* (session.py:113-150, authz.py:20-49, flow_query.py:71-75, reports.py:97-131).
AnswersWithinAccess ==
  [][answer' # Nothing =>
       /\ request.usable
       /\ \E sites \in request.scopes :
            {SiteOf[f] : f \in answer'.rows} \cup answer'.sites \subseteq sites]_vars

\* "outside_retention" is said of a window that has ended before the retention
\* of some policy in force during the request; only when identity fails may the
\* default take its place (flow_query.py:114-121, retention_client.py:11-19).
OutsideIsOld ==
  [][answer' # Nothing /\ answer'.reason = "outside_retention" =>
       \E days \in request.days \cup (IF faults' = faults THEN {} ELSE {DEFAULT_DAYS}) :
         request.end > days]_vars

\* The row is one the request asks for.
Wanted(f) ==
  /\ request.site \in {AnySite, SiteOf[f]} /\ SiteOf[f] \in request.allowed
  /\ IF request.kind \in {"summary", "ranking"} THEN age[f] < MAX_RANGE
     ELSE request.end <= age[f] /\ age[f] <= request.start

\* "no_traffic" hides nothing.  Consider the rows that the request asks for, of
\* the sites it is allowed, which have been there from its arrival to its answer,
\* whatever changes between its reads.  A ranking has none of them.  An empty page
\* of flow records leaves out no more than fit on the pages before it: none on the
\* first, and a later page may well be past the last of them.  A summary leaves out
\* rows of zero bytes only, since it is its sum that is tested (flow_query.py:61-99,
\* flows.py:40-48, summary.py:39-75, top_talkers.py:26-36).  A site that is not the
\* caller's is always said to have no traffic.
NoTrafficIsTrue ==
  [][answer' # Nothing /\ answer'.reason = "no_traffic" /\ ~At("scope") /\ ~At("filter") =>
       LET hidden == {f \in request.before : flow[f] = "stored" /\ Wanted(f)}
       IN IF request.kind = "summary" THEN hidden \subseteq Weightless
          ELSE Cardinality(hidden) <= (request.page - 1) * PAGE_SIZE]_vars
=============================================================================
