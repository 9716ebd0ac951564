---------------------------- MODULE QueryProofs -----------------------------
(***************************************************************************)
(* Proofs, for any rows, sites, windows and policies and any number of     *)
(* changes and faults, that an answer tells of nothing but what its caller *)
(* could see while the request was under way, says "outside_retention" of  *)
(* nothing younger than some policy in force meanwhile, and "no_traffic"   *)
(* of no more rows than its page and the weight of its rows account for.   *)
(***************************************************************************)
EXTENDS Query, FiniteSetTheorems, TLAPS

Steps == Kinds \cup {"gateway", "service", "scope", "filter", "insert", "rows", "policy",
                     "breakdown", "empty", "full"}

\* The steps before the handler starts, while the history is kept.
Early == {"gateway", "service", "scope"}

Reasons == {"data", "outside_retention", "no_traffic", "csv", "saved", "statuses"}

RequestType ==
  [kind : Kinds \cup {Nothing}, step : Steps, site : Sites \cup {AnySite},
   start : 0..Cap, end : 0..Cap, page : 1..MaxPage, allowed : SUBSET Sites, rows : SUBSET Flows,
   usable : BOOLEAN, scopes : SUBSET (SUBSET Sites), days : SUBSET Nat, before : SUBSET Flows]

StoreOK ==
  /\ policy \in Policies \cup {NoPolicy}
  /\ ttl \in Policies \cup {DEFAULT_DAYS}
  /\ loop \in [step : {"starting", "asleep", "alter", "unpooled"}, days : Nat]
  /\ loop.step = "alter" => loop.days \in Policies \cup {DEFAULT_DAYS}
  /\ flow \in [Flows -> {"none", "stored", "purged"}]
  /\ age \in [Flows -> 0..Cap]
  /\ changes \in 0..MaxChanges /\ faults \in 0..MaxFaults

\* What holds of a request, by whether its token is usable, the sites of its
\* caller and the days in force now.
Sound(r, use, sites, days) ==
  /\ r \in RequestType /\ r.end <= r.start
  /\ r.step \in Early =>
       r.kind = Nothing /\ r.rows = {} /\ sites \in r.scopes /\ (use => r.usable) /\ days \in r.days
  /\ r.step # "gateway" => r.usable
  /\ r.step \notin Early => \E s \in r.scopes : r.allowed \subseteq s
  /\ \A f \in r.rows : SiteOf[f] \in r.allowed
  /\ r.step \in {"insert", "rows", "policy"} => r.site \in r.allowed \cup {AnySite}
  /\ r.step = "filter" => r.kind \in {"report", "export"}
  /\ r.step = "policy" => r.kind = "flows"
  /\ r.step = "full" => r.rows # {}
  /\ r.kind \in {"flows", "report"} => days \in r.days

Told == answer # Nothing => answer.reason \in Reasons /\ (answer.reason = "data" => answer.rows # {})

RequestInv ==
  /\ StoreOK
  /\ usable \in BOOLEAN /\ scope \subseteq Sites
  /\ request # Nothing => Sound(request, usable, scope, Days(policy))
  /\ Told

\* What the two action properties say of a step.
Within ==
  answer' # Nothing =>
    /\ request.usable
    /\ \E sites \in request.scopes :
         {SiteOf[f] : f \in answer'.rows} \cup answer'.sites \subseteq sites

Old ==
  answer' # Nothing /\ answer'.reason = "outside_retention" =>
    \E days \in request.days \cup (IF faults' = faults THEN {} ELSE {DEFAULT_DAYS}) :
      request.end > days

\* The step leaves alone what a request depends on.
Quiet == UNCHANGED <<policy, usable, scope>> /\ StoreOK'

-----------------------------------------------------------------------------
LEMMA DaysTyped ==
  ASSUME NEW p \in Policies \cup {NoPolicy}
  PROVE  Days(p) \in Nat /\ Days(p) \in Policies \cup {DEFAULT_DAYS}
BY RetentionAssumption DEF Days, DEFAULT_DAYS

LEMMA UndisturbedIsQuiet ==
  ASSUME RequestInv, Undisturbed
  PROVE  Quiet
BY DEF RequestInv, Undisturbed, Quiet, StoreOK, storeVars

LEMMA DisturbedIsQuiet ==
  ASSUME RequestInv, NEW kind, Fault(kind), Disturbed
  PROVE  Quiet /\ faults' # faults
<1>1. faults \in Nat /\ MaxFaults \in Nat /\ faults' = faults + 1 /\ faults < MaxFaults
  BY RetentionAssumption DEF RequestInv, StoreOK, Fault
<1> QED
  BY <1>1 DEF RequestInv, Disturbed, Quiet, StoreOK

\* The three ways in which a step of a handler ends.
LEMMA Proceeds ==
  ASSUME RequestInv, Quiet, NEW r, Proceed(r), Sound(r, usable, scope, Days(policy))
  PROVE  RequestInv' /\ Within /\ Old
BY DEF RequestInv, Quiet, Proceed, Within, Old, Told

LEMMA Refuses ==
  ASSUME RequestInv, Quiet, Refuse
  PROVE  RequestInv' /\ Within /\ Old
BY DEF RequestInv, Quiet, Refuse, Within, Old, Told

LEMMA Responds ==
  ASSUME RequestInv, Quiet, request # Nothing, request.step # "gateway",
         NEW rows \in SUBSET Flows, NEW sites, NEW reason \in Reasons, Respond(rows, sites, reason),
         \E s \in request.scopes : sites \subseteq s /\ \A f \in rows : SiteOf[f] \in s,
         reason = "data" => rows # {},
         reason = "outside_retention" => Old
  PROVE  RequestInv' /\ Within /\ Old
<1>1. answer' = [rows |-> rows, sites |-> sites, reason |-> reason] /\ request' = Nothing
  BY DEF Respond
<1>2. answer'.rows = rows /\ answer'.sites = sites /\ answer'.reason = reason
  BY <1>1
<1>3. Within
  <2>1. request.usable
    BY DEF RequestInv, Sound
  <2> QED
    BY <1>2, <2>1 DEF Within
<1>4. Old
  BY <1>2 DEF Old
<1>5. RequestInv'
  BY <1>1, <1>2 DEF RequestInv, Quiet, Told
<1> QED
  BY <1>3, <1>4, <1>5

\* The handler may tell of what its caller is allowed.
LEMMA RespondsAllowed ==
  ASSUME RequestInv, Quiet, request # Nothing, request.step \notin Early,
         NEW rows \in SUBSET Flows, NEW sites, NEW reason \in Reasons, Respond(rows, sites, reason),
         sites \subseteq request.allowed, \A f \in rows : SiteOf[f] \in request.allowed,
         reason = "data" => rows # {},
         reason = "outside_retention" => Old
  PROVE  RequestInv' /\ Within /\ Old
<1>1. PICK s \in request.scopes : request.allowed \subseteq s
  BY DEF RequestInv, Sound
<1>2. sites \subseteq s /\ \A f \in rows : SiteOf[f] \in s
  BY <1>1
<1>3. request.step # "gateway"
  BY DEF Early
<1> QED
  BY <1>1, <1>2, <1>3, Responds

\* Only the step of a request is set.
LEMMA SetStep ==
  ASSUME NEW r \in RequestType, NEW step \in Steps
  PROVE  /\ [r EXCEPT !.step = step] \in RequestType
         /\ [r EXCEPT !.step = step].step = step
         /\ [r EXCEPT !.step = step].kind = r.kind /\ [r EXCEPT !.step = step].site = r.site
         /\ [r EXCEPT !.step = step].start = r.start /\ [r EXCEPT !.step = step].end = r.end
         /\ [r EXCEPT !.step = step].allowed = r.allowed /\ [r EXCEPT !.step = step].rows = r.rows
         /\ [r EXCEPT !.step = step].usable = r.usable /\ [r EXCEPT !.step = step].scopes = r.scopes
         /\ [r EXCEPT !.step = step].days = r.days
BY DEF RequestType

-----------------------------------------------------------------------------
(* From the gateway to the handler *)

LEMMA AskKeepsInv ==
  ASSUME RequestInv, Ask
  PROVE  RequestInv' /\ Within /\ Old
<1> DEFINE stored == {f \in Flows : flow[f] = "stored"}
           r == [kind |-> Nothing, step |-> "gateway", site |-> AnySite, start |-> 0, end |-> 0,
                 page |-> 1, allowed |-> {}, rows |-> {}, usable |-> usable, scopes |-> {scope},
                 days |-> {Days(policy)}, before |-> stored]
<1>1. Proceed(r) /\ Undisturbed
  BY DEF Ask
<1>2. Days(policy) \in Nat /\ Cap \in Nat /\ 1 \in 1..MaxPage
  BY DaysTyped, RetentionAssumption, QueryAssumption DEF RequestInv, StoreOK
<1>3. stored \subseteq Flows /\ usable \in BOOLEAN /\ scope \subseteq Sites /\ "gateway" \in Steps
  BY DEF RequestInv, Steps
<1>4. r.step = "gateway" /\ r.kind = Nothing /\ r.start = 0 /\ r.end = 0 /\ r.allowed = {}
      /\ r.rows = {} /\ r.usable = usable /\ r.scopes = {scope} /\ r.days = {Days(policy)}
  OBVIOUS
<1>5. r \in RequestType
  <2> HIDE DEF stored
  <2> QED
    BY <1>2, <1>3 DEF RequestType
<1> HIDE DEF r
<1>6. Sound(r, usable, scope, Days(policy))
  BY <1>4, <1>5 DEF Sound, Early
<1> QED
  BY <1>1, <1>6, Proceeds, UndisturbedIsQuiet

\* The token is looked up, by the gateway and again by the query API.
LEMMA TokenKeepsInv ==
  ASSUME RequestInv, Authenticate \/ LookUpToken
  PROVE  RequestInv' /\ Within /\ Old
<1>1. Quiet
  BY UndisturbedIsQuiet DEF Authenticate, LookUpToken
<1>2. PICK step \in {"service", "scope"} :
        /\ request # Nothing /\ request.step \in {"gateway", "service"}
        /\ (usable /\ Continue(step)) \/ Refuse
  BY DEF Authenticate, LookUpToken, At
<1>3. CASE Refuse
  BY <1>1, <1>3, Refuses
<1>4. CASE usable /\ Continue(step)
  <2> DEFINE r == [request EXCEPT !.step = step]
  <2>1. request \in RequestType /\ step \in Steps
    BY <1>2 DEF RequestInv, Sound, Steps
  <2>2. r \in RequestType /\ r.step = step /\ r.kind = request.kind /\ r.site = request.site
        /\ r.start = request.start /\ r.end = request.end /\ r.allowed = request.allowed
        /\ r.rows = request.rows /\ r.usable = request.usable /\ r.scopes = request.scopes
        /\ r.days = request.days
    BY <2>1, SetStep, Zenon
  <2>3. Proceed(r)
    BY <1>4 DEF Continue
  <2> HIDE DEF r
  <2>4. Sound(r, usable, scope, Days(policy))
    BY <1>2, <1>4, <2>2 DEF RequestInv, Sound, Early
  <2> QED
    BY <1>1, <2>3, <2>4, Proceeds
<1> QED
  BY <1>2, <1>3, <1>4

LEMMA FailureKeepsInv ==
  ASSUME RequestInv, LookUpFails \/ ProxyFails \/ QueryFails \/ ListStatusesFails
  PROVE  RequestInv' /\ Within /\ Old
BY DisturbedIsQuiet, Refuses DEF LookUpFails, ProxyFails, QueryFails, ListStatusesFails

LEMMA RefusalKeepsInv ==
  ASSUME RequestInv, FilterMissing \/ Unsupported
  PROVE  RequestInv' /\ Within /\ Old
BY UndisturbedIsQuiet, Refuses DEF FilterMissing, Unsupported

\* What is admitted is about a site the caller may see; what is not gets nothing.
LEMMA Admits ==
  ASSUME RequestInv, Quiet, request # Nothing, request.step # "gateway",
         request.scopes # {},
         NEW r, NEW next, Admit(r, next),
         r.site \in r.allowed \cup {AnySite} =>
           Sound([r EXCEPT !.step = next], usable, scope, Days(policy))
  PROVE  RequestInv' /\ Within /\ Old
<1>1. CASE r.site \in r.allowed \cup {AnySite}
  BY <1>1, Proceeds DEF Admit
<1>2. CASE r.site \notin r.allowed \cup {AnySite} /\ r.kind \in {"export", "save"}
  BY <1>2, Refuses DEF Admit
<1>3. CASE r.site \notin r.allowed \cup {AnySite} /\ r.kind \notin {"export", "save"}
  <2>1. Respond({}, {}, "no_traffic")
    BY <1>3 DEF Admit
  <2>2. \E s \in request.scopes : {} \subseteq s /\ \A f \in {} : SiteOf[f] \in s
    OBVIOUS
  <2>3. "no_traffic" \in Reasons /\ {} \in SUBSET Flows
    BY DEF Reasons
  <2> QED
    BY <2>1, <2>2, <2>3, Responds
<1> QED
  BY <1>1, <1>2, <1>3
LEMMA StartTyped ==
  ASSUME RequestInv, At("scope"), NEW kind \in Kinds
  PROVE  /\ Start(kind) \in RequestType /\ Start(kind).kind = kind /\ Start(kind).allowed = scope
         /\ Start(kind).site = request.site /\ Start(kind).end = request.end
         /\ Start(kind).start = request.start /\ Start(kind).rows = request.rows
         /\ Start(kind).usable = request.usable /\ Start(kind).scopes = request.scopes
         /\ Start(kind).step = "scope"
         /\ kind \in {"flows", "report"} => Start(kind).days = request.days
<1>1. request \in RequestType /\ request.step = "scope" /\ scope \subseteq Sites
  BY DEF RequestInv, Sound, At
<1> DEFINE days == IF kind \in {"flows", "report"} THEN request.days ELSE {}
           before == IF kind \in {"save", "export", "statuses"} THEN {} ELSE request.before
<1>2. Start(kind) = [request EXCEPT !.kind = kind, !.allowed = scope, !.days = days, !.before = before]
  BY DEF Start
<1>3. days \in SUBSET Nat /\ before \in SUBSET Flows /\ (kind \in {"flows", "report"} => days = request.days)
  BY <1>1 DEF RequestType
<1> HIDE DEF days, before
<1> DEFINE kinded == [request EXCEPT !.kind = kind]
           allowed == [kinded EXCEPT !.allowed = scope]
           dated == [allowed EXCEPT !.days = days]
<1>4. kinded \in RequestType /\ kinded.kind = kind /\ kinded.site = request.site
      /\ kinded.end = request.end /\ kinded.start = request.start /\ kinded.rows = request.rows
      /\ kinded.usable = request.usable /\ kinded.scopes = request.scopes
      /\ kinded.step = "scope" /\ kinded.days = request.days
  BY <1>1 DEF RequestType
<1>5. allowed \in RequestType /\ allowed.allowed = scope /\ allowed.kind = kind
      /\ allowed.site = request.site /\ allowed.end = request.end /\ allowed.start = request.start
      /\ allowed.rows = request.rows /\ allowed.usable = request.usable
      /\ allowed.scopes = request.scopes /\ allowed.step = "scope"
  <2> HIDE DEF kinded
  <2> QED
    BY <1>1, <1>4 DEF RequestType
<1>6. dated \in RequestType /\ dated.days = days /\ dated.allowed = scope /\ dated.kind = kind
      /\ dated.site = request.site /\ dated.end = request.end /\ dated.start = request.start
      /\ dated.rows = request.rows /\ dated.usable = request.usable
      /\ dated.scopes = request.scopes /\ dated.step = "scope"
  <2> HIDE DEF allowed
  <2> QED
    BY <1>3, <1>5 DEF RequestType
<1>7. Start(kind) = [dated EXCEPT !.before = before]
  BY <1>2
<1> HIDE DEF dated
<1> QED
  BY <1>3, <1>6, <1>7 DEF RequestType

\* The handler's filter: its site and its window.
LEMMA FilterTyped ==
  ASSUME NEW r \in RequestType, NEW site \in Sites \cup {AnySite}, NEW window \in Windows
  PROVE  /\ Filter(r, site, window) \in RequestType
         /\ Filter(r, site, window).site = site
         /\ Filter(r, site, window).end <= Filter(r, site, window).start
         /\ Filter(r, site, window).kind = r.kind /\ Filter(r, site, window).allowed = r.allowed
         /\ Filter(r, site, window).rows = r.rows /\ Filter(r, site, window).usable = r.usable
         /\ Filter(r, site, window).scopes = r.scopes /\ Filter(r, site, window).days = r.days
         /\ Filter(r, site, window).step = r.step
<1>1. window[1] \in 0..Cap /\ window[2] \in 0..Cap /\ window[2] <= window[1]
  BY QueryAssumption, RetentionAssumption
<1> QED
  BY <1>1 DEF Filter, RequestType

LEMMA PageTyped ==
  ASSUME NEW r \in RequestType, NEW page \in 1..MaxPage
  PROVE  /\ [r EXCEPT !.page = page] \in RequestType
         /\ [r EXCEPT !.page = page].site = r.site
         /\ [r EXCEPT !.page = page].kind = r.kind /\ [r EXCEPT !.page = page].step = r.step
         /\ [r EXCEPT !.page = page].start = r.start /\ [r EXCEPT !.page = page].end = r.end
         /\ [r EXCEPT !.page = page].allowed = r.allowed /\ [r EXCEPT !.page = page].rows = r.rows
         /\ [r EXCEPT !.page = page].usable = r.usable /\ [r EXCEPT !.page = page].scopes = r.scopes
         /\ [r EXCEPT !.page = page].days = r.days /\ [r EXCEPT !.page = page].before = r.before
BY DEF RequestType

LEMMA SiteTyped ==
  ASSUME NEW r \in RequestType, NEW site \in Sites \cup {AnySite}
  PROVE  /\ [r EXCEPT !.site = site] \in RequestType
         /\ [r EXCEPT !.site = site].site = site
         /\ [r EXCEPT !.site = site].kind = r.kind /\ [r EXCEPT !.site = site].step = r.step
         /\ [r EXCEPT !.site = site].start = r.start /\ [r EXCEPT !.site = site].end = r.end
         /\ [r EXCEPT !.site = site].allowed = r.allowed /\ [r EXCEPT !.site = site].rows = r.rows
         /\ [r EXCEPT !.site = site].usable = r.usable /\ [r EXCEPT !.site = site].scopes = r.scopes
         /\ [r EXCEPT !.site = site].days = r.days
BY DEF RequestType

LEMMA AllowedTyped ==
  ASSUME NEW r \in RequestType, NEW sites \in SUBSET Sites
  PROVE  /\ [r EXCEPT !.allowed = sites] \in RequestType
         /\ [r EXCEPT !.allowed = sites].allowed = sites
         /\ [r EXCEPT !.allowed = sites].kind = r.kind /\ [r EXCEPT !.allowed = sites].step = r.step
         /\ [r EXCEPT !.allowed = sites].start = r.start /\ [r EXCEPT !.allowed = sites].end = r.end
         /\ [r EXCEPT !.allowed = sites].site = r.site /\ [r EXCEPT !.allowed = sites].rows = r.rows
         /\ [r EXCEPT !.allowed = sites].usable = r.usable
         /\ [r EXCEPT !.allowed = sites].scopes = r.scopes
         /\ [r EXCEPT !.allowed = sites].days = r.days
BY DEF RequestType

\* A request of which no rows have been read is sound at a step of its handler.
LEMMA HandlerSound ==
  ASSUME NEW r \in RequestType, NEW step \in Steps \ (Early \cup {"full"}), NEW use, NEW sites, NEW days,
         r.end <= r.start, r.usable, r.rows = {}, \E s \in r.scopes : r.allowed \subseteq s,
         step \in {"insert", "rows", "policy"} => r.site \in r.allowed \cup {AnySite},
         step = "filter" => r.kind \in {"report", "export"},
         step = "policy" => r.kind = "flows",
         r.kind \in {"flows", "report"} => days \in r.days
  PROVE  Sound([r EXCEPT !.step = step], use, sites, days)
<1> DEFINE n == [r EXCEPT !.step = step]
<1>1. n \in RequestType /\ n.step = step /\ n.kind = r.kind /\ n.site = r.site
      /\ n.start = r.start /\ n.end = r.end /\ n.allowed = r.allowed /\ n.rows = r.rows
      /\ n.usable = r.usable /\ n.scopes = r.scopes /\ n.days = r.days
  BY SetStep, Zenon
<1> HIDE DEF n
<1>2. Sound(n, use, sites, days)
  BY <1>1 DEF Sound, Early
<1> QED
  BY <1>2 DEF n

LEMMA LoadScopeKeepsInv ==
  ASSUME RequestInv, LoadScope
  PROVE  RequestInv' /\ Within /\ Old
<1>1. Quiet /\ At("scope")
  BY UndisturbedIsQuiet DEF LoadScope
<1>2. /\ request # Nothing /\ request.step = "scope" /\ request.rows = {} /\ request.usable
      /\ request.end <= request.start /\ scope \in request.scopes
      /\ Days(policy) \in request.days
  BY <1>1 DEF RequestInv, At, Sound, Early
<1>3. scope \subseteq Sites /\ request.scopes # {} /\ request.step # "gateway"
  BY <1>2 DEF RequestInv
<1>4. ASSUME NEW site \in Sites \cup {AnySite}, NEW window \in Windows, NEW page \in 1..MaxPage,
             Admit([Filter(Start("flows"), site, window) EXCEPT !.page = page], "rows")
      PROVE  RequestInv' /\ Within /\ Old
  <2> DEFINE unpaged == Filter(Start("flows"), site, window)
             r == [unpaged EXCEPT !.page = page]
  <2>1. Start("flows") \in RequestType /\ Start("flows").allowed = scope
        /\ Start("flows").rows = {} /\ Start("flows").usable
        /\ Start("flows").scopes = request.scopes /\ Start("flows").days = request.days
    BY <1>1, <1>2, StartTyped DEF Kinds
  <2>2. r \in RequestType /\ r.end <= r.start /\ r.allowed = scope /\ r.rows = {} /\ r.usable
        /\ r.scopes = request.scopes /\ r.days = request.days
    <3>1. unpaged \in RequestType /\ unpaged.end <= unpaged.start /\ unpaged.allowed = scope
          /\ unpaged.rows = {} /\ unpaged.usable /\ unpaged.scopes = request.scopes
          /\ unpaged.days = request.days
      BY <2>1, FilterTyped
    <3> HIDE DEF unpaged
    <3> QED
      BY <3>1, PageTyped
  <2> HIDE DEF r
  <2>3. "rows" \in Steps \ (Early \cup {"full"})
    BY DEF Steps, Early
  <2>4. r.site \in r.allowed \cup {AnySite} =>
          Sound([r EXCEPT !.step = "rows"], usable, scope, Days(policy))
    BY <1>2, <2>2, <2>3, HandlerSound
  <2>5. Admit(r, "rows")
    BY <1>4 DEF r
  <2> QED
    BY <1>1, <1>2, <1>3, <2>4, <2>5, Admits
<1>5. ASSUME NEW site \in Sites \cup {AnySite},
             Admit([Start("save") EXCEPT !.site = site], "insert")
      PROVE  RequestInv' /\ Within /\ Old
  <2> DEFINE r == [Start("save") EXCEPT !.site = site]
  <2>1. Start("save") \in RequestType /\ Start("save").allowed = scope
        /\ Start("save").rows = {} /\ Start("save").usable /\ Start("save").kind = "save"
        /\ Start("save").scopes = request.scopes /\ Start("save").end <= Start("save").start
    BY <1>1, <1>2, StartTyped DEF Kinds
  <2>2. r \in RequestType /\ r.end <= r.start /\ r.allowed = scope /\ r.rows = {} /\ r.usable
        /\ r.scopes = request.scopes /\ r.kind = "save"
    BY <2>1, SiteTyped
  <2> HIDE DEF r
  <2>3. "insert" \in Steps \ (Early \cup {"full"})
    BY DEF Steps, Early
  <2>4. r.site \in r.allowed \cup {AnySite} =>
          Sound([r EXCEPT !.step = "insert"], usable, scope, Days(policy))
    BY <1>2, <2>2, <2>3, HandlerSound
  <2>5. Admit(r, "insert")
    BY <1>5 DEF r
  <2> QED
    BY <1>1, <1>2, <1>3, <2>4, <2>5, Admits
<1>6. ASSUME NEW kind \in {"report", "export"}, Proceed([Start(kind) EXCEPT !.step = "filter"])
      PROVE  RequestInv' /\ Within /\ Old
  <2> DEFINE r == Start(kind)
  <2>1. r \in RequestType /\ r.allowed = scope /\ r.rows = {} /\ r.usable /\ r.kind = kind
        /\ r.scopes = request.scopes /\ r.end <= r.start
        /\ (kind = "report" => r.days = request.days)
    <3>1. kind \in Kinds
      BY DEF Kinds
    <3> QED
      BY <1>1, <1>2, <3>1, StartTyped
  <2> HIDE DEF r
  <2>2. "filter" \in Steps \ (Early \cup {"full"})
    BY DEF Steps, Early
  <2>3. Sound([r EXCEPT !.step = "filter"], usable, scope, Days(policy))
    BY <1>2, <2>1, <2>2, HandlerSound
  <2>4. Proceed([r EXCEPT !.step = "filter"])
    BY <1>6 DEF r
  <2> QED
    BY <1>1, <2>3, <2>4, Proceeds
<1>7. ASSUME NEW kind \in {"summary", "ranking"}, NEW sites \in (SUBSET Sites) \ {{}},
             Proceed([Start(kind) EXCEPT !.step = kind, !.allowed = FilterSites(sites)])
      PROVE  RequestInv' /\ Within /\ Old
  <2> DEFINE filtered == FilterSites(sites)
             r == [Start(kind) EXCEPT !.allowed = filtered]
  <2>1. Start(kind) \in RequestType /\ Start(kind).rows = {} /\ Start(kind).usable
        /\ Start(kind).kind = kind
        /\ Start(kind).scopes = request.scopes /\ Start(kind).end <= Start(kind).start
    <3>1. kind \in Kinds
      BY DEF Kinds
    <3> QED
      BY <1>1, <1>2, <3>1, StartTyped
  <2>2. filtered \subseteq scope /\ filtered \in SUBSET Sites
    BY <1>3 DEF FilterSites
  <2>3. [Start(kind) EXCEPT !.step = kind, !.allowed = filtered] = [r EXCEPT !.step = kind]
    BY <2>1 DEF RequestType
  <2> HIDE DEF filtered
  <2>4. r \in RequestType /\ r.end <= r.start /\ r.allowed = filtered /\ r.rows = {} /\ r.usable
        /\ r.scopes = request.scopes /\ r.kind = kind
    BY <2>1, <2>2, AllowedTyped
  <2>5. Proceed([r EXCEPT !.step = kind])
    BY <1>7, <2>3 DEF filtered
  <2> HIDE DEF r
  <2>6. kind \in Steps \ (Early \cup {"full"})
    BY DEF Steps, Early, Kinds
  <2>7. Sound([r EXCEPT !.step = kind], usable, scope, Days(policy))
    BY <1>2, <2>2, <2>4, <2>6, HandlerSound
  <2> QED
    BY <1>1, <2>5, <2>7, Proceeds
<1>8. CASE Proceed([Start("statuses") EXCEPT !.step = "statuses"])
  <2> DEFINE r == Start("statuses")
  <2>1. r \in RequestType /\ r.allowed = scope /\ r.rows = {} /\ r.usable /\ r.kind = "statuses"
        /\ r.scopes = request.scopes /\ r.end <= r.start
    BY <1>1, <1>2, StartTyped DEF Kinds
  <2> HIDE DEF r
  <2>2. "statuses" \in Steps \ (Early \cup {"full"})
    BY DEF Steps, Early, Kinds
  <2>3. Sound([r EXCEPT !.step = "statuses"], usable, scope, Days(policy))
    BY <1>2, <2>1, <2>2, HandlerSound
  <2>4. Proceed([r EXCEPT !.step = "statuses"])
    BY <1>8 DEF r
  <2> QED
    BY <1>1, <2>3, <2>4, Proceeds
<1> QED
  BY <1>4, <1>5, <1>6, <1>7, <1>8 DEF LoadScope

-----------------------------------------------------------------------------
(* Reports, flow records and aggregates *)

LEMMA OpenedTyped ==
  ASSUME RequestInv, At("filter"), NEW site \in Sites \cup {AnySite}, NEW window \in Windows
  PROVE  LET r == Opened(site, window)
         IN /\ r \in RequestType /\ r.site = site /\ r.end <= r.start
            /\ r.allowed = request.allowed /\ r.rows = request.rows /\ r.usable
            /\ r.scopes = request.scopes /\ r.days = request.days
            /\ r.kind = IF request.kind = "export" THEN "export" ELSE "flows"
<1>1. request \in RequestType /\ request.step = "filter" /\ request.usable
  BY DEF RequestInv, Sound, At
<1> DEFINE f == Filter(request, site, window)
<1>2. f \in RequestType /\ f.site = site /\ f.end <= f.start /\ f.allowed = request.allowed
      /\ f.rows = request.rows /\ f.usable /\ f.scopes = request.scopes /\ f.days = request.days
      /\ f.kind = request.kind
  BY <1>1, FilterTyped
<1>3. Opened(site, window) = [f EXCEPT !.kind = IF @ = "export" THEN "export" ELSE "flows"]
  BY <1>2 DEF Opened, RequestType
<1> HIDE DEF f
<1>4. {"export", "flows"} \subseteq Kinds
  BY DEF Kinds
<1> QED
  BY <1>2, <1>3, <1>4 DEF RequestType

LEMMA ReportKeepsInv ==
  ASSUME RequestInv,
         \/ \E site \in Sites \cup {AnySite}, window \in Windows : LoadFilter(site, window)
         \/ SaveReport
  PROVE  RequestInv' /\ Within /\ Old
<1>1. Quiet
  BY UndisturbedIsQuiet DEF LoadFilter, SaveReport
<1>2. ASSUME NEW site \in Sites \cup {AnySite}, NEW window \in Windows, LoadFilter(site, window)
      PROVE  RequestInv' /\ Within /\ Old
  <2> DEFINE r == Opened(site, window)
             n == [r EXCEPT !.step = "rows"]
  <2>1. At("filter") /\ Admit(r, "rows")
    BY <1>2 DEF LoadFilter
  <2>2. r \in RequestType /\ r.site = site /\ r.end <= r.start /\ r.allowed = request.allowed
        /\ r.rows = request.rows /\ r.usable /\ r.scopes = request.scopes
        /\ r.days = request.days
        /\ r.kind = IF request.kind = "export" THEN "export" ELSE "flows"
    BY <2>1, OpenedTyped
  <2> HIDE DEF r
  <2>3. /\ request # Nothing /\ request.step = "filter" /\ request.step # "gateway"
        /\ \E s \in request.scopes : request.allowed \subseteq s
        /\ \A f \in request.rows : SiteOf[f] \in request.allowed
        /\ request.kind = "export" \/ Days(policy) \in request.days
    BY <2>1 DEF At, RequestInv, Sound, Early
  <2>4. "rows" \in Steps
    BY DEF Steps
  <2>5. n \in RequestType /\ n.step = "rows" /\ n.kind = r.kind /\ n.site = r.site
        /\ n.start = r.start /\ n.end = r.end /\ n.allowed = r.allowed /\ n.rows = r.rows
        /\ n.usable = r.usable /\ n.scopes = r.scopes /\ n.days = r.days
    BY <2>2, <2>4, SetStep, Zenon
  <2> HIDE DEF n
  <2>6. r.site \in r.allowed \cup {AnySite} => Sound(n, usable, scope, Days(policy))
    BY <2>2, <2>3, <2>5 DEF Sound, Early
  <2>7. request.scopes # {}
    BY <2>3
  <2> QED
    BY <1>1, <2>1, <2>3, <2>6, <2>7, Admits DEF n
<1>3. CASE SaveReport
  <2>1. request # Nothing /\ request.step \notin Early /\ request.site \in request.allowed \cup {AnySite}
        /\ Respond({}, {request.site} \ {AnySite}, "saved")
    BY <1>3 DEF SaveReport, At, RequestInv, Sound, Early
  <2>2. {request.site} \ {AnySite} \subseteq request.allowed /\ "saved" \in Reasons
        /\ {} \in SUBSET Flows
    BY <2>1 DEF Reasons
  <2> QED
    BY <1>1, <2>1, <2>2, RespondsAllowed
<1> QED
  BY <1>2, <1>3

LEMMA QueryReads ==
  ASSUME RequestInv, At("rows"), NEW page \in QueryFlows
  PROVE  page \in SUBSET Flows /\ \A f \in page : SiteOf[f] \in request.allowed
<1>1. request.site \in request.allowed \cup {AnySite}
  BY DEF RequestInv, At, Sound
<1>2. page \subseteq Matching
  BY DEF QueryFlows, Newest
<1> QED
  BY <1>1, <1>2 DEF Matching, InWindow

\* A request goes on to another step of its handler.
LEMMA Continues ==
  ASSUME RequestInv, Quiet, request # Nothing, request.step \notin Early,
         NEW step \in {"policy", "breakdown", "empty", "full"},
         NEW rows \in SUBSET Flows, \A f \in rows : SiteOf[f] \in request.allowed,
         Proceed([request EXCEPT !.step = step, !.rows = rows]),
         step = "policy" => request.kind = "flows" /\ request.step = "rows",
         step = "full" => rows # {}
  PROVE  RequestInv' /\ Within /\ Old
<1> DEFINE stepped == [request EXCEPT !.step = step]
           r == [stepped EXCEPT !.rows = rows]
<1>1. request \in RequestType /\ step \in Steps
  BY DEF RequestInv, Sound, Steps
<1>2. stepped \in RequestType /\ stepped.step = step /\ stepped.kind = request.kind
      /\ stepped.site = request.site /\ stepped.start = request.start /\ stepped.end = request.end
      /\ stepped.allowed = request.allowed /\ stepped.usable = request.usable
      /\ stepped.scopes = request.scopes /\ stepped.days = request.days
  BY <1>1, SetStep, Zenon
<1>3. r \in RequestType /\ r.step = step /\ r.kind = request.kind /\ r.rows = rows
      /\ r.site = request.site /\ r.start = request.start /\ r.end = request.end
      /\ r.allowed = request.allowed /\ r.usable = request.usable
      /\ r.scopes = request.scopes /\ r.days = request.days
  <2> HIDE DEF stepped
  <2> QED
    BY <1>2 DEF RequestType
<1>4. Proceed(r)
  BY <1>1 DEF RequestType
<1> HIDE DEF r
<1>5. Sound(r, usable, scope, Days(policy))
  BY <1>3 DEF RequestInv, Sound, Early
<1> QED
  BY <1>4, <1>5, Proceeds

LEMMA RowsKeepInv ==
  ASSUME RequestInv, ReadRows \/ ExportRows \/ ExplainEmpty \/ ExplainByDefault
  PROVE  RequestInv' /\ Within /\ Old
<1>1. ReadRows \/ ExportRows \/ ExplainEmpty => Quiet
  BY UndisturbedIsQuiet DEF ReadRows, ExportRows, ExplainEmpty
<1>2. request # Nothing /\ request.step \in {"rows", "policy"} /\ request.step \notin Early
  BY DEF ReadRows, ExportRows, ExplainEmpty, ExplainByDefault, At, Early
<1>3. {"data", "csv", "outside_retention", "no_traffic"} \subseteq Reasons /\ {} \in SUBSET Flows
  BY DEF Reasons
<1>4. ASSUME ReadRows, Continue("policy")
      PROVE  RequestInv' /\ Within /\ Old
  <2>1. request \in RequestType /\ request.kind = "flows" /\ request.step = "rows"
        /\ (\A f \in request.rows : SiteOf[f] \in request.allowed)
    BY <1>2, <1>4 DEF ReadRows, At, RequestInv, Sound
  <2>2. [request EXCEPT !.step = "policy"] = [request EXCEPT !.step = "policy", !.rows = request.rows]
        /\ request.rows \in SUBSET Flows
    BY <2>1 DEF RequestType
  <2>3. Proceed([request EXCEPT !.step = "policy", !.rows = request.rows])
    BY <1>4, <2>2 DEF Continue
  <2> QED
    BY <1>1, <1>2, <1>4, <2>1, <2>2, <2>3, Continues
<1>5. ASSUME ReadRows \/ ExportRows, NEW page \in QueryFlows, NEW reason \in {"data", "csv"},
             Respond(page, {}, reason), reason = "data" => page # {}
      PROVE  RequestInv' /\ Within /\ Old
  <2>1. At("rows")
    BY <1>5 DEF ReadRows, ExportRows
  <2>2. page \in SUBSET Flows /\ \A f \in page : SiteOf[f] \in request.allowed
    BY <2>1, QueryReads
  <2> QED
    BY <1>1, <1>2, <1>3, <1>5, <2>2, RespondsAllowed
<1>6. CASE ReadRows \/ ExportRows
  BY <1>4, <1>5, <1>6 DEF ReadRows, ExportRows
<1>7. CASE ExplainEmpty \/ ExplainByDefault
  <2>1. PICK days \in {Days(policy), DEFAULT_DAYS} :
          /\ Respond({}, {}, Reason(days)) /\ Quiet
          /\ (days = DEFAULT_DAYS /\ faults' # faults) \/ days = Days(policy)
    BY <1>1, <1>7, DisturbedIsQuiet DEF ExplainEmpty, ExplainByDefault
  <2>2. request.kind = "flows" /\ Days(policy) \in request.days
    BY <1>2, <1>7 DEF ExplainEmpty, ExplainByDefault, At, RequestInv, Sound
  <2>3. Reason(days) = "outside_retention" => request.end > days
    BY DEF Reason
  <2>4. Reason(days) = "outside_retention" => Old
    BY <2>1, <2>2, <2>3 DEF Old
  <2>5. Reason(days) \in Reasons /\ Reason(days) # "data"
    BY <1>3 DEF Reason
  <2> HIDE DEF Old
  <2> QED
    BY <1>2, <1>3, <2>1, <2>4, <2>5, RespondsAllowed
<1> QED
  BY <1>6, <1>7

LEMMA AggregateKeepsInv ==
  ASSUME RequestInv,
         \/ ReadTotals \/ ReadBreakdown \/ AddStatuses
         \/ ReadTopTalkers \/ ReadFlowMap \/ ReadBuckets \/ ListStatuses
  PROVE  RequestInv' /\ Within /\ Old
<1>1. request # Nothing /\ request.step \notin Early /\ request \in RequestType
      /\ \A f \in request.rows : SiteOf[f] \in request.allowed
  BY DEF ReadTotals, ReadBreakdown, AddStatuses, ReadTopTalkers, ReadFlowMap, ReadBuckets,
         ListStatuses, At, Early, RequestInv, Sound
<1>2. Quiet
  BY UndisturbedIsQuiet, DisturbedIsQuiet
     DEF ReadTotals, ReadBreakdown, AddStatuses, ReadTopTalkers, ReadFlowMap, ReadBuckets, ListStatuses
<1>3. InRange \in SUBSET Flows /\ \A f \in InRange : SiteOf[f] \in request.allowed
  BY DEF InRange
<1>4. {"data", "no_traffic", "statuses"} \subseteq Reasons /\ request.rows \in SUBSET Flows
      /\ {} \in SUBSET Flows
  BY <1>1 DEF Reasons, RequestType
<1>5. CASE ReadTotals
  BY <1>1, <1>2, <1>3, <1>5, Continues DEF ReadTotals
<1>6. CASE ReadBreakdown
  <2>1. PICK step \in {"empty", "full"} :
          /\ Proceed([request EXCEPT !.step = step, !.rows = request.rows \cup InRange])
          /\ step = "full" => request.rows # {}
    BY <1>1, <1>6 DEF ReadBreakdown, RequestType
  <2>2. request.rows \cup InRange \in SUBSET Flows
        /\ \A f \in request.rows \cup InRange : SiteOf[f] \in request.allowed
    BY <1>1, <1>3, <1>4
  <2> QED
    BY <1>1, <1>2, <2>1, <2>2, Continues
<1>7. CASE AddStatuses
  <2>1. PICK sites \in {request.allowed, {}}, reason \in {"no_traffic", "data"} :
          Respond(request.rows, sites, reason) /\ (reason = "data" => request.rows # {})
    BY <1>7 DEF AddStatuses, At, RequestInv, Sound
  <2> QED
    BY <1>1, <1>2, <1>4, <2>1, RespondsAllowed
<1>8. CASE ReadTopTalkers \/ ReadFlowMap \/ ReadBuckets
  <2>1. PICK top \in SUBSET InRange : Respond(top, {}, DataOrNone(top))
    BY <1>8 DEF ReadTopTalkers, ReadFlowMap, ReadBuckets, Limited
  <2>2. DataOrNone(top) \in Reasons /\ (DataOrNone(top) = "data" => top # {})
        /\ DataOrNone(top) # "outside_retention"
    BY <1>4 DEF DataOrNone
  <2>3. top \in SUBSET Flows /\ \A f \in top : SiteOf[f] \in request.allowed
    BY <1>3
  <2> QED
    BY <1>1, <1>2, <2>1, <2>2, <2>3, RespondsAllowed
<1>9. CASE ListStatuses
  BY <1>1, <1>2, <1>4, <1>9, RespondsAllowed DEF ListStatuses
<1> QED
  BY <1>5, <1>6, <1>7, <1>8, <1>9

-----------------------------------------------------------------------------
(* What changes meanwhile *)

LEMMA StoreKeepsOK ==
  ASSUME StoreOK, StoreStep \/ DayPasses
  PROVE  StoreOK'
<1>1. MaxChanges \in Nat /\ MaxFaults \in Nat /\ Policies \subseteq Nat /\ Cap \in Nat
      /\ DEFAULT_DAYS \in Nat
  BY RetentionAssumption DEF DEFAULT_DAYS
<1>2. ASSUME NEW days \in Policies, UpdatePolicy(days) PROVE StoreOK'
  BY <1>1, <1>2 DEF UpdatePolicy, Change, StoreOK
<1>3. CASE ReadPolicy
  <2>1. Days(policy) \in Nat /\ Days(policy) \in Policies \cup {DEFAULT_DAYS}
    BY DaysTyped DEF StoreOK
  <2> QED
    BY <1>3, <2>1 DEF ReadPolicy, StoreOK
<1>4. CASE Alter
  BY <1>4 DEF Alter, StoreOK, Asleep
<1>5. CASE PurgeFails \/ PoolFails \/ RestartLoop
  <2>1. faults' \in 0..MaxFaults /\ UNCHANGED <<policy, ttl, flow, age, changes>>
    BY <1>1, <1>5 DEF PurgeFails, PoolFails, RestartLoop, Fault, StoreOK
  <2>2. loop' \in [step : {"starting", "asleep", "alter", "unpooled"}, days : Nat]
        /\ loop'.step # "alter"
    BY <1>5 DEF PurgeFails, PoolFails, RestartLoop, Asleep, Starting
  <2> QED
    BY <2>1, <2>2 DEF StoreOK
<1>6. ASSUME NEW f \in Flows, Store(f) \/ Purge(f) PROVE StoreOK'
  BY <1>1, <1>6 DEF Store, Purge, StoreOK
<1>7. CASE DayPasses
  <2>1. \A f \in Flows : Older(age[f]) \in 0..Cap
    BY <1>1 DEF StoreOK, Older
  <2> QED
    BY <1>1, <1>7, <2>1 DEF DayPasses, StoreOK
<1> QED
  BY <1>2, <1>3, <1>4, <1>5, <1>6, <1>7 DEF StoreStep, PurgeLoop

\* What Note() adds to the history.
LEMMA NoteTyped ==
  ASSUME NEW use \in BOOLEAN, NEW sites \in SUBSET Sites, NEW days \in Nat,
         RequestInv, request # Nothing, NEW x, x = Note(use, sites, days)
  PROVE  Sound(x, use, sites, days)
<1>1. request \in RequestType /\ Sound(request, usable, scope, Days(policy))
  BY DEF RequestInv, Sound
<1>2. CASE request.kind = Nothing
  <2> DEFINE u == request.usable \/ use
             s == request.scopes \cup {sites}
             d == request.days \cup {days}
  <2>1. x = [request EXCEPT !.usable = u, !.scopes = s, !.days = d]
    BY <1>2 DEF Note
  <2>2. u \in BOOLEAN /\ s \in SUBSET (SUBSET Sites) /\ d \in SUBSET Nat
    BY <1>1 DEF RequestType
  <2>3. (use => u) /\ (request.usable => u) /\ sites \in s /\ request.scopes \subseteq s
        /\ days \in d /\ request.days \subseteq d
    OBVIOUS
  <2> HIDE DEF u, s, d
  <2> DEFINE used == [request EXCEPT !.usable = u]
             scoped == [used EXCEPT !.scopes = s]
  <2>4. used \in RequestType /\ used.usable = u /\ used.kind = request.kind /\ used.step = request.step
        /\ used.site = request.site /\ used.start = request.start /\ used.end = request.end
        /\ used.allowed = request.allowed /\ used.rows = request.rows
    BY <1>1, <2>2 DEF RequestType
  <2>5. scoped \in RequestType /\ scoped.usable = u /\ scoped.scopes = s
        /\ scoped.kind = request.kind /\ scoped.step = request.step
        /\ scoped.site = request.site /\ scoped.start = request.start /\ scoped.end = request.end
        /\ scoped.allowed = request.allowed /\ scoped.rows = request.rows
    <3> HIDE DEF used
    <3> QED
      BY <2>2, <2>4 DEF RequestType
  <2>6. x = [scoped EXCEPT !.days = d]
    BY <2>1
  <2>7. x \in RequestType /\ x.usable = u /\ x.scopes = s /\ x.days = d
        /\ x.kind = request.kind /\ x.step = request.step
        /\ x.site = request.site /\ x.start = request.start /\ x.end = request.end
        /\ x.allowed = request.allowed /\ x.rows = request.rows
    <3> HIDE DEF scoped
    <3> QED
      BY <2>2, <2>5, <2>6 DEF RequestType
  <2> QED
    BY <1>1, <2>3, <2>7 DEF Sound
<1>3. CASE request.kind # Nothing
  <2> DEFINE d == IF request.days = {} THEN {} ELSE request.days \cup {days}
  <2>1. x = [request EXCEPT !.days = d]
    BY <1>3 DEF Note
  <2>2. d \in SUBSET Nat /\ (request.days # {} => days \in d)
    BY <1>1 DEF RequestType
  <2> HIDE DEF d
  <2>3. x \in RequestType /\ x.days = d /\ x.usable = request.usable /\ x.scopes = request.scopes
        /\ x.kind = request.kind /\ x.step = request.step
        /\ x.site = request.site /\ x.start = request.start /\ x.end = request.end
        /\ x.allowed = request.allowed /\ x.rows = request.rows
    BY <1>1, <2>1, <2>2 DEF RequestType
  <2>4. request.step \notin Early
    BY <1>1, <1>3 DEF Sound
  <2>5. request.kind \in {"flows", "report"} => days \in d
    BY <1>1, <2>2 DEF Sound
  <2> QED
    BY <1>1, <2>3, <2>4, <2>5 DEF Sound
<1> QED
  BY <1>2, <1>3

LEMMA ChangeKeepsInv ==
  ASSUME RequestInv,
         StoreChanges \/ ChangeAccess \/ \E sites \in SUBSET Sites : ChangeScope(sites)
  PROVE  RequestInv' /\ Within /\ Old
<1>1. answer' = Nothing /\ usable' \in BOOLEAN /\ scope' \subseteq Sites
  BY DEF StoreChanges, ChangeAccess, ChangeScope, RequestInv
<1>2. StoreOK'
  <2>1. CASE StoreChanges
    BY <2>1, StoreKeepsOK DEF StoreChanges, RequestInv
  <2>2. CASE ChangeAccess \/ \E sites \in SUBSET Sites : ChangeScope(sites)
    <3>1. changes' \in 0..MaxChanges
      BY <2>2, RetentionAssumption DEF ChangeAccess, ChangeScope, Change, RequestInv, StoreOK
    <3> QED
      BY <2>2, <3>1 DEF ChangeAccess, ChangeScope, RequestInv, StoreOK
  <2> QED
    BY <2>1, <2>2
<1>3. Days(policy') \in Nat
  BY <1>2, DaysTyped DEF StoreOK
<1>4. request' = Note(usable', scope', Days(policy'))
  BY DEF StoreChanges, ChangeAccess, ChangeScope
<1>5. request' # Nothing => Sound(request', usable', scope', Days(policy'))
  <2>1. request = Nothing => request' = Nothing
    BY <1>4 DEF Note
  <2> QED
    BY <1>1, <1>3, <1>4, <2>1, NoteTyped
<1>6. Days(policy)' = Days(policy')
  BY DEF Days
<1>7. RequestInv'
  BY <1>1, <1>2, <1>5, <1>6 DEF RequestInv, Told
<1> QED
  BY <1>1, <1>7 DEF Within, Old

LEMMA TickKeepsInv ==
  ASSUME RequestInv, Tick
  PROVE  RequestInv' /\ Within /\ Old
<1>1. answer' = Nothing /\ UNCHANGED <<usable, scope, policy>> /\ StoreOK'
  BY StoreKeepsOK DEF Tick, DayPasses, RequestInv
<1>2. request' # Nothing => Sound(request', usable, scope, Days(policy))
  <2>1. CASE request # Nothing /\ (At("rows") \/ At("policy"))
    <3> DEFINE started == [request EXCEPT !.start = Older(request.start)]
               r == [started EXCEPT !.end = Older(request.end)]
    <3>1. request \in RequestType /\ request.end <= request.start
      BY <2>1 DEF RequestInv, Sound
    <3>2. Older(request.start) \in 0..Cap /\ Older(request.end) \in 0..Cap
          /\ Older(request.end) <= Older(request.start)
      BY <3>1, RetentionAssumption DEF Older, RequestType
    <3>3. started \in RequestType /\ started.start = Older(request.start)
          /\ started.kind = request.kind /\ started.step = request.step
          /\ started.site = request.site
          /\ started.allowed = request.allowed /\ started.usable = request.usable
          /\ started.scopes = request.scopes /\ started.days = request.days
          /\ started.rows = request.rows
      BY <3>1, <3>2 DEF RequestType
    <3>4. r \in RequestType /\ r.start = Older(request.start) /\ r.end = Older(request.end)
          /\ r.kind = request.kind /\ r.step = request.step /\ r.site = request.site
          /\ r.allowed = request.allowed /\ r.usable = request.usable
          /\ r.scopes = request.scopes /\ r.days = request.days /\ r.rows = request.rows
      <4> HIDE DEF started
      <4> QED
        BY <3>2, <3>3 DEF RequestType
    <3>5. request' = r
      BY <2>1, <3>1 DEF Tick, RequestType
    <3> HIDE DEF r
    <3> QED
      BY <2>1, <3>2, <3>4, <3>5 DEF RequestInv, Sound
  <2>2. CASE ~(request # Nothing /\ (At("rows") \/ At("policy")))
    BY <2>2 DEF Tick, RequestInv
  <2> QED
    BY <2>1, <2>2
<1>3. RequestInv'
  BY <1>1, <1>2 DEF RequestInv, Told
<1> QED
  BY <1>1, <1>3 DEF Within, Old

-----------------------------------------------------------------------------
LEMMA InitRequest == Init => RequestInv
<1> SUFFICES ASSUME Init
             PROVE  RequestInv
  OBVIOUS
<1>1. StoreOK
  BY RetentionAssumption DEF Init, StoreInit, StoreOK, Starting
<1> QED
  BY <1>1 DEF Init, RequestInv, Told

LEMMA NextRequest ==
  ASSUME RequestInv, Next
  PROVE  RequestInv' /\ Within /\ Old
<1>1. CASE Serve
  BY <1>1, TokenKeepsInv, FailureKeepsInv, RefusalKeepsInv, LoadScopeKeepsInv, ReportKeepsInv,
     RowsKeepInv, AggregateKeepsInv DEF Serve
<1> QED
  BY <1>1, AskKeepsInv, ChangeKeepsInv, TickKeepsInv DEF Next

LEMMA StutterRequest ==
  ASSUME RequestInv, UNCHANGED vars
  PROVE  RequestInv'
BY DEF vars, storeVars, queryVars, RequestInv, StoreOK, Told, Days, Sound

LEMMA RequestHolds == Spec => []RequestInv
<1>1. RequestInv /\ [Next]_vars => RequestInv'
  BY NextRequest, StutterRequest
<1> QED
  BY <1>1, InitRequest, PTL DEF Spec

\* The type invariant of the store and of a request on its way through gateway,
\* query API and identity (flow_query.py:71-75, authz.py:20-49).
THEOREM QueryTyped == Spec => []TypeOK
<1>1. RequestInv => TypeOK
  <2> SUFFICES ASSUME RequestInv
               PROVE  TypeOK
    OBVIOUS
  <2>1. request # Nothing =>
          /\ request.kind \in Kinds \cup {Nothing} /\ request.step \in Steps
          /\ request.site \in Sites \cup {AnySite}
          /\ request.end \in 0..Cap /\ request.start \in request.end..Cap
          /\ request.page \in 1..MaxPage
          /\ request.allowed \subseteq Sites
          /\ request.site # AnySite /\ request.step \in {"insert", "rows", "policy"} =>
               request.site \in request.allowed
    BY RetentionAssumption DEF RequestInv, Sound, RequestType
  <2> QED
    BY <2>1 DEF RequestInv, StoreOK, Told, Steps, Reasons, TypeOK
<1> QED
  BY <1>1, RequestHolds, PTL

\* No answer tells of a row or a site that was not within its caller's scope at
\* one time while the request was under way, or is given to a caller whose token
\* was not usable then, whatever changes between the lookups
\* (session.py:113-150, authz.py:20-49, flow_query.py:71-75, reports.py:97-131).
THEOREM AnswersStayWithinAccess == Spec => AnswersWithinAccess
<1>1. RequestInv /\ [Next]_vars => [Within]_vars
  BY NextRequest
<1>2. RequestInv /\ [Next]_vars =>
        [answer' # Nothing =>
           /\ request.usable
           /\ \E sites \in request.scopes :
                {SiteOf[f] : f \in answer'.rows} \cup answer'.sites \subseteq sites]_vars
  BY <1>1 DEF Within
<1> QED
  BY <1>2, RequestHolds, PTL DEF Spec, AnswersWithinAccess

\* "outside_retention" is only said of a window older than the days of a policy
\* in force during the request, or than the default when identity has failed
\* (flow_query.py:114-121, retention_client.py:11-19).
THEOREM OutsideAnswersAreOld == Spec => OutsideIsOld
<1>1. RequestInv /\ [Next]_vars =>
        [answer' # Nothing /\ answer'.reason = "outside_retention" =>
           \E days \in request.days \cup (IF faults' = faults THEN {} ELSE {DEFAULT_DAYS}) :
             request.end > days]_vars
  BY NextRequest DEF Old
<1> QED
  BY <1>1, RequestHolds, PTL DEF Spec, OutsideIsOld

-----------------------------------------------------------------------------
(* Why there is no traffic *)

\* The request has found no row, or none that has bytes, and will say so or why.
FoundNone ==
  \/ request.step \in {"policy", "empty"}
  \/ request.step = "breakdown" /\ request.rows \subseteq Weightless

\* The rows that the request asks for and that have been there since it arrived.
Hidden == {f \in request.before : flow[f] = "stored" /\ Wanted(f)}

\* They have no bytes, or fit on the pages before the one that is asked for.
Excused ==
  IF request.kind = "summary" THEN Hidden \subseteq Weightless
  ELSE Cardinality(Hidden) <= Offset(request.page)

\* What has not been found need not be told.  A window that ends at Cap, before
\* every policy, is not answered with "no_traffic".
NoneHidden ==
  request # Nothing =>
    /\ \A f \in request.before : flow[f] # "none"
    /\ request.step \in {"summary", "breakdown", "empty", "full"} => request.kind = "summary"
    /\ request.step = "ranking" => request.kind = "ranking"
    /\ FoundNone => Excused \/ (request.step = "policy" /\ request.end = Cap)

\* What the action property says of a step.
Honest ==
  answer' # Nothing /\ answer'.reason = "no_traffic" /\ ~At("scope") /\ ~At("filter") => Excused

LEMMA OffsetTyped ==
  ASSUME NEW page \in 1..MaxPage
  PROVE  Offset(page) \in Nat
BY QueryAssumption DEF Offset

\* Hidden rows only get fewer: deleted or out of the window.
LEMMA FewerExcused ==
  ASSUME RequestInv, request # Nothing, Hidden' \subseteq Hidden, Excused,
         request'.kind = request.kind, request'.page = request.page
  PROVE  Excused'
<1>1. Hidden \subseteq Flows /\ request.page \in 1..MaxPage
  BY DEF RequestInv, Sound, RequestType, Hidden
<1>2. Cardinality(Hidden') <= Cardinality(Hidden) /\ IsFiniteSet(Hidden) /\ IsFiniteSet(Hidden')
  BY <1>1, QueryAssumption, FS_Subset
<1>3. Cardinality(Hidden') \in Nat /\ Cardinality(Hidden) \in Nat /\ Offset(request.page) \in Nat
  BY <1>1, <1>2, FS_CardinalityType, OffsetTyped
<1>4. Offset(request'.page) = Offset(request.page)
  OBVIOUS
<1> QED
  BY <1>2, <1>3, <1>4 DEF Excused

\* A request goes on that has not looked for rows yet.
LEMMA GoesOnHidesNone ==
  ASSUME NoneHidden, request # Nothing, flow' = flow, answer' = Nothing,
         request' # Nothing =>
           /\ request'.before \subseteq request.before
           /\ request'.step \notin {"policy", "breakdown", "empty"}
           /\ request'.step \in {"summary", "full"} => request'.kind = "summary"
           /\ request'.step = "ranking" => request'.kind = "ranking"
  PROVE  NoneHidden' /\ Honest
BY DEF NoneHidden, FoundNone, Honest

LEMMA OverHidesNone ==
  ASSUME request' = Nothing, answer' = Nothing
  PROVE  NoneHidden' /\ Honest
BY DEF NoneHidden, Honest

LEMMA BeforeKept ==
  ASSUME NEW r \in RequestType, NEW step \in Steps
  PROVE  [r EXCEPT !.step = step].before = r.before /\ [r EXCEPT !.step = step].page = r.page
BY DEF RequestType

LEMMA TokenHidesNone ==
  ASSUME RequestInv, NoneHidden, Authenticate \/ LookUpToken
  PROVE  NoneHidden' /\ Honest
<1>1. flow' = flow /\ request # Nothing
  BY DEF Authenticate, LookUpToken, Undisturbed, storeVars, At
<1>2. CASE Refuse
  BY <1>2, OverHidesNone DEF Refuse
<1>3. ASSUME NEW step \in {"service", "scope"}, Continue(step)
      PROVE  NoneHidden' /\ Honest
  <2>1. request \in RequestType /\ step \in Steps
    BY <1>1 DEF RequestInv, Sound, Steps
  <2>2. request' = [request EXCEPT !.step = step] /\ answer' = Nothing
    BY <1>3 DEF Continue, Proceed
  <2>3. request'.before = request.before /\ request'.step = step
    BY <2>1, <2>2, BeforeKept, SetStep
  <2> QED
    BY <1>1, <2>2, <2>3, GoesOnHidesNone
<1> QED
  BY <1>2, <1>3 DEF Authenticate, LookUpToken

LEMMA StartBefore ==
  ASSUME RequestInv, At("scope"), NEW kind \in Kinds
  PROVE  Start(kind).before \subseteq request.before
<1> DEFINE days == IF kind \in {"flows", "report"} THEN request.days ELSE {}
           before == IF kind \in {"save", "export", "statuses"} THEN {} ELSE request.before
<1>1. request \in RequestType
  BY DEF RequestInv, Sound, At
<1>2. Start(kind) = [request EXCEPT !.kind = kind, !.allowed = scope, !.days = days, !.before = before]
  BY DEF Start
<1>3. before \subseteq request.before
  OBVIOUS
<1> HIDE DEF days, before
<1>4. Start(kind).before = before
  BY <1>1, <1>2 DEF RequestType
<1> QED
  BY <1>3, <1>4

\* A handler starts with the rows its request found there, or without them.
LEMMA StartedHidesNone ==
  ASSUME RequestInv, NoneHidden, request # Nothing, flow' = flow, answer' = Nothing,
         NEW r \in RequestType, r.before \subseteq request.before,
         NEW step \in Steps \ {"policy", "breakdown", "empty", "full"},
         step \in {"summary", "ranking"} => r.kind = step,
         request' = [r EXCEPT !.step = step]
  PROVE  NoneHidden' /\ Honest
<1>1. request'.before = r.before /\ request'.step = step /\ request'.kind = r.kind
  BY BeforeKept, SetStep
<1> QED
  BY <1>1, GoesOnHidesNone

LEMMA AdmitHidesNone ==
  ASSUME RequestInv, NoneHidden, At("scope") \/ At("filter"), flow' = flow,
         NEW r \in RequestType, r.before \subseteq request.before,
         NEW step \in {"rows", "insert"}, Admit(r, step)
  PROVE  NoneHidden' /\ Honest
<1>1. CASE Proceed([r EXCEPT !.step = step])
  <2>1. step \in Steps \ {"policy", "breakdown", "empty", "full"} /\ request # Nothing
    BY DEF Steps, At
  <2> QED
    BY <1>1, <2>1, StartedHidesNone DEF Proceed
<1>2. CASE request' = Nothing
  BY <1>2 DEF NoneHidden, Honest
<1> QED
  BY <1>1, <1>2 DEF Admit, Refuse, Respond

LEMMA LoadScopeHidesNone ==
  ASSUME RequestInv, NoneHidden, LoadScope
  PROVE  NoneHidden' /\ Honest
<1>1. At("scope") /\ flow' = flow /\ request # Nothing
  BY DEF LoadScope, Undisturbed, storeVars, At
<1>2. \A kind \in Kinds :
        Start(kind) \in RequestType /\ Start(kind).kind = kind /\ Start(kind).before \subseteq request.before
  BY <1>1, StartTyped, StartBefore
<1>3. ASSUME NEW site \in Sites \cup {AnySite}, NEW window \in Windows, NEW page \in 1..MaxPage,
             Admit([Filter(Start("flows"), site, window) EXCEPT !.page = page], "rows")
      PROVE  NoneHidden' /\ Honest
  <2> DEFINE unpaged == Filter(Start("flows"), site, window)
             r == [unpaged EXCEPT !.page = page]
  <2>1. Start("flows") \in RequestType /\ Start("flows").before \subseteq request.before
    BY <1>2 DEF Kinds
  <2>2. r \in RequestType /\ r.before = Start("flows").before
    <3>1. unpaged \in RequestType /\ unpaged.before = Start("flows").before
      BY <2>1, FilterTyped DEF Filter, RequestType
    <3> HIDE DEF unpaged
    <3> QED
      BY <3>1, PageTyped
  <2> HIDE DEF r
  <2> QED
    BY <1>1, <1>3, <2>1, <2>2, AdmitHidesNone DEF r
<1>4. ASSUME NEW site \in Sites \cup {AnySite}, Admit([Start("save") EXCEPT !.site = site], "insert")
      PROVE  NoneHidden' /\ Honest
  <2> DEFINE r == [Start("save") EXCEPT !.site = site]
  <2>1. Start("save") \in RequestType /\ Start("save").before \subseteq request.before
    BY <1>2 DEF Kinds
  <2>2. r \in RequestType /\ r.before = Start("save").before
    BY <2>1 DEF RequestType
  <2> HIDE DEF r
  <2> QED
    BY <1>1, <1>4, <2>1, <2>2, AdmitHidesNone DEF r
<1>5. ASSUME NEW kind \in {"report", "export", "statuses"}, NEW step \in {"filter", "statuses"},
             Proceed([Start(kind) EXCEPT !.step = step])
      PROVE  NoneHidden' /\ Honest
  <2>1. Start(kind) \in RequestType /\ Start(kind).before \subseteq request.before
        /\ step \in Steps \ {"policy", "breakdown", "empty", "full", "summary", "ranking"}
    BY <1>2 DEF Kinds, Steps
  <2> QED
    BY <1>1, <1>5, <2>1, StartedHidesNone DEF Proceed
<1>6. ASSUME NEW kind \in {"summary", "ranking"}, NEW sites \in SUBSET Sites,
             Proceed([Start(kind) EXCEPT !.step = kind, !.allowed = FilterSites(sites)])
      PROVE  NoneHidden' /\ Honest
  <2> DEFINE r == [Start(kind) EXCEPT !.allowed = FilterSites(sites)]
  <2>1. Start(kind) \in RequestType /\ Start(kind).before \subseteq request.before
        /\ Start(kind).kind = kind /\ kind \in Steps \ {"policy", "breakdown", "empty", "full"}
    BY <1>2 DEF Kinds, Steps
  <2>2. FilterSites(sites) \in SUBSET Sites
    BY DEF FilterSites
  <2>3. r \in RequestType /\ r.before = Start(kind).before /\ r.kind = kind
    <3> HIDE DEF FilterSites
    <3> QED
      BY <2>1, <2>2 DEF RequestType
  <2>4. request' = [r EXCEPT !.step = kind] /\ answer' = Nothing
    BY <1>6, <2>1 DEF Proceed, RequestType
  <2> HIDE DEF r
  <2> QED
    BY <1>1, <2>1, <2>3, <2>4, StartedHidesNone
<1> QED
  BY <1>3, <1>4, <1>5, <1>6 DEF LoadScope

LEMMA LoadFilterHidesNone ==
  ASSUME RequestInv, NoneHidden, NEW site \in Sites \cup {AnySite}, NEW window \in Windows,
         LoadFilter(site, window)
  PROVE  NoneHidden' /\ Honest
<1> DEFINE r == Opened(site, window)
<1>1. At("filter") /\ flow' = flow /\ request \in RequestType
  BY DEF LoadFilter, Undisturbed, storeVars, At, RequestInv, Sound
<1>2. r \in RequestType
  BY <1>1, OpenedTyped
<1>3. r.before = request.before
  <2> DEFINE f == Filter(request, site, window)
             kind == IF f.kind = "export" THEN f.kind ELSE "flows"
  <2>1. f \in RequestType /\ f.before = request.before
    BY <1>1, FilterTyped DEF Filter, RequestType
  <2>2. r = [f EXCEPT !.kind = kind]
    BY DEF Opened
  <2> HIDE DEF f, kind
  <2> QED
    BY <2>1, <2>2 DEF RequestType
<1>4. Admit(r, "rows")
  BY DEF LoadFilter
<1> HIDE DEF r
<1> QED
  BY <1>1, <1>2, <1>3, <1>4, AdmitHidesNone

\* Only the step and the rows of a request are set.
LEMMA SetRows ==
  ASSUME NEW r \in RequestType, NEW step \in Steps, NEW rows \in SUBSET Flows
  PROVE  LET n == [r EXCEPT !.step = step, !.rows = rows]
         IN /\ n.step = step /\ n.rows = rows /\ n.kind = r.kind /\ n.site = r.site
            /\ n.start = r.start /\ n.end = r.end /\ n.allowed = r.allowed /\ n.before = r.before
            /\ n.page = r.page
BY DEF RequestType

\* An empty page of the rows of a window: the pages before it hold all of them.
LEMMA EmptyPageExcused ==
  ASSUME RequestInv, request # Nothing, request.kind = "flows", {} \in QueryFlows
  PROVE  Excused
<1>1. request \in RequestType /\ request.before \subseteq Flows /\ request.page \in 1..MaxPage
  BY DEF RequestInv, Sound, RequestType
<1>2. Hidden \subseteq Matching /\ Matching \subseteq Flows
  BY <1>1 DEF Hidden, Wanted, Matching, InWindow
<1>3. PICK skipped \in Newest(Offset(request.page), Matching) : {} \in Newest(PAGE_SIZE, Matching \ skipped)
  BY DEF QueryFlows
<1>4. skipped \subseteq Matching /\ Cardinality(skipped) <= Offset(request.page)
  BY <1>3 DEF Newest
<1>5. Matching \ skipped = {}
  <2>1. Matching \ skipped # {} => Cardinality({}) = PAGE_SIZE
    BY <1>3 DEF Newest
  <2>2. Cardinality({}) # PAGE_SIZE
    BY FS_EmptySet, QueryAssumption
  <2> QED
    BY <2>1, <2>2
<1>6. Hidden \subseteq skipped /\ IsFiniteSet(skipped)
  BY <1>2, <1>4, <1>5, QueryAssumption, FS_Subset
<1>7. Cardinality(Hidden) <= Cardinality(skipped) /\ IsFiniteSet(Hidden)
  BY <1>6, FS_Subset
<1>8. Cardinality(Hidden) \in Nat /\ Cardinality(skipped) \in Nat /\ Offset(request.page) \in Nat
  BY <1>1, <1>6, <1>7, FS_CardinalityType, OffsetTyped
<1> QED
  BY <1>4, <1>7, <1>8 DEF Excused

LEMMA RangeFindsWanted ==
  ASSUME request.kind \in {"summary", "ranking"}, NEW f \in Flows, flow[f] = "stored", Wanted(f)
  PROVE  f \in InRange
BY DEF Wanted, InRange

LEMMA PolicyIsShort ==
  ASSUME RequestInv
  PROVE  Days(policy) \in Nat /\ Days(policy) < Cap /\ DEFAULT_DAYS \in Nat /\ DEFAULT_DAYS < Cap
BY RetentionAssumption DEF RequestInv, StoreOK, Days, DEFAULT_DAYS

LEMMA RowsHideNone ==
  ASSUME RequestInv, NoneHidden, ReadRows \/ ExportRows \/ ExplainEmpty \/ ExplainByDefault
  PROVE  NoneHidden' /\ Honest
<1>1. /\ request # Nothing /\ request \in RequestType /\ flow' = flow /\ age' = age
      /\ request.before \subseteq Flows
  BY DEF ReadRows, ExportRows, ExplainEmpty, ExplainByDefault, At, RequestInv, Sound, Undisturbed,
     Disturbed, storeVars, RequestType
<1>2. ASSUME ReadRows, {} \in QueryFlows, Continue("policy")
      PROVE  NoneHidden' /\ Honest
  <2>1. request' = [request EXCEPT !.step = "policy"] /\ answer' = Nothing /\ request.kind = "flows"
        /\ request.step = "rows" /\ "policy" \in Steps
    BY <1>2 DEF ReadRows, Continue, Proceed, At, Steps
  <2>2. Excused
    BY <1>1, <1>2, <2>1, EmptyPageExcused
  <2>3. /\ request'.step = "policy" /\ request'.before = request.before /\ request'.kind = request.kind
        /\ request'.site = request.site /\ request'.allowed = request.allowed
        /\ request'.start = request.start /\ request'.end = request.end
        /\ request'.page = request.page
    BY <1>1, <2>1, BeforeKept, SetStep
  <2>4. Hidden' \subseteq Hidden
    BY <1>1, <2>3 DEF Hidden, Wanted
  <2>5. Excused'
    BY <1>1, <2>2, <2>3, <2>4, FewerExcused
  <2> QED
    BY <1>1, <2>1, <2>3, <2>5 DEF NoneHidden, Honest
<1>3. ASSUME NEW page, NEW reason \in {"data", "csv"}, Respond(page, {}, reason)
      PROVE  NoneHidden' /\ Honest
  BY <1>3 DEF Respond, NoneHidden, Honest
<1>4. ASSUME NEW days \in Nat, days < Cap, At("policy"), Respond({}, {}, Reason(days))
      PROVE  NoneHidden' /\ Honest
  <2>1. request' = Nothing /\ answer'.reason = Reason(days)
    BY <1>4 DEF Respond
  <2>2. Reason(days) = "no_traffic" => request.end # Cap
    BY <1>1, <1>4, RetentionAssumption DEF Reason, RequestType
  <2>3. request.step = "policy" /\ FoundNone
    BY <1>4 DEF At, FoundNone
  <2> QED
    BY <1>1, <2>1, <2>2, <2>3 DEF NoneHidden, Honest
<1>5. CASE ExplainEmpty
  BY <1>4, <1>5, PolicyIsShort DEF ExplainEmpty
<1>6. CASE ExplainByDefault
  BY <1>4, <1>6, PolicyIsShort DEF ExplainByDefault
<1>7. CASE ReadRows \/ ExportRows
  BY <1>2, <1>3, <1>7 DEF ReadRows, ExportRows
<1> QED
  BY <1>5, <1>6, <1>7

LEMMA TotalsHideNone ==
  ASSUME RequestInv, NoneHidden, ReadTotals \/ ReadBreakdown
  PROVE  NoneHidden' /\ Honest
<1>1. /\ request # Nothing /\ request \in RequestType /\ flow' = flow /\ age' = age
      /\ request.before \subseteq Flows /\ request.kind = "summary"
  BY DEF ReadTotals, ReadBreakdown, At, RequestInv, Sound, Undisturbed, storeVars, RequestType, NoneHidden
<1>2. InRange \in SUBSET Flows /\ request.rows \in SUBSET Flows
  BY <1>1 DEF InRange, RequestType
<1>3. ASSUME NEW step \in {"breakdown", "empty", "full"}, NEW rows \in SUBSET Flows,
             request' = [request EXCEPT !.step = step, !.rows = rows], answer' = Nothing,
             step = "empty" \/ (step = "breakdown" /\ rows \subseteq Weightless) => Excused
      PROVE  NoneHidden' /\ Honest
  <2>1. step \in Steps
    BY DEF Steps
  <2>2. /\ request'.step = step /\ request'.rows = rows /\ request'.before = request.before
        /\ request'.kind = "summary" /\ request'.site = request.site
        /\ request'.allowed = request.allowed /\ request'.page = request.page
    BY <1>1, <1>3, <2>1, SetRows
  <2>3. Hidden' \subseteq Hidden
    BY <1>1, <2>2 DEF Hidden, Wanted
  <2>4. Excused => Excused'
    BY <1>1, <2>2, <2>3, FewerExcused
  <2> QED
    BY <1>1, <1>3, <2>2, <2>4 DEF NoneHidden, Honest, FoundNone
<1>4. CASE ReadTotals
  <2>1. request' = [request EXCEPT !.step = "breakdown", !.rows = InRange] /\ answer' = Nothing
    BY <1>4 DEF ReadTotals, Proceed
  <2>2. Hidden \subseteq InRange
    BY <1>1, RangeFindsWanted DEF Hidden
  <2>3. InRange \subseteq Weightless => Excused
    BY <1>1, <2>2 DEF Excused
  <2> QED
    BY <1>2, <1>3, <2>1, <2>3
<1>5. CASE ReadBreakdown
  <2> DEFINE step == IF request.rows \subseteq Weightless THEN "empty" ELSE "full"
             rows == request.rows \cup InRange
  <2>1. request' = [request EXCEPT !.step = step, !.rows = rows] /\ answer' = Nothing
    BY <1>5 DEF ReadBreakdown, Proceed
  <2>2. step = "empty" => Excused
    BY <1>1, <1>5 DEF ReadBreakdown, At, NoneHidden, FoundNone
  <2>3. step \in {"empty", "full"} /\ rows \in SUBSET Flows
    BY <1>2
  <2> HIDE DEF step, rows
  <2> QED
    BY <1>3, <2>1, <2>2, <2>3
<1> QED
  BY <1>4, <1>5

LEMMA AggregateHidesNone ==
  ASSUME RequestInv, NoneHidden,
         AddStatuses \/ ReadTopTalkers \/ ReadFlowMap \/ ReadBuckets \/ ListStatuses \/ SaveReport
  PROVE  NoneHidden' /\ Honest
<1>1. request # Nothing /\ request \in RequestType /\ request.before \subseteq Flows
  BY DEF AddStatuses, ReadTopTalkers, ReadFlowMap, ReadBuckets, ListStatuses, SaveReport, At,
     RequestInv, Sound, RequestType
<1>2. CASE AddStatuses
  <2>1. request' = Nothing /\ answer'.reason = IF At("empty") THEN "no_traffic" ELSE "data"
    BY <1>2 DEF AddStatuses, Respond
  <2>2. At("empty") => FoundNone /\ request.step # "policy"
    BY DEF At, FoundNone
  <2> QED
    BY <1>1, <2>1, <2>2 DEF NoneHidden, Honest
<1>3. CASE ReadTopTalkers \/ ReadFlowMap \/ ReadBuckets
  <2>1. PICK top \in SUBSET InRange : (InRange # {} => top # {}) /\ Respond(top, {}, DataOrNone(top))
    BY <1>3 DEF ReadTopTalkers, ReadFlowMap, ReadBuckets, Limited
  <2>2. request' = Nothing /\ answer'.reason = "no_traffic" => InRange = {}
    BY <2>1 DEF Respond, DataOrNone
  <2>3. request' = Nothing
    BY <2>1 DEF Respond
  <2>4. request.kind = "ranking"
    BY <1>3 DEF ReadTopTalkers, ReadFlowMap, ReadBuckets, At, NoneHidden
  <2>5. InRange = {} => Excused
    <3>1. InRange = {} => Hidden = {}
      BY <1>1, <2>4, RangeFindsWanted DEF Hidden
    <3>2. Offset(request.page) \in Nat
      BY <1>1, OffsetTyped DEF RequestType
    <3> QED
      BY <2>4, <3>1, <3>2, FS_EmptySet DEF Excused
  <2> QED
    BY <2>2, <2>3, <2>5 DEF NoneHidden, Honest
<1>4. CASE ListStatuses \/ SaveReport
  <2>1. request' = Nothing /\ answer'.reason \in {"statuses", "saved"}
    BY <1>4 DEF ListStatuses, SaveReport, Respond
  <2> QED
    BY <2>1 DEF NoneHidden, Honest
<1> QED
  BY <1>2, <1>3, <1>4

\* What changes meanwhile neither brings back a row nor makes one younger.
LEMMA NoteHidesNone ==
  ASSUME RequestInv, NoneHidden, StoreChanges \/ ChangeAccess \/ \E sites \in SUBSET Sites : ChangeScope(sites)
  PROVE  NoneHidden' /\ Honest
<1>1. answer' = Nothing /\ \E use, sites, days : request' = Note(use, sites, days)
  BY DEF StoreChanges, ChangeAccess, ChangeScope
<1> DEFINE Ages(f) ==
      /\ flow[f] # "none" => flow'[f] # "none"
      /\ flow[f] # "none" /\ flow'[f] = "stored" => flow[f] = "stored" /\ age'[f] = age[f]
<1>2. \A f \in Flows : Ages(f)
  <2>1. CASE UNCHANGED <<flow, age>>
    BY <2>1
  <2>2. ASSUME NEW g \in Flows, Store(g) \/ Purge(g)
        PROVE  \A f \in Flows : Ages(f)
    BY <2>2 DEF Store, Purge, RequestInv, StoreOK
  <2> QED
    BY <2>1, <2>2 DEF StoreChanges, ChangeAccess, ChangeScope, StoreStep, PurgeLoop, UpdatePolicy,
       ReadPolicy, Alter, PurgeFails, PoolFails, RestartLoop
<1>3. CASE request = Nothing
  <2>1. request' = Nothing
    BY <1>1, <1>3 DEF Note
  <2> QED
    BY <1>1, <2>1, OverHidesNone
<1>4. CASE request # Nothing
  <2>1. request \in RequestType /\ request.before \subseteq Flows
    BY <1>4 DEF RequestInv, Sound, RequestType
  <2>2. PICK u, s, d : \/ request' = [request EXCEPT !.usable = u, !.scopes = s, !.days = d]
                      \/ request' = [request EXCEPT !.days = d]
    <3>1. PICK use, sites, days : request' = Note(use, sites, days)
      BY <1>1
    <3>2. CASE request.kind = Nothing
      BY <1>4, <3>1, <3>2 DEF Note
    <3>3. CASE request.kind # Nothing
      <4>1. request' = [request EXCEPT !.days = IF request.days = {} THEN {} ELSE request.days \cup {days}]
        BY <1>4, <3>1, <3>3 DEF Note
      <4> QED
        BY <4>1
    <3> QED
      BY <3>2, <3>3
  <2>3. /\ request'.step = request.step /\ request'.kind = request.kind /\ request'.site = request.site
        /\ request'.start = request.start /\ request'.end = request.end /\ request'.rows = request.rows
        /\ request'.allowed = request.allowed /\ request'.before = request.before
        /\ request'.page = request.page
    BY <2>1, <2>2 DEF RequestType
  <2>4. FoundNone' <=> FoundNone
    BY <2>3 DEF FoundNone
  <2>5. \A f \in request.before : flow[f] # "none"
    BY <1>4 DEF NoneHidden
  <2>6. Hidden' \subseteq Hidden
    BY <1>2, <2>1, <2>3, <2>5 DEF Hidden, Wanted
  <2>7. NoneHidden'
    <3>1. \A f \in request.before : flow'[f] # "none"
      BY <1>2, <2>1, <2>5
    <3>2. /\ request.step \in {"summary", "breakdown", "empty", "full"} => request.kind = "summary"
          /\ request.step = "ranking" => request.kind = "ranking"
      BY <1>4 DEF NoneHidden
    <3>3. FoundNone' => Excused' \/ (request.step = "policy" /\ request.end = Cap)
      BY <1>4, <2>3, <2>4, <2>6, FewerExcused DEF NoneHidden
    <3> QED
      BY <2>3, <3>1, <3>2, <3>3 DEF NoneHidden
  <2> QED
    BY <1>1, <2>7 DEF Honest
<1> QED
  BY <1>3, <1>4

\* A row outside of a window stays outside when both become a day older, as long
\* as the window has not come to where ages stop.
LEMMA WindowAges ==
  ASSUME NEW start \in 0..Cap, NEW end \in 0..Cap, NEW a \in 0..Cap, start + 1 # Cap,
         Older(end) <= Older(a), Older(a) <= Older(start), Older(end) # Cap
  PROVE  end <= a /\ a <= start
BY RetentionAssumption DEF Older

LEMMA TickHidesNone ==
  ASSUME RequestInv, NoneHidden, Tick
  PROVE  NoneHidden' /\ Honest
<1>1. answer' = Nothing /\ flow' = flow
  BY DEF Tick, DayPasses
<1>2. \A f \in Flows : flow[f] = "stored" => age'[f] = Older(age[f]) /\ age[f] \in 0..Cap
  BY DEF Tick, DayPasses, RequestInv, StoreOK
<1>3. CASE request = Nothing
  BY <1>1, <1>3, OverHidesNone DEF Tick
<1>4. CASE request # Nothing
  <2>1. request \in RequestType /\ request.before \subseteq Flows
    BY <1>4 DEF RequestInv, Sound, RequestType
  <2>2. CASE request.step \in {"rows", "policy"}
    <3> DEFINE started == [request EXCEPT !.start = Older(request.start)]
    <3>1. request' = [started EXCEPT !.end = Older(request.end)] /\ request.start + 1 # Cap
      BY <1>4, <2>1, <2>2 DEF Tick, At, RequestType
    <3>2. Older(request.start) \in 0..Cap /\ Older(request.end) \in 0..Cap
      BY <2>1, RetentionAssumption DEF Older, RequestType
    <3>3. /\ started \in RequestType /\ started.start = Older(request.start)
          /\ started.step = request.step /\ started.kind = request.kind /\ started.site = request.site
          /\ started.allowed = request.allowed /\ started.before = request.before
          /\ started.page = request.page
      BY <2>1, <3>2 DEF RequestType
    <3>4. /\ request'.start = Older(request.start) /\ request'.end = Older(request.end)
          /\ request'.step = request.step /\ request'.kind = request.kind /\ request'.site = request.site
          /\ request'.allowed = request.allowed /\ request'.before = request.before
          /\ request'.page = request.page
      <4> HIDE DEF started
      <4> QED
        BY <3>1, <3>2, <3>3 DEF RequestType
    <3>5. request.kind \notin {"summary", "ranking"} \/ request.step = "rows"
      BY <1>4, <2>2 DEF RequestInv, Sound
    <3>6. ASSUME request.step = "policy", request'.end # Cap
          PROVE  Excused'
      <4>1. ASSUME NEW f \in Hidden'
            PROVE  f \in Hidden
        <5>1. f \in request.before /\ flow'[f] = "stored" /\ Wanted(f)'
          BY <3>4, <4>1 DEF Hidden
        <5>2. age'[f] = Older(age[f]) /\ age[f] \in 0..Cap /\ flow[f] = "stored"
          BY <1>1, <1>2, <2>1, <5>1
        <5>3. request'.end <= age'[f] /\ age'[f] <= request'.start
          BY <3>4, <3>5, <3>6, <5>1 DEF Wanted
        <5>4. request.end <= age[f] /\ age[f] <= request.start
          BY <2>1, <3>1, <3>4, <3>6, <5>2, <5>3, WindowAges DEF RequestType
        <5> QED
          BY <3>4, <3>5, <3>6, <5>1, <5>2, <5>4 DEF Hidden, Wanted
      <4>2. request.end # Cap
        BY <3>4, <3>6, RetentionAssumption DEF Older
      <4>3. Excused
        BY <1>4, <3>6, <4>2 DEF NoneHidden, FoundNone
      <4> QED
        BY <1>4, <3>4, <4>1, <4>3, FewerExcused
    <3> QED
      BY <1>1, <1>4, <2>2, <3>4, <3>6 DEF NoneHidden, Honest, FoundNone
  <2>3. CASE request.step \notin {"rows", "policy"}
    <3>1. request' = request
      BY <2>3 DEF Tick, At
    <3>2. ASSUME FoundNone
          PROVE  Excused'
      <4>1. request.kind = "summary" /\ Excused
        BY <1>4, <2>3, <3>2 DEF FoundNone, NoneHidden
      <4>2. ASSUME NEW f \in Hidden'
            PROVE  f \in Hidden
        <5>1. f \in request.before /\ flow'[f] = "stored" /\ Wanted(f)'
          BY <3>1, <4>2 DEF Hidden
        <5>2. age'[f] < MAX_RANGE /\ age'[f] = Older(age[f]) /\ age[f] \in 0..Cap /\ flow[f] = "stored"
          BY <1>1, <1>2, <2>1, <3>1, <4>1, <5>1 DEF Wanted
        <5>3. age[f] < MAX_RANGE
          BY <5>2, RetentionAssumption DEF Older, MAX_RANGE, DEFAULT_DAYS
        <5> QED
          BY <3>1, <4>1, <5>1, <5>2, <5>3 DEF Hidden, Wanted
      <4> QED
        BY <1>4, <3>1, <4>1, <4>2, FewerExcused
    <3> QED
      BY <1>1, <1>4, <3>1, <3>2 DEF NoneHidden, Honest, FoundNone
  <2> QED
    BY <2>2, <2>3
<1> QED
  BY <1>3, <1>4

LEMMA NextHidesNone ==
  ASSUME RequestInv, NoneHidden, [Next]_vars
  PROVE  NoneHidden' /\ (Honest \/ UNCHANGED vars)
<1>1. CASE Ask
  <2> DEFINE stored == {f \in Flows : flow[f] = "stored"}
  <2>1. /\ answer' = Nothing /\ flow' = flow /\ request'.before = stored /\ request'.step = "gateway"
    BY <1>1 DEF Ask, Proceed, Undisturbed, storeVars
  <2>2. \A f \in stored : flow'[f] # "none"
    BY <2>1
  <2> HIDE DEF stored
  <2> QED
    BY <2>1, <2>2 DEF NoneHidden, Honest, FoundNone
<1>2. CASE LookUpFails \/ ProxyFails \/ QueryFails \/ ListStatusesFails \/ FilterMissing \/ Unsupported
  BY <1>2, OverHidesNone DEF LookUpFails, ProxyFails, QueryFails, ListStatusesFails, FilterMissing,
     Unsupported, Refuse
<1>3. CASE Serve
  BY <1>2, <1>3, TokenHidesNone, LoadScopeHidesNone, LoadFilterHidesNone, RowsHideNone, TotalsHideNone,
     AggregateHidesNone DEF Serve
<1>4. CASE UNCHANGED vars
  BY <1>4 DEF vars, storeVars, queryVars, NoneHidden, FoundNone, Excused, Hidden, Wanted
<1> QED
  BY <1>1, <1>3, <1>4, NoteHidesNone, TickHidesNone DEF Next

LEMMA NoneHiddenHolds == Spec => []NoneHidden
<1>1. Init => NoneHidden
  BY DEF Init, NoneHidden
<1>2. RequestInv /\ NoneHidden /\ [Next]_vars => NoneHidden'
  BY NextHidesNone
<1> QED
  BY <1>1, <1>2, RequestHolds, PTL DEF Spec

\* What "no_traffic" keeps back of the rows that were there as the request arrived,
\* are left, are asked for and may be seen by the caller: of a ranking and of the
\* first page of flow records nothing, of a later page no more than fit on the
\* pages before it, of a summary rows of zero bytes only.  This holds for any rows
\* stored, deleted and ageing, any page size and any changes of policy and access
\* between the reads (flow_query.py:61-99, flows.py:40-48, summary.py:39-75,
\* top_talkers.py:26-36).
THEOREM NoTrafficMeansNone == Spec => NoTrafficIsTrue
<1>1. RequestInv /\ NoneHidden /\ [Next]_vars => [Honest]_vars
  BY NextHidesNone
<1>2. RequestInv /\ NoneHidden /\ [Next]_vars =>
        [answer' # Nothing /\ answer'.reason = "no_traffic" /\ ~At("scope") /\ ~At("filter") =>
           LET hidden == {f \in request.before : flow[f] = "stored" /\ Wanted(f)}
           IN IF request.kind = "summary" THEN hidden \subseteq Weightless
              ELSE Cardinality(hidden) <= (request.page - 1) * PAGE_SIZE]_vars
  BY <1>1 DEF Honest, Excused, Hidden, Offset
<1> QED
  BY <1>2, RequestHolds, NoneHiddenHolds, PTL DEF Spec, NoTrafficIsTrue
=============================================================================
