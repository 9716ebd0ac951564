--------------------------- MODULE IdentityProofs ---------------------------
(***************************************************************************)
(* Proofs, for any users, sites and credentials and any number of requests *)
(* at a time, that nothing outlives what it refers to, that an update of   *)
(* assignments which does not overlap another replaces them, and that      *)
(* nothing else widens what a user may see.                                *)
(***************************************************************************)
EXTENDS Identity, TLAPS

RequestType ==
  [step : {"free", "run", "grant", "snapshot", "delete", "insert", "commit", "audit", "session"},
   by : Users \cup {NoUser}, user : Users \cup {NoUser},
   seen : SUBSET Row, doomed : SUBSET Row, fresh : SUBSET Row, alone : BOOLEAN]

\* The steps of a request that is changing the assignments of its user.
UpdateSteps == {"grant", "snapshot", "delete", "insert", "commit"}

Updates(r) == request[r].step \in UpdateSteps

\* A request under way has a caller, and its transaction is about rows of one user.
Proper(x) ==
  /\ x.step # "free" => x.by \in Users
  /\ x.step \notin UpdateSteps => x.seen = {} /\ x.doomed = {}
  /\ x.fresh # {} => x.step = "commit"
  /\ \A g \in x.seen \cup x.doomed \cup x.fresh : g.user = x.user

\* The rows a transaction has inserted keep what they refer to: others wait.
FreshLive ==
  \A r \in Requests :
    /\ Proper(request[r])
    /\ \A g \in request[r].fresh : Exists(g.user) /\ Present(g.site)

UpdatesKnown ==
  \A r \in Requests : Updates(r) => request[r].user \in Users /\ users[request[r].user] # "unused"

\* A request that is alone is the only one that changes its user's assignments,
AloneIsAlone ==
  \A r, q \in Requests :
    Updates(r) /\ Updates(q) /\ request[r].user = request[q].user /\ request[r].alone => q = r

\* and so all of them are among the rows that it will have deleted.
Covered ==
  \A r \in Requests :
    request[r].alone =>
      /\ request[r].step = "grant" => GrantsOf(request[r].user) = {}
      /\ request[r].step = "delete" => GrantsOf(request[r].user) \subseteq request[r].seen
      /\ request[r].step \in {"insert", "commit"} => GrantsOf(request[r].user) \subseteq request[r].doomed

RequestsInv == FreshLive /\ UpdatesKnown /\ AloneIsAlone /\ Covered

LatestKnown ==
  \A u \in Users :
    /\ \A s \in latest[u] : s = AllSites \/ sites[s] # "unused"
    /\ users[u] = "unused" => latest[u] = {}

RowsLive ==
  /\ \A c \in Credentials : credentials[c].kind # "unused" => credentials[c].user \in Users
  /\ \A g \in grants : Exists(g.user) /\ Present(g.site)
  /\ \A c \in Credentials : credentials[c].kind # "unused" => Exists(credentials[c].user)
  /\ \A u \in Referenced \cap Users : Exists(u)

TablesInv == RowsLive /\ LatestKnown /\ ReplacedUnlessMixed

IInv == TypeOK /\ RequestsInv /\ TablesInv

-----------------------------------------------------------------------------
LEMMA Requested ==
  ASSUME TypeOK
  PROVE  request \in [Requests -> RequestType]
BY DEF TypeOK, RequestType

LEMMA IdleTyped ==
  /\ Idle \in RequestType /\ Idle.step = "free" /\ Idle.fresh = {} /\ Idle.by = NoUser
  /\ Idle.seen = {} /\ Idle.doomed = {} /\ Idle.alone = TRUE
BY DEF Idle, RequestType

LEMMA AuditTyped ==
  ASSUME NEW by \in Users \cup {NoUser}
  PROVE  LET x == [Idle EXCEPT !.step = "audit", !.by = by]
         IN /\ x \in RequestType /\ x.step = "audit" /\ x.fresh = {} /\ x.by = by
            /\ x.seen = {} /\ x.doomed = {}
BY DEF Idle, RequestType

\* Only request r changes, and it changes no assignments from then on.
LEMMA LeavesUpdate ==
  ASSUME TypeOK, RequestsInv, NEW r \in Requests, NEW x \in RequestType,
         request' = [request EXCEPT ![r] = x], x.step \notin UpdateSteps, x.fresh = {}, Proper(x),
         \A u \in Users : users[u] # "unused" => users'[u] # "unused",
         \A q \in Requests \ {r} : \A g \in request[q].fresh : Exists(g.user)' /\ Present(g.site)',
         \A q \in Requests \ {r}, u \in Users :
           Updates(q) /\ request[q].alone /\ request[q].user = u => GrantsOf(u)' \subseteq GrantsOf(u)
  PROVE  RequestsInv' /\ request' \in [Requests -> RequestType]
<1>1. request \in [Requests -> RequestType]
  BY Requested
<1>2. request'[r] = x /\ \A q \in Requests \ {r} : request'[q] = request[q]
  BY <1>1
<1>3. \A q \in Requests : Updates(q)' => q # r /\ Updates(q)
  BY <1>2 DEF Updates
<1>4. FreshLive'
  <2> SUFFICES ASSUME NEW q \in Requests
               PROVE  /\ Proper(request'[q])
                      /\ \A g \in request'[q].fresh : Exists(g.user)' /\ Present(g.site)'
    BY DEF FreshLive, Exists, Present, Proper
  <2> QED
    BY <1>2 DEF RequestsInv, FreshLive
<1>5. UpdatesKnown'
  BY <1>2, <1>3 DEF RequestsInv, UpdatesKnown
<1>6. AloneIsAlone'
  BY <1>2, <1>3 DEF RequestsInv, AloneIsAlone
<1>7. Covered'
  <2>1. ASSUME NEW q \in Requests, q # r, request'[q].alone
        PROVE  /\ request'[q].step = "grant" => {g \in grants' : g.user = request'[q].user} = {}
               /\ request'[q].step = "delete" =>
                    {g \in grants' : g.user = request'[q].user} \subseteq request'[q].seen
               /\ request'[q].step \in {"insert", "commit"} =>
                    {g \in grants' : g.user = request'[q].user} \subseteq request'[q].doomed
    <3>1. request'[q] = request[q]
      BY <1>2, <2>1
    <3>2. Updates(q) => request[q].user \in Users
      BY DEF RequestsInv, UpdatesKnown
    <3>3. Updates(q) => {g \in grants' : g.user = request[q].user} \subseteq GrantsOf(request[q].user)
      BY <2>1, <3>1, <3>2 DEF GrantsOf
    <3> QED
      BY <2>1, <3>1, <3>3 DEF RequestsInv, Covered, Updates, UpdateSteps
  <2>2. request'[r].step \notin {"grant", "delete", "insert", "commit"}
    BY <1>2 DEF UpdateSteps
  <2> QED
    BY <2>1, <2>2 DEF Covered, GrantsOf
<1> QED
  BY <1>1, <1>4, <1>5, <1>6, <1>7 DEF RequestsInv

\* The tables that an update's rows refer to stay.
LEMMA LeavesQuietly ==
  ASSUME TypeOK, RequestsInv, NEW r \in Requests, NEW x \in RequestType,
         request' = [request EXCEPT ![r] = x], x.step \notin UpdateSteps, x.fresh = {}, Proper(x),
         UNCHANGED <<users, sites, grants>>
  PROVE  RequestsInv' /\ request' \in [Requests -> RequestType]
<1>1. \A q \in Requests \ {r} : \A g \in request[q].fresh : Exists(g.user)' /\ Present(g.site)'
  BY DEF RequestsInv, FreshLive, Exists, Present
<1>2. \A u \in Users : GrantsOf(u)' \subseteq GrantsOf(u)
  BY DEF GrantsOf
<1> QED
  BY <1>1, <1>2, LeavesUpdate

LEMMA Leaving ==
  ASSUME TypeOK, RequestsInv, NEW r \in Requests,
         Answer(r) \/ (GoAudit(r) /\ request[r].step # "free")
  PROVE  \E x \in RequestType :
           /\ request' = [request EXCEPT ![r] = x]
           /\ x.step \notin UpdateSteps /\ x.fresh = {} /\ Proper(x)
<1>1. CASE Answer(r)
  <2>1. Proper(Idle) /\ Idle.step \notin UpdateSteps
    BY IdleTyped DEF Proper, UpdateSteps
  <2> QED
    BY <1>1, <2>1, IdleTyped DEF Answer
<1>2. CASE GoAudit(r) /\ request[r].step # "free"
  <2> DEFINE by == request[r].by
             x == [Idle EXCEPT !.step = "audit", !.by = by]
  <2>1. request' = [request EXCEPT ![r] = x]
    BY <1>2 DEF GoAudit
  <2>2. by \in Users /\ by \in Users \cup {NoUser}
    BY <1>2 DEF RequestsInv, FreshLive, Proper
  <2>3. x \in RequestType /\ x.step = "audit" /\ x.fresh = {} /\ x.by = by /\ x.seen = {}
        /\ x.doomed = {}
    BY <2>2, AuditTyped
  <2> HIDE DEF x
  <2>4. Proper(x) /\ x.step \notin UpdateSteps
    BY <2>2, <2>3 DEF Proper, UpdateSteps
  <2> QED
    BY <2>1, <2>3, <2>4
<1> QED
  BY <1>1, <1>2

LEMMA AnswerLeaves ==
  ASSUME TypeOK, RequestsInv, NEW r \in Requests,
         Answer(r) \/ (GoAudit(r) /\ request[r].step # "free"),
         UNCHANGED <<users, sites, grants>>
  PROVE  RequestsInv' /\ request' \in [Requests -> RequestType]
<1>1. PICK x \in RequestType :
        /\ request' = [request EXCEPT ![r] = x]
        /\ x.step \notin UpdateSteps /\ x.fresh = {} /\ Proper(x)
  BY Leaving
<1> QED
  BY <1>1, LeavesQuietly

\* A step of request r that changes what others may refer to.
LEMMA LeavesTables ==
  ASSUME TypeOK, RequestsInv, NEW r \in Requests,
         Answer(r) \/ (GoAudit(r) /\ request[r].step # "free"),
         \A u \in Users : users[u] # "unused" => users'[u] # "unused",
         \A q \in Requests \ {r} : \A g \in request[q].fresh : Exists(g.user)' /\ Present(g.site)',
         \A q \in Requests \ {r}, u \in Users :
           Updates(q) /\ request[q].alone /\ request[q].user = u => GrantsOf(u)' \subseteq GrantsOf(u)
  PROVE  RequestsInv' /\ request' \in [Requests -> RequestType]
<1>1. PICK x \in RequestType :
        /\ request' = [request EXCEPT ![r] = x]
        /\ x.step \notin UpdateSteps /\ x.fresh = {} /\ Proper(x)
  BY Leaving
<1> QED
  BY <1>1, LeavesUpdate

\* Only requests change.
LEMMA TablesStay ==
  ASSUME IInv, UNCHANGED <<userTables, otherTables>>, RequestsInv',
         request' \in [Requests -> RequestType], arrived' \in 0..MaxRequests
  PROVE  IInv'
<1>1. TypeOK'
  BY DEF IInv, TypeOK, userTables, otherTables, RequestType
<1>2. TablesInv'
  BY DEF IInv, TablesInv, RowsLive, LatestKnown, ReplacedUnlessMixed, Referenced, Exists, Present,
         PlacesOf, GrantsOf, userTables, otherTables
<1> QED
  BY <1>1, <1>2 DEF IInv

LEMMA ArriveKeepsInv ==
  ASSUME IInv, NEW r \in Requests, Arrive(r)
  PROVE  IInv'
<1>1. PICK x \in RequestType :
        /\ x.step \in {"run", "session"} /\ x.fresh = {} /\ x.seen = {} /\ x.doomed = {}
        /\ x.by \in Users /\ request' = [request EXCEPT ![r] = x]
  <2>1. ASSUME NEW c \in Credentials, Authenticate(r, c)
        PROVE  \E x \in RequestType :
                 /\ x.step \in {"run", "session"} /\ x.fresh = {} /\ x.seen = {} /\ x.doomed = {}
                 /\ x.by \in Users /\ request' = [request EXCEPT ![r] = x]
    <3> DEFINE by == credentials[c].user
               x == [Idle EXCEPT !.step = "run", !.by = by]
    <3>1. by \in Users
      BY <2>1 DEF Authenticate, Usable, IInv, TablesInv, RowsLive
    <3>2. request' = [request EXCEPT ![r] = x]
      BY <2>1 DEF Authenticate
    <3> HIDE DEF by
    <3>3. x \in RequestType /\ x.step = "run" /\ x.fresh = {} /\ x.seen = {} /\ x.doomed = {}
          /\ x.by \in Users
      BY <3>1 DEF Idle, RequestType
    <3> QED
      BY <3>2, <3>3
  <2>2. ASSUME NEW u \in Users, BeginLogin(r, u)
        PROVE  \E x \in RequestType :
                 /\ x.step \in {"run", "session"} /\ x.fresh = {} /\ x.seen = {} /\ x.doomed = {}
                 /\ x.by \in Users /\ request' = [request EXCEPT ![r] = x]
    <3> DEFINE x == [Idle EXCEPT !.step = "session", !.by = u]
    <3>1. request' = [request EXCEPT ![r] = x]
      BY <2>2 DEF BeginLogin
    <3>2. x \in RequestType /\ x.step = "session" /\ x.fresh = {} /\ x.seen = {} /\ x.doomed = {}
          /\ x.by \in Users
      BY DEF Idle, RequestType
    <3> QED
      BY <3>1, <3>2
  <2> QED
    BY <2>1, <2>2 DEF Arrive
<1>2. UNCHANGED <<userTables, otherTables>> /\ arrived < MaxRequests /\ arrived' = arrived + 1
  BY DEF Arrive, Authenticate, BeginLogin
<1>3. arrived' \in 0..MaxRequests
  BY <1>2, ConstantsAssumption DEF IInv, TypeOK
<1>4. x.step \notin UpdateSteps /\ Proper(x)
  BY <1>1 DEF UpdateSteps, Proper
<1>5. RequestsInv' /\ request' \in [Requests -> RequestType]
  BY <1>1, <1>2, <1>4, LeavesQuietly DEF IInv, userTables, otherTables
<1> QED
  BY <1>2, <1>3, <1>5, TablesStay

LEMMA FailKeepsInv ==
  ASSUME IInv, NEW r \in Requests, Fail(r) \/ RenameSite(r), UNCHANGED arrived
  PROVE  IInv'
<1>1. UNCHANGED <<userTables, otherTables>>
      /\ (Answer(r) \/ (GoAudit(r) /\ request[r].step # "free"))
  BY DEF Fail, RenameSite, Begins
<1>2. RequestsInv' /\ request' \in [Requests -> RequestType]
  BY <1>1, AnswerLeaves DEF IInv, userTables, otherTables
<1>3. arrived' \in 0..MaxRequests
  BY DEF IInv, TypeOK
<1> QED
  BY <1>1, <1>2, <1>3, TablesStay

-----------------------------------------------------------------------------
(* The assignments *)

\* Request r goes on with its update; the tables stay.
LEMMA UpdateMoves ==
  ASSUME IInv, NEW r \in Requests, NEW x \in RequestType, Updates(r),
         request' = [request EXCEPT ![r] = x],
         x.step \in UpdateSteps, x.user = request[r].user, x.alone = request[r].alone,
         x.by = request[r].by, x.fresh # {} => x.step = "commit",
         \A g \in x.seen \cup x.doomed \cup x.fresh : g.user = x.user,
         \A g \in x.fresh : Exists(g.user) /\ Present(g.site),
         x.alone =>
           /\ x.step = "grant" => GrantsOf(x.user) = {}
           /\ x.step = "delete" => GrantsOf(x.user) \subseteq x.seen
           /\ x.step \in {"insert", "commit"} => GrantsOf(x.user) \subseteq x.doomed,
         UNCHANGED <<userTables, otherTables, arrived>>
  PROVE  IInv'
<1>1. request \in [Requests -> RequestType]
  BY Requested DEF IInv
<1>2. request'[r] = x /\ \A q \in Requests \ {r} : request'[q] = request[q]
  BY <1>1
<1>3. \A q \in Requests : Updates(q)' => Updates(q) /\ request'[q].user = request[q].user
                                        /\ request'[q].alone = request[q].alone
  BY <1>2 DEF Updates
<1>4. UNCHANGED <<users, sites, grants>>
  BY DEF userTables, otherTables
<1>5. FreshLive'
  <2>1. Proper(x)
    BY <1>1 DEF Proper, Updates, IInv, RequestsInv, FreshLive, UpdateSteps
  <2>2. \A q \in Requests : Proper(request[q])'
    BY <1>2, <2>1 DEF Proper, IInv, RequestsInv, FreshLive
  <2> QED
    BY <1>2, <1>4, <2>2 DEF IInv, RequestsInv, FreshLive, Exists, Present
<1>6. UpdatesKnown'
  BY <1>3, <1>4 DEF IInv, RequestsInv, UpdatesKnown
<1>7. AloneIsAlone'
  BY <1>3 DEF IInv, RequestsInv, AloneIsAlone
<1>8. Covered'
  BY <1>2, <1>4 DEF IInv, RequestsInv, Covered, GrantsOf
<1>9. RequestsInv' /\ request' \in [Requests -> RequestType]
  BY <1>1, <1>5, <1>6, <1>7, <1>8 DEF RequestsInv
<1>10. arrived' \in 0..MaxRequests
  BY DEF IInv, TypeOK
<1> QED
  BY <1>9, <1>10, TablesStay

LEMMA FindUserKeepsInv ==
  ASSUME IInv, NEW r \in Requests, NEW u \in Users, FindUser(r, u), UNCHANGED arrived
  PROVE  IInv'
<1>1. request \in [Requests -> RequestType] /\ request[r].step = "run"
  BY Requested DEF IInv, FindUser, Begins
<1>2. UNCHANGED <<userTables, otherTables>> /\ UNCHANGED <<users, sites, grants>>
  BY DEF FindUser, userTables, otherTables
<1>3. arrived' \in 0..MaxRequests
  BY DEF IInv, TypeOK
<1>4. CASE ~Exists(u)
  BY <1>2, <1>3, <1>4, AnswerLeaves, TablesStay DEF FindUser, IInv
<1>5. CASE Exists(u)
  <2> DEFINE others == Updating(u)
             alone == (others = {})
             found == [request[r] EXCEPT !.step = "snapshot", !.user = u, !.alone = alone]
  <2>1. r \notin others
    BY <1>1 DEF Updating
  <2>2. request' = [q \in Requests |->
          CASE q = r -> found
            [] q \in others -> [request[q] EXCEPT !.alone = FALSE]
            [] OTHER -> request[q]]
    BY <1>5 DEF FindUser
  <2>3. \A q \in Requests : q \in others <=> (request[q].user = u /\ Updates(q))
    BY DEF Updating, Updates, UpdateSteps
  <2>4. alone \in BOOLEAN /\ request[r] \in RequestType /\ request[r].fresh = {}
    BY <1>1 DEF IInv, RequestsInv, FreshLive, Proper
  <2>5. alone => \A q \in Requests : ~(request[q].user = u /\ Updates(q))
    BY <2>3
  <2>6. ~alone => \E q \in Requests : request[q].user = u /\ Updates(q)
    BY <2>3 DEF Updating
  <2> HIDE DEF others, alone
  <2>7. found \in RequestType /\ found.step = "snapshot" /\ found.user = u /\ found.alone = alone
        /\ found.fresh = {} /\ found.by = request[r].by
        /\ found.seen = request[r].seen /\ found.doomed = request[r].doomed
    BY <2>4 DEF RequestType
  <2> HIDE DEF found
  <2>8. \A q \in Requests :
          LET x == [request[q] EXCEPT !.alone = FALSE]
          IN x \in RequestType /\ x.step = request[q].step /\ x.user = request[q].user
             /\ x.fresh = request[q].fresh /\ x.alone = FALSE /\ x.by = request[q].by
             /\ x.seen = request[q].seen /\ x.doomed = request[q].doomed
    BY <1>1 DEF RequestType
  <2>9. /\ request'[r] = found
        /\ \A q \in Requests \ {r} :
             /\ request'[q] \in RequestType
             /\ request'[q].step = request[q].step /\ request'[q].user = request[q].user
             /\ request'[q].fresh = request[q].fresh /\ request'[q].by = request[q].by
             /\ request'[q].seen = request[q].seen /\ request'[q].doomed = request[q].doomed
             /\ request'[q].alone => request'[q] = request[q]
             /\ Updates(q) /\ request[q].user = u => ~request'[q].alone
    <3>1. request'[r] = found
      BY <2>1, <2>2
    <3>2. ASSUME NEW q \in Requests, q # r
          PROVE  /\ q \in others => request'[q] = [request[q] EXCEPT !.alone = FALSE]
                 /\ q \notin others => request'[q] = request[q]
      BY <2>2, <3>2
    <3>3. ASSUME NEW q \in Requests, q # r
          PROVE  /\ request'[q] \in RequestType
                 /\ request'[q].step = request[q].step /\ request'[q].user = request[q].user
                 /\ request'[q].fresh = request[q].fresh /\ request'[q].by = request[q].by
                 /\ request'[q].seen = request[q].seen /\ request'[q].doomed = request[q].doomed
                 /\ request'[q].alone => request'[q] = request[q]
                 /\ Updates(q) /\ request[q].user = u => ~request'[q].alone
      <4>1. CASE q \in others
        <5> DEFINE x == [request[q] EXCEPT !.alone = FALSE]
        <5>1. request'[q] = x
          BY <3>2, <3>3, <4>1
        <5>2. x \in RequestType /\ x.step = request[q].step /\ x.user = request[q].user
              /\ x.fresh = request[q].fresh /\ x.alone = FALSE /\ x.by = request[q].by
              /\ x.seen = request[q].seen /\ x.doomed = request[q].doomed
          BY <2>8
        <5> HIDE DEF x
        <5> QED
          BY <5>1, <5>2
      <4>2. CASE q \notin others
        BY <1>1, <2>3, <3>2, <3>3, <4>2
      <4> QED
        BY <4>1, <4>2
    <3> QED
      BY <3>1, <3>3
  <2>10. request' \in [Requests -> RequestType]
    <3> DEFINE value(q) == CASE q = r -> found
                             [] q \in others -> [request[q] EXCEPT !.alone = FALSE]
                             [] OTHER -> request[q]
    <3>1. request' = [q \in Requests |-> value(q)]
      BY <2>2
    <3> HIDE DEF value
    <3>2. \A q \in Requests : value(q) \in RequestType
      BY <2>7, <2>9, <3>1
    <3> QED
      BY <3>1, <3>2
  <2>11. FreshLive'
    <3>1. request[r].seen = {} /\ request[r].doomed = {} /\ request[r].by \in Users
      BY <1>1 DEF IInv, RequestsInv, FreshLive, Proper, UpdateSteps
    <3>2. Proper(request'[r])
      BY <2>7, <2>9, <3>1 DEF Proper, UpdateSteps
    <3>3. \A q \in Requests \ {r} : Proper(request'[q])
      BY <2>9 DEF IInv, RequestsInv, FreshLive, Proper
    <3>4. \A q \in Requests : Proper(request[q])'
      BY <3>2, <3>3 DEF Proper
    <3> QED
      BY <1>2, <2>7, <2>9, <3>4 DEF IInv, RequestsInv, FreshLive, Exists, Present
  <2>12. UpdatesKnown'
    <3>1. users[u] # "unused"
      BY <1>5 DEF Exists
    <3> QED
      BY <1>2, <2>7, <2>9, <3>1 DEF IInv, RequestsInv, UpdatesKnown, Updates
  <2>13. AloneIsAlone'
    <3> SUFFICES ASSUME NEW p \in Requests, NEW q \in Requests, Updates(p)', Updates(q)',
                        request'[p].user = request'[q].user, request'[p].alone
                 PROVE  q = p
      BY DEF AloneIsAlone
    <3>1. CASE p = r /\ q # r
      <4>1. alone /\ request[q].user = u /\ Updates(q)
        BY <2>7, <2>9, <3>1 DEF Updates
      <4> QED
        BY <2>5, <4>1
    <3>2. CASE p # r /\ q = r
      <4>1. request[p].user = u /\ Updates(p)
        BY <2>7, <2>9, <3>2 DEF Updates
      <4> QED
        BY <2>9, <3>2, <4>1
    <3>3. CASE p # r /\ q # r
      <4>1. request[p].alone /\ request[p].user = request[q].user /\ Updates(p) /\ Updates(q)
        BY <2>9, <3>3 DEF Updates
      <4> QED
        BY <4>1 DEF IInv, RequestsInv, AloneIsAlone
    <3> QED
      BY <3>1, <3>2, <3>3
  <2>14. Covered'
    <3>1. \A q \in Requests : request'[q].alone /\ q # r => request'[q] = request[q]
      BY <2>9
    <3>2. request'[r].step = "snapshot"
      BY <2>7, <2>9
    <3> QED
      BY <1>2, <3>1, <3>2 DEF IInv, RequestsInv, Covered, GrantsOf
  <2> QED
    BY <1>2, <1>3, <2>10, <2>11, <2>12, <2>13, <2>14, TablesStay DEF RequestsInv
<1> QED
  BY <1>4, <1>5

LEMMA RolesKeepInv ==
  ASSUME IInv, NEW r \in Requests, SnapshotGrants(r) \/ DeleteGrants(r) \/ InsertGrants(r),
         UNCHANGED arrived
  PROVE  IInv'
<1>1. request[r] \in RequestType /\ Updates(r) /\ request[r].step \in {"snapshot", "delete", "insert"}
  BY Requested DEF IInv, SnapshotGrants, DeleteGrants, InsertGrants, Updates, UpdateSteps
<1>2. UNCHANGED <<userTables, otherTables>> /\ request[r].fresh = {} /\ grants \subseteq Row
      /\ \A g \in request[r].seen \cup request[r].doomed : g.user = request[r].user
  BY <1>1 DEF SnapshotGrants, DeleteGrants, InsertGrants, IInv, RequestsInv, FreshLive, TypeOK, Proper
<1> DEFINE user == request[r].user
           by == request[r].by
<1>3. CASE SnapshotGrants(r)
  <2> DEFINE rows == GrantsOf(user)
             moved == [request[r] EXCEPT !.step = "delete"]
             x == [moved EXCEPT !.seen = rows]
  <2>1. moved \in RequestType /\ moved.step = "delete" /\ moved.user = user /\ moved.by = by
        /\ moved.alone = request[r].alone /\ moved.fresh = {} /\ moved.doomed = request[r].doomed
    BY <1>1, <1>2 DEF RequestType
  <2>2. rows \in SUBSET Row /\ \A g \in rows : g.user = user
    BY <1>2 DEF GrantsOf
  <2>3. x \in RequestType /\ x.step = "delete" /\ x.user = user /\ x.alone = request[r].alone
        /\ x.fresh = {} /\ x.seen = rows /\ x.by = by /\ x.doomed = request[r].doomed
    <3> HIDE DEF moved, rows
    <3> QED
      BY <2>1, <2>2 DEF RequestType
  <2>4. request' = [request EXCEPT ![r] = x]
    BY <1>1, <1>3, Requested DEF SnapshotGrants, IInv, RequestType
  <2>5. x.alone => GrantsOf(x.user) \subseteq x.seen
    BY <2>3
  <2> HIDE DEF x, rows
  <2> QED
    BY <1>1, <1>2, <2>2, <2>3, <2>4, <2>5, UpdateMoves DEF UpdateSteps
<1>4. CASE DeleteGrants(r)
  <2> DEFINE rows == request[r].seen \cap grants
             moved == [request[r] EXCEPT !.doomed = rows]
             emptied == [moved EXCEPT !.seen = {}]
             x == [emptied EXCEPT !.step = "insert"]
  <2>1. rows \in SUBSET Row
    BY <1>2
  <2>2. request[r].alone => GrantsOf(user) \subseteq rows
    BY <1>4 DEF DeleteGrants, IInv, RequestsInv, Covered, GrantsOf
  <2>3. moved \in RequestType /\ moved.doomed = rows /\ moved.user = user /\ moved.by = by
        /\ moved.alone = request[r].alone /\ moved.fresh = {}
    <3> HIDE DEF rows
    <3> QED
      BY <1>1, <1>2, <2>1 DEF RequestType
  <2>4. emptied \in RequestType /\ emptied.doomed = rows /\ emptied.user = user /\ emptied.by = by
        /\ emptied.alone = request[r].alone /\ emptied.fresh = {} /\ emptied.seen = {}
    <3> HIDE DEF moved, rows
    <3> QED
      BY <2>3 DEF RequestType
  <2>5. x \in RequestType /\ x.step = "insert" /\ x.doomed = rows /\ x.user = user /\ x.by = by
        /\ x.alone = request[r].alone /\ x.fresh = {} /\ x.seen = {}
    <3> HIDE DEF emptied, rows
    <3> QED
      BY <2>4 DEF RequestType
  <2>6. request' = [request EXCEPT ![r] = x]
    BY <1>1, <1>4, Requested DEF DeleteGrants, IInv, RequestType
  <2>7. \A g \in rows : g.user = user
    BY <1>2
  <2> HIDE DEF x, rows
  <2> QED
    BY <1>1, <1>2, <2>2, <2>5, <2>6, <2>7, UpdateMoves DEF UpdateSteps
<1>5. CASE InsertGrants(r)
  <2>1. CASE Answer(r)
    <3>1. RequestsInv' /\ request' \in [Requests -> RequestType]
      BY <1>2, <2>1, AnswerLeaves DEF IInv, userTables, otherTables
    <3>2. arrived' \in 0..MaxRequests
      BY DEF IInv, TypeOK
    <3> QED
      BY <1>2, <3>1, <3>2, TablesStay
  <2>2. CASE ~Answer(r)
    <3>1. PICK places \in SUBSET {s \in Places : Present(s)}, tag \in FreeTags(user) :
            /\ Exists(user)
            /\ request' = [request EXCEPT ![r].step = "commit",
                 ![r].fresh = {[user |-> user, site |-> s, tag |-> tag] : s \in places}]
      BY <1>5, <2>2 DEF InsertGrants
    <3> DEFINE rows == {[user |-> user, site |-> s, tag |-> tag] : s \in places}
               moved == [request[r] EXCEPT !.step = "commit"]
               x == [moved EXCEPT !.fresh = rows]
    <3>2. user \in Users /\ tag \in Tags
      BY <1>1 DEF IInv, RequestsInv, UpdatesKnown, FreeTags
    <3>3. rows \in SUBSET Row /\ \A g \in rows : g.user = user /\ Present(g.site)
      BY <3>2 DEF Row
    <3>4. moved \in RequestType /\ moved.step = "commit" /\ moved.user = user /\ moved.by = by
          /\ moved.alone = request[r].alone /\ moved.doomed = request[r].doomed
          /\ moved.seen = request[r].seen
      BY <1>1 DEF RequestType
    <3>5. x \in RequestType /\ x.step = "commit" /\ x.user = user /\ x.alone = request[r].alone
          /\ x.doomed = request[r].doomed /\ x.fresh = rows /\ x.by = by
          /\ x.seen = request[r].seen
      <4> HIDE DEF moved, rows
      <4> QED
        BY <3>3, <3>4 DEF RequestType
    <3>6. request' = [request EXCEPT ![r] = x]
      BY <1>1, <3>1, Requested DEF IInv, RequestType
    <3>7. request[r].alone => GrantsOf(user) \subseteq request[r].doomed
      BY <1>5 DEF InsertGrants, IInv, RequestsInv, Covered
    <3> HIDE DEF x, rows
    <3> QED
      BY <1>1, <1>2, <3>1, <3>3, <3>5, <3>6, <3>7, UpdateMoves DEF UpdateSteps
  <2> QED
    BY <2>1, <2>2
<1> QED
  BY <1>3, <1>4, <1>5

\* The rows of one user change: doomed ones go, fresh ones come.
LEMMA CommitKeepsInv ==
  ASSUME IInv, NEW r \in Requests, Updates(r), NEW fresh \in SUBSET Row, NEW doomed,
         grants' = (grants \ doomed) \cup fresh,
         \A g \in fresh : g.user = request[r].user /\ Exists(g.user) /\ Present(g.site),
         \A g \in doomed : g.user = request[r].user,
         request[r].alone => GrantsOf(request[r].user) \subseteq doomed,
         Becomes(r, request[r].user, {g.site : g \in fresh}),
         actors' \in SUBSET Users, \A u \in actors' : Exists(u),
         Exists(request[r].user) \/ fresh = {},
         Answer(r) \/ GoAudit(r),
         UNCHANGED <<users, sites, credentials, updatedBy, arrived>>
  PROVE  IInv'
<1> DEFINE user == request[r].user
           places == {g.site : g \in fresh}
<1>1. user \in Users /\ users[user] # "unused" /\ request[r].step # "free"
  BY DEF IInv, RequestsInv, UpdatesKnown, Updates, UpdateSteps
<1>2. \A w \in Users : w # user => GrantsOf(w)' = GrantsOf(w)
  BY DEF GrantsOf
<1>3. RequestsInv' /\ request' \in [Requests -> RequestType]
  <2>1. \A q \in Requests \ {r} : \A g \in request[q].fresh : Exists(g.user)' /\ Present(g.site)'
    BY DEF IInv, RequestsInv, FreshLive, Exists, Present
  <2>2. \A q \in Requests \ {r} : Updates(q) /\ request[q].alone => request[q].user # user
    BY DEF IInv, RequestsInv, AloneIsAlone
  <2>3. \A q \in Requests \ {r}, u \in Users :
          Updates(q) /\ request[q].alone /\ request[q].user = u => GrantsOf(u)' \subseteq GrantsOf(u)
    BY <1>2, <2>2
  <2> QED
    BY <1>1, <2>1, <2>3, LeavesTables DEF IInv
<1>4. places \in SUBSET Places
  BY DEF Row
<1>5. latest' = [latest EXCEPT ![user] = places] /\ latest \in [Users -> SUBSET Places]
  BY DEF Becomes, IInv, TypeOK
<1>6. mixed' = (IF request[r].alone THEN mixed \ {user} ELSE mixed \cup {user})
  BY DEF Becomes
<1>7. TypeOK'
  <2>1. grants' \subseteq Row /\ mixed' \subseteq Users /\ arrived' \in 0..MaxRequests
    BY <1>1, <1>6 DEF IInv, TypeOK
  <2>2. latest' \in [Users -> SUBSET Places]
    BY <1>4, <1>5
  <2> QED
    BY <1>3, <2>1, <2>2 DEF IInv, TypeOK, RequestType
<1>8. \A w : Exists(w)' <=> Exists(w)
  BY DEF Exists
<1>9. \A s : Present(s)' <=> Present(s)
  BY DEF Present
<1>10. RowsLive'
  <2>1. \A g \in grants' : Exists(g.user) /\ Present(g.site)
    BY DEF IInv, TablesInv, RowsLive
  <2>2. \A u \in Referenced' \cap Users : Exists(u)
    BY DEF IInv, TablesInv, RowsLive, Referenced
  <2> QED
    BY <1>8, <1>9, <2>1, <2>2 DEF IInv, TablesInv, RowsLive
<1>11. LatestKnown'
  <2>1. \A s \in places : s = AllSites \/ sites[s] # "unused"
    BY ConstantsAssumption DEF Present
  <2>2. \A w \in Users : latest'[w] = IF w = user THEN places ELSE latest[w]
    BY <1>5
  <2> HIDE DEF places
  <2> QED
    BY <1>1, <2>1, <2>2 DEF IInv, TablesInv, LatestKnown
<1>12. ReplacedUnlessMixed'
  <2> SUFFICES ASSUME NEW w \in Users, Exists(w), w \notin mixed'
               PROVE  {g.site : g \in {h \in grants' : h.user = w}} = {s \in latest'[w] : Present(s)}
    BY <1>8, <1>9 DEF ReplacedUnlessMixed, PlacesOf, GrantsOf
  <2>1. CASE w = user
    <3>1. request[r].alone
      BY <1>6, <2>1
    <3>2. {h \in grants' : h.user = w} = fresh
      BY <2>1, <3>1 DEF GrantsOf
    <3>3. latest'[w] = places /\ \A s \in places : Present(s)
      BY <1>5, <2>1
    <3> QED
      BY <3>2, <3>3
  <2>2. CASE w # user
    <3>1. w \notin mixed /\ latest'[w] = latest[w]
      BY <1>5, <1>6, <2>2
    <3>2. {h \in grants' : h.user = w} = GrantsOf(w)
      BY <1>2, <2>2 DEF GrantsOf
    <3> QED
      BY <3>1, <3>2 DEF IInv, TablesInv, ReplacedUnlessMixed, PlacesOf
  <2> QED
    BY <2>1, <2>2
<1> QED
  BY <1>3, <1>7, <1>10, <1>11, <1>12 DEF IInv, TablesInv

LEMMA CommitRolesKeepsInv ==
  ASSUME IInv, NEW r \in Requests, CommitRoles(r), UNCHANGED arrived
  PROVE  IInv'
<1>1. request[r] \in RequestType /\ Updates(r) /\ Proper(request[r])
  BY Requested DEF IInv, CommitRoles, Updates, UpdateSteps, RequestsInv, FreshLive
<1>2. CASE Exists(request[r].by)
  <2> DEFINE fresh == request[r].fresh
             doomed == request[r].doomed
  <2>1. grants' = (grants \ doomed) \cup fresh /\ actors' = actors \cup {request[r].by}
        /\ Becomes(r, request[r].user, {g.site : g \in fresh}) /\ Answer(r)
        /\ UNCHANGED <<users, sites, credentials, updatedBy, arrived>>
    BY <1>2 DEF CommitRoles
  <2>2. fresh \in SUBSET Row
    BY <1>1 DEF RequestType
  <2>3. /\ \A g \in fresh : g.user = request[r].user /\ Exists(g.user) /\ Present(g.site)
        /\ \A g \in doomed : g.user = request[r].user
    BY <1>1 DEF Proper, IInv, RequestsInv, FreshLive
  <2>4. request[r].alone => GrantsOf(request[r].user) \subseteq doomed
    BY DEF CommitRoles, IInv, RequestsInv, Covered
  <2>5. actors' \in SUBSET Users /\ \A u \in actors' : Exists(u)
    <3>1. request[r].by \in Users
      BY <1>1 DEF Proper, CommitRoles
    <3> QED
      BY <1>2, <2>1, <3>1 DEF IInv, TypeOK, TablesInv, RowsLive, Referenced
  <2>6. Exists(request[r].user) \/ fresh = {}
    BY <2>3
  <2> HIDE DEF fresh, doomed
  <2> QED
    BY <1>1, <2>1, <2>2, <2>3, <2>4, <2>5, <2>6, CommitKeepsInv
<1>3. CASE ~Exists(request[r].by)
  <2>1. UNCHANGED <<userTables, otherTables>> /\ Answer(r) /\ UNCHANGED <<users, sites, grants>>
    BY <1>3 DEF CommitRoles, userTables, otherTables
  <2>2. RequestsInv' /\ request' \in [Requests -> RequestType]
    BY <2>1, AnswerLeaves DEF IInv
  <2>3. arrived' \in 0..MaxRequests
    BY DEF IInv, TypeOK
  <2> QED
    BY <2>1, <2>2, <2>3, TablesStay
<1> QED
  BY <1>2, <1>3

LEMMA GrantRoleKeepsInv ==
  ASSUME IInv, NEW r \in Requests, GrantRole(r), UNCHANGED arrived
  PROVE  IInv'
<1> DEFINE user == request[r].user
<1>1. request[r] \in RequestType /\ Updates(r) /\ user \in Users
  BY Requested DEF IInv, GrantRole, Updates, UpdateSteps, RequestsInv, UpdatesKnown
<1>2. CASE Answer(r) /\ UNCHANGED <<grants, latest, mixed>>
  <2>1. UNCHANGED <<userTables, otherTables>> /\ UNCHANGED <<users, sites, grants>>
    BY <1>2 DEF GrantRole, userTables, otherTables
  <2>2. RequestsInv' /\ request' \in [Requests -> RequestType]
    BY <1>2, <2>1, AnswerLeaves DEF IInv
  <2>3. arrived' \in 0..MaxRequests
    BY DEF IInv, TypeOK
  <2> QED
    BY <2>1, <2>2, <2>3, TablesStay
<1>3. CASE ~(Answer(r) /\ UNCHANGED <<grants, latest, mixed>>)
  <2>1. PICK tag \in FreeTags(user) :
          /\ Exists(user)
          /\ grants' = grants \cup {[user |-> user, site |-> AllSites, tag |-> tag]}
          /\ Becomes(r, user, {AllSites}) /\ GoAudit(r)
    BY <1>3 DEF GrantRole
  <2> DEFINE row == [user |-> user, site |-> AllSites, tag |-> tag]
             fresh == {row}
  <2>2. row \in Row /\ row.user = user /\ row.site = AllSites
    BY <1>1, <2>1 DEF Row, Places, FreeTags
  <2>3. request[r].alone => GrantsOf(user) \subseteq {}
    BY DEF GrantRole, IInv, RequestsInv, Covered
  <2>4. actors' \in SUBSET Users /\ \A u \in actors' : Exists(u)
    BY DEF GrantRole, otherTables, IInv, TypeOK, TablesInv, RowsLive, Referenced
  <2>5. UNCHANGED <<users, sites, credentials, updatedBy, arrived>>
    BY DEF GrantRole, otherTables
  <2>6. grants' = (grants \ {}) \cup fresh
    BY <2>1
  <2> HIDE DEF row
  <2>7. /\ fresh \in SUBSET Row /\ {g.site : g \in fresh} = {AllSites}
        /\ \A g \in fresh : g.user = user /\ Exists(g.user) /\ Present(g.site)
    BY <2>1, <2>2 DEF Present
  <2> HIDE DEF fresh
  <2> QED
    BY <1>1, <2>1, <2>3, <2>4, <2>5, <2>6, <2>7, CommitKeepsInv
<1> QED
  BY <1>2, <1>3

-----------------------------------------------------------------------------
(* Accounts, sites and credentials *)

LEMMA InviteUserKeepsInv ==
  ASSUME IInv, NEW r \in Requests, NEW u \in Users, InviteUser(r, u), UNCHANGED arrived
  PROVE  IInv'
<1>1. request[r] \in RequestType /\ request[r].step = "run" /\ request \in [Requests -> RequestType]
  BY Requested DEF IInv, InviteUser, Begins
<1>2. arrived' \in 0..MaxRequests
  BY DEF IInv, TypeOK
<1>3. CASE users[u] # "unused"
  <2>1. UNCHANGED <<userTables, otherTables>> /\ Answer(r) /\ UNCHANGED <<users, sites, grants>>
    BY <1>3 DEF InviteUser, userTables, otherTables
  <2>2. RequestsInv' /\ request' \in [Requests -> RequestType]
    BY <2>1, AnswerLeaves DEF IInv
  <2> QED
    BY <1>2, <2>1, <2>2, TablesStay
<1>4. CASE users[u] = "unused"
  <2> DEFINE moved == [request[r] EXCEPT !.step = "grant"]
             x == [moved EXCEPT !.user = u]
  <2>1. UNCHANGED <<sites, grants, latest, mixed, credentials, updatedBy, actors>>
        /\ users' = [users EXCEPT ![u] = "active"]
    BY <1>4 DEF InviteUser, otherTables
  <2>2. request' = [request EXCEPT ![r] = x]
    BY <1>1, <1>4 DEF InviteUser, RequestType
  <2>3. moved \in RequestType /\ moved.step = "grant" /\ moved.by = request[r].by
        /\ moved.seen = request[r].seen /\ moved.doomed = request[r].doomed
        /\ moved.fresh = request[r].fresh
    BY <1>1 DEF RequestType
  <2>4. x \in RequestType /\ x.step = "grant" /\ x.user = u /\ x.by = request[r].by
        /\ x.seen = request[r].seen /\ x.doomed = request[r].doomed /\ x.fresh = request[r].fresh
    <3> HIDE DEF moved
    <3> QED
      BY <2>3 DEF RequestType
  <2> HIDE DEF x
  <2>5. users \in [Users -> {"unused", "active", "disabled", "deleted"}]
        /\ users'[u] = "active" /\ \A w \in Users : w # u => users'[w] = users[w]
    BY <2>1 DEF IInv, TypeOK
  <2>6. request'[r] = x /\ \A q \in Requests \ {r} : request'[q] = request[q]
    BY <1>1, <2>2
  <2>7. Proper(x) /\ x.fresh = {}
    BY <1>1, <2>4 DEF IInv, RequestsInv, FreshLive, Proper, UpdateSteps
  <2>8. \A q \in Requests : Updates(q) => request[q].user \in Users /\ request[q].user # u
    BY <1>4 DEF IInv, RequestsInv, UpdatesKnown
  <2>9. \A s : Present(s)' <=> Present(s)
    BY <2>1 DEF Present
  <2>10. \A g \in grants : g.user # u /\ g.user \in Users
    BY <1>4 DEF IInv, TablesInv, RowsLive, Exists, TypeOK, Row
  <2>11. FreshLive'
    <3>1. \A q \in Requests : Proper(request'[q])
      BY <2>6, <2>7 DEF IInv, RequestsInv, FreshLive
    <3>2. \A q \in Requests \ {r} : \A g \in request[q].fresh : users[g.user] \in {"active", "disabled"}
                                                             /\ Present(g.site) /\ g.user \in Users
      BY <1>1 DEF IInv, RequestsInv, FreshLive, Exists, RequestType, Row
    <3>3. \A q \in Requests \ {r} : \A g \in request[q].fresh : users'[g.user] \in {"active", "disabled"}
      BY <2>5, <3>2
    <3>4. \A q \in Requests : \A g \in request'[q].fresh :
            users'[g.user] \in {"active", "disabled"} /\ Present(g.site)
      BY <2>6, <2>7, <3>2, <3>3
    <3>5. \A q \in Requests : Proper(request[q])'
      BY <3>1 DEF Proper
    <3>6. \A q \in Requests : \A g \in request'[q].fresh : Exists(g.user)' /\ Present(g.site)'
      BY <2>9, <3>4 DEF Exists
    <3> QED
      BY <3>5, <3>6 DEF FreshLive, Exists, Present
  <2>12. UpdatesKnown'
    BY <2>4, <2>5, <2>6 DEF IInv, RequestsInv, UpdatesKnown, Updates
  <2>13. AloneIsAlone'
    <3> SUFFICES ASSUME NEW p \in Requests, NEW q \in Requests, Updates(p)', Updates(q)',
                        request'[p].user = request'[q].user, request'[p].alone
                 PROVE  q = p
      BY DEF AloneIsAlone
    <3>1. CASE p = r /\ q # r
      BY <2>4, <2>6, <2>8, <3>1 DEF Updates
    <3>2. CASE p # r /\ q = r
      BY <2>4, <2>6, <2>8, <3>2 DEF Updates
    <3>3. CASE p # r /\ q # r
      BY <2>6, <3>3 DEF Updates, IInv, RequestsInv, AloneIsAlone
    <3> QED
      BY <3>1, <3>2, <3>3
  <2>14. Covered'
    <3>1. {g \in grants : g.user = u} = {}
      BY <2>10
    <3> QED
      BY <2>1, <2>4, <2>6, <3>1 DEF IInv, RequestsInv, Covered, GrantsOf
  <2>15. request' \in [Requests -> RequestType]
    BY <1>1, <2>2, <2>4
  <2>16. TypeOK'
    BY <1>2, <2>1, <2>15 DEF IInv, TypeOK, RequestType
  <2>17. \A w \in Users : Exists(w) => users'[w] \in {"active", "disabled"}
    BY <2>5 DEF Exists
  <2>18. RowsLive'
    <3>1. \A g \in grants : users'[g.user] \in {"active", "disabled"} /\ Present(g.site)
      BY <2>10, <2>17 DEF IInv, TablesInv, RowsLive
    <3>2. \A c \in Credentials : credentials[c].kind # "unused" =>
            credentials[c].user \in Users /\ users'[credentials[c].user] \in {"active", "disabled"}
      BY <2>17 DEF IInv, TablesInv, RowsLive
    <3>3. \A w \in Referenced \cap Users : users'[w] \in {"active", "disabled"}
      BY <2>17 DEF IInv, TablesInv, RowsLive
    <3>4. Referenced' = Referenced
      BY <2>1 DEF Referenced
    <3> QED
      BY <2>1, <2>9, <3>1, <3>2, <3>3, <3>4 DEF RowsLive, Exists
  <2>19. LatestKnown'
    BY <2>1, <2>5 DEF IInv, TablesInv, LatestKnown
  <2>20. ReplacedUnlessMixed'
    <3> SUFFICES ASSUME NEW w \in Users, Exists(w)', w \notin mixed
                 PROVE  {g.site : g \in {h \in grants : h.user = w}} = {s \in latest[w] : Present(s)}
      BY <2>1, <2>9 DEF ReplacedUnlessMixed, PlacesOf, GrantsOf
    <3>1. CASE w = u
      <4>1. {h \in grants : h.user = w} = {}
        BY <2>10, <3>1
      <4>2. latest[w] = {}
        BY <1>4, <3>1 DEF IInv, TablesInv, LatestKnown
      <4> QED
        BY <4>1, <4>2
    <3>2. CASE w # u
      <4>1. Exists(w)
        BY <2>5, <3>2 DEF Exists
      <4> QED
        BY <4>1 DEF IInv, TablesInv, ReplacedUnlessMixed, PlacesOf, GrantsOf
    <3> QED
      BY <3>1, <3>2
  <2> QED
    BY <2>11, <2>12, <2>13, <2>14, <2>16, <2>18, <2>19, <2>20 DEF IInv, RequestsInv, TablesInv
<1> QED
  BY <1>3, <1>4

LEMMA UpdateStatusKeepsInv ==
  ASSUME IInv, NEW r \in Requests, NEW u \in Users, UpdateStatus(r, u), UNCHANGED arrived
  PROVE  IInv'
<1>1. arrived' \in 0..MaxRequests
  BY DEF IInv, TypeOK
<1>2. CASE ~Exists(u)
  <2>1. UNCHANGED <<userTables, otherTables>> /\ Answer(r) /\ UNCHANGED <<users, sites, grants>>
    BY <1>2 DEF UpdateStatus, userTables, otherTables
  <2>2. RequestsInv' /\ request' \in [Requests -> RequestType]
    BY <2>1, AnswerLeaves DEF IInv
  <2> QED
    BY <1>1, <2>1, <2>2, TablesStay
<1>3. CASE Exists(u)
  <2>1. PICK to \in {"active", "disabled"} : users' = [users EXCEPT ![u] = to]
    BY <1>3 DEF UpdateStatus
  <2>2. GoAudit(r) /\ request[r].step # "free"
        /\ UNCHANGED <<sites, grants, latest, mixed, credentials, updatedBy, actors>>
    BY <1>3 DEF UpdateStatus, otherTables, Begins
  <2>3. users \in [Users -> {"unused", "active", "disabled", "deleted"}]
    BY DEF IInv, TypeOK
  <2>4. \A w \in Users : /\ users'[w] \in {"active", "disabled"} <=> Exists(w)
                         /\ users'[w] = "unused" <=> users[w] = "unused"
    BY <1>3, <2>1, <2>3 DEF Exists
  <2>5. \A s : Present(s)' <=> Present(s)
    BY <2>2 DEF Present
  <2>6. \A g \in Row : g.user \in Users
    BY DEF Row
  <2>7. RequestsInv' /\ request' \in [Requests -> RequestType]
    <3>1. \A q \in Requests : request[q].fresh \subseteq Row
      BY Requested DEF IInv, RequestType
    <3>2. \A q \in Requests \ {r} : \A g \in request[q].fresh : Exists(g.user)' /\ Present(g.site)'
      BY <2>4, <2>5, <2>6, <3>1 DEF IInv, RequestsInv, FreshLive, Exists
    <3>3. \A w \in Users : GrantsOf(w)' \subseteq GrantsOf(w)
      BY <2>2 DEF GrantsOf
    <3> QED
      BY <2>2, <2>4, <3>2, <3>3, LeavesTables DEF IInv
  <2>8. TypeOK'
    BY <1>1, <2>1, <2>2, <2>3, <2>7 DEF IInv, TypeOK, RequestType
  <2>9. RowsLive'
    <3>1. Referenced' = Referenced
      BY <2>2 DEF Referenced
    <3>2. \A g \in grants : users'[g.user] \in {"active", "disabled"} /\ Present(g.site)
      BY <2>4, <2>6 DEF IInv, TablesInv, RowsLive, TypeOK
    <3>3. \A c \in Credentials : credentials[c].kind # "unused" =>
            credentials[c].user \in Users /\ users'[credentials[c].user] \in {"active", "disabled"}
      BY <2>4 DEF IInv, TablesInv, RowsLive
    <3>4. \A w \in Referenced \cap Users : users'[w] \in {"active", "disabled"}
      BY <2>4 DEF IInv, TablesInv, RowsLive
    <3> QED
      BY <2>2, <2>5, <3>1, <3>2, <3>3, <3>4 DEF RowsLive, Exists
  <2>10. LatestKnown'
    BY <2>2, <2>4 DEF IInv, TablesInv, LatestKnown
  <2>11. ReplacedUnlessMixed'
    <3> SUFFICES ASSUME NEW w \in Users, Exists(w)', w \notin mixed
                 PROVE  {g.site : g \in {h \in grants : h.user = w}} = {s \in latest[w] : Present(s)}
      BY <2>2, <2>5 DEF ReplacedUnlessMixed, PlacesOf, GrantsOf
    <3>1. Exists(w)
      BY <2>4 DEF Exists
    <3> QED
      BY <3>1 DEF IInv, TablesInv, ReplacedUnlessMixed, PlacesOf, GrantsOf
  <2> QED
    BY <2>7, <2>8, <2>9, <2>10, <2>11 DEF IInv, TablesInv
<1> QED
  BY <1>2, <1>3

LEMMA DeleteUserKeepsInv ==
  ASSUME IInv, NEW r \in Requests, NEW u \in Users, DeleteUser(r, u), UNCHANGED arrived
  PROVE  IInv'
<1>1. arrived' \in 0..MaxRequests
  BY DEF IInv, TypeOK
<1>2. CASE ~(u # request[r].by /\ Exists(u) /\ u \notin Referenced)
  <2>1. UNCHANGED <<userTables, otherTables>> /\ Answer(r) /\ UNCHANGED <<users, sites, grants>>
    BY <1>2 DEF DeleteUser, userTables, otherTables
  <2>2. RequestsInv' /\ request' \in [Requests -> RequestType]
    BY <2>1, AnswerLeaves DEF IInv
  <2> QED
    BY <1>1, <2>1, <2>2, TablesStay
<1>3. CASE u # request[r].by /\ Exists(u) /\ u \notin Referenced
  <2>1. /\ users' = [users EXCEPT ![u] = "deleted"]
        /\ grants' = grants \ GrantsOf(u)
        /\ credentials' = [c \in Credentials |->
             IF credentials[c].user = u THEN [user |-> NoUser, kind |-> "unused"] ELSE credentials[c]]
        /\ latest' = [latest EXCEPT ![u] = {}]
        /\ mixed' = mixed \ {u}
        /\ GoAudit(r) /\ request[r].step # "free"
        /\ UNCHANGED <<sites, updatedBy, actors>>
    BY <1>3 DEF DeleteUser, RemoveUser, Begins
  <2>2. users \in [Users -> {"unused", "active", "disabled", "deleted"}]
        /\ latest \in [Users -> SUBSET Places]
        /\ credentials \in [Credentials -> [user : Users \cup {NoUser}, kind : {"unused", "session", "api"}]]
    BY DEF IInv, TypeOK
  <2>3. /\ users'[u] = "deleted" /\ latest'[u] = {}
        /\ \A w \in Users : w # u => users'[w] = users[w] /\ latest'[w] = latest[w]
    BY <2>1, <2>2
  <2>4. \A s : Present(s)' <=> Present(s)
    BY <2>1 DEF Present
  <2>5. \A g \in Row : g.user \in Users
    BY DEF Row
  <2>6. \A w : GrantsOf(w)' \subseteq GrantsOf(w)
    BY <2>1 DEF GrantsOf
  <2>7. RequestsInv' /\ request' \in [Requests -> RequestType]
    <3>1. \A q \in Requests : \A g \in request[q].fresh : g.user \in Users /\ g.user # u
      BY <2>5, Requested DEF IInv, RequestType, DeleteUser, Locked
    <3>2. \A q \in Requests \ {r} : \A g \in request[q].fresh : Exists(g.user)' /\ Present(g.site)'
      BY <2>3, <2>4, <3>1 DEF IInv, RequestsInv, FreshLive, Exists
    <3>3. \A w \in Users : users[w] # "unused" => users'[w] # "unused"
      BY <2>3
    <3> QED
      BY <2>1, <2>6, <3>2, <3>3, LeavesTables DEF IInv
  <2>8. TypeOK'
    <3>1. credentials' \in [Credentials -> [user : Users \cup {NoUser}, kind : {"unused", "session", "api"}]]
      BY <2>1, <2>2
    <3>2. users' \in [Users -> {"unused", "active", "disabled", "deleted"}]
          /\ latest' \in [Users -> SUBSET Places]
      BY <2>1, <2>2
    <3> QED
      BY <1>1, <2>1, <2>7, <3>1, <3>2 DEF IInv, TypeOK, RequestType
  <2>9. RowsLive'
    <3>1. Referenced' = Referenced
      BY <2>1 DEF Referenced
    <3>2. \A g \in grants' : users'[g.user] \in {"active", "disabled"} /\ Present(g.site)
      <4> SUFFICES ASSUME NEW g \in grants'
                   PROVE  users'[g.user] \in {"active", "disabled"} /\ Present(g.site)
        OBVIOUS
      <4>1. g \in grants /\ g.user \in Users /\ g.user # u
        BY <2>1, <2>5 DEF GrantsOf, IInv, TypeOK
      <4> QED
        BY <2>3, <4>1 DEF IInv, TablesInv, RowsLive, Exists
    <3>3. \A c \in Credentials : credentials'[c].kind # "unused" =>
            credentials'[c].user \in Users /\ users'[credentials'[c].user] \in {"active", "disabled"}
      <4> SUFFICES ASSUME NEW c \in Credentials, credentials'[c].kind # "unused"
                   PROVE  credentials'[c].user \in Users
                          /\ users'[credentials'[c].user] \in {"active", "disabled"}
        OBVIOUS
      <4>1. credentials[c].user # u /\ credentials'[c] = credentials[c]
        BY <2>1
      <4> QED
        BY <2>3, <4>1 DEF IInv, TablesInv, RowsLive, Exists
    <3>4. \A w \in Referenced \cap Users : users'[w] \in {"active", "disabled"}
      BY <1>3, <2>3 DEF IInv, TablesInv, RowsLive, Exists
    <3> QED
      BY <2>4, <3>1, <3>2, <3>3, <3>4 DEF RowsLive, Exists
  <2>10. LatestKnown'
    BY <2>1, <2>3 DEF IInv, TablesInv, LatestKnown
  <2>11. ReplacedUnlessMixed'
    <3> SUFFICES ASSUME NEW w \in Users, Exists(w)', w \notin mixed'
                 PROVE  {g.site : g \in {h \in grants' : h.user = w}} = {s \in latest'[w] : Present(s)}
      BY <2>4 DEF ReplacedUnlessMixed, PlacesOf, GrantsOf
    <3>1. w # u
      BY <2>3 DEF Exists
    <3>2. Exists(w) /\ w \notin mixed /\ latest'[w] = latest[w]
      BY <2>1, <2>3, <3>1 DEF Exists
    <3>3. {h \in grants' : h.user = w} = GrantsOf(w)
      BY <2>1, <3>1 DEF GrantsOf
    <3> QED
      BY <3>2, <3>3 DEF IInv, TablesInv, ReplacedUnlessMixed, PlacesOf
  <2> QED
    BY <2>7, <2>8, <2>9, <2>10, <2>11 DEF IInv, TablesInv
<1> QED
  BY <1>2, <1>3

LEMMA CreateSiteKeepsInv ==
  ASSUME IInv, NEW r \in Requests, CreateSite(r), UNCHANGED arrived
  PROVE  IInv'
<1>1. arrived' \in 0..MaxRequests /\ request[r].step = "run"
  BY DEF IInv, TypeOK, CreateSite, Begins
<1>2. CASE Answer(r) /\ UNCHANGED sites
  <2>1. UNCHANGED <<userTables, otherTables>> /\ UNCHANGED <<users, sites, grants>>
    BY <1>2 DEF CreateSite, userTables, otherTables
  <2>2. RequestsInv' /\ request' \in [Requests -> RequestType]
    BY <1>2, <2>1, AnswerLeaves DEF IInv
  <2> QED
    BY <1>1, <2>1, <2>2, TablesStay
<1>3. CASE ~(Answer(r) /\ UNCHANGED sites)
  <2> DEFINE by == request[r].by
  <2>1. PICK s \in Sites : /\ Exists(by) /\ sites[s] = "unused"
                           /\ sites' = [sites EXCEPT ![s] = by] /\ GoAudit(r)
    BY <1>3 DEF CreateSite
  <2>2. UNCHANGED <<users, grants, latest, mixed, credentials, updatedBy, actors>>
    BY <1>3 DEF CreateSite, userTables
  <2>3. by \in Users /\ sites \in [Sites -> Users \cup {"unused", "deleted"}] /\ s # AllSites
    BY <1>1, ConstantsAssumption DEF IInv, RequestsInv, FreshLive, Proper, TypeOK
  <2> HIDE DEF by
  <2>4. \A t : Present(t)' <=> Present(t) \/ t = s
    BY <2>1, <2>3 DEF Present
  <2>5. RequestsInv' /\ request' \in [Requests -> RequestType]
    <3>1. \A q \in Requests \ {r} : \A g \in request[q].fresh : Exists(g.user)' /\ Present(g.site)'
      BY <2>2, <2>4 DEF IInv, RequestsInv, FreshLive, Exists
    <3>2. \A w \in Users : GrantsOf(w)' \subseteq GrantsOf(w)
      BY <2>2 DEF GrantsOf
    <3> QED
      BY <1>1, <2>1, <2>2, <3>1, <3>2, LeavesTables DEF IInv
  <2>6. TypeOK'
    BY <1>1, <2>1, <2>2, <2>3, <2>5 DEF IInv, TypeOK, RequestType
  <2>7. RowsLive'
    <3>1. Referenced' \subseteq Referenced \cup {by}
      BY <2>1, <2>2, <2>3 DEF Referenced
    <3> QED
      BY <2>1, <2>2, <2>4, <3>1 DEF IInv, TablesInv, RowsLive, Exists
  <2>8. LatestKnown'
    <3>1. \A t \in Sites : sites[t] # "unused" => sites'[t] # "unused"
      BY <2>1, <2>3
    <3>2. latest \in [Users -> SUBSET Places]
      BY DEF IInv, TypeOK
    <3>3. \A w \in Users : \A t \in latest[w] : t = AllSites \/ t \in Sites
      BY <3>2 DEF Places
    <3> QED
      BY <2>2, <3>1, <3>3 DEF IInv, TablesInv, LatestKnown
  <2>9. ReplacedUnlessMixed'
    <3> SUFFICES ASSUME NEW w \in Users, Exists(w), w \notin mixed
                 PROVE  {g.site : g \in {h \in grants : h.user = w}} = {t \in latest[w] : Present(t)'}
      BY <2>2 DEF ReplacedUnlessMixed, PlacesOf, GrantsOf, Exists, Present
    <3>1. s \notin latest[w]
      BY <2>1, <2>3 DEF IInv, TablesInv, LatestKnown
    <3>2. {t \in latest[w] : Present(t)'} = {t \in latest[w] : Present(t)}
      BY <2>4, <3>1
    <3> QED
      BY <3>2 DEF IInv, TablesInv, ReplacedUnlessMixed, PlacesOf, GrantsOf
  <2> QED
    BY <2>5, <2>6, <2>7, <2>8, <2>9 DEF IInv, TablesInv
<1> QED
  BY <1>2, <1>3

LEMMA DeleteSiteKeepsInv ==
  ASSUME IInv, NEW r \in Requests, DeleteSite(r), UNCHANGED arrived
  PROVE  IInv'
<1>1. arrived' \in 0..MaxRequests /\ request[r].step = "run"
  BY DEF IInv, TypeOK, DeleteSite, Begins
<1>2. CASE Answer(r) /\ UNCHANGED <<sites, grants>>
  <2>1. UNCHANGED <<userTables, otherTables>> /\ UNCHANGED <<users, sites, grants>>
    BY <1>2 DEF DeleteSite, userTables, otherTables
  <2>2. RequestsInv' /\ request' \in [Requests -> RequestType]
    BY <1>2, <2>1, AnswerLeaves DEF IInv
  <2> QED
    BY <1>1, <2>1, <2>2, TablesStay
<1>3. CASE ~(Answer(r) /\ UNCHANGED <<sites, grants>>)
  <2>1. PICK s \in Sites : /\ sites[s] \in Users
                           /\ \A g \in Locked : g.site # s
                           /\ sites' = [sites EXCEPT ![s] = "deleted"]
                           /\ grants' = {g \in grants : g.site # s}
                           /\ GoAudit(r)
    BY <1>3 DEF DeleteSite
  <2>2. UNCHANGED <<users, latest, mixed, credentials, updatedBy, actors>>
    BY <1>3 DEF DeleteSite
  <2>3. "deleted" \notin Users /\ sites \in [Sites -> Users \cup {"unused", "deleted"}] /\ s # AllSites
    BY ConstantsAssumption DEF IInv, TypeOK
  <2>4. \A t : Present(t)' <=> Present(t) /\ t # s
    BY <2>1, <2>3 DEF Present
  <2>5. RequestsInv' /\ request' \in [Requests -> RequestType]
    <3>1. \A q \in Requests : \A g \in request[q].fresh : g.site # s
      BY <2>1 DEF Locked
    <3>2. \A q \in Requests \ {r} : \A g \in request[q].fresh : Exists(g.user)' /\ Present(g.site)'
      BY <2>2, <2>4, <3>1 DEF IInv, RequestsInv, FreshLive, Exists
    <3>3. \A w \in Users : GrantsOf(w)' \subseteq GrantsOf(w)
      BY <2>1 DEF GrantsOf
    <3> QED
      BY <1>1, <2>1, <2>2, <3>2, <3>3, LeavesTables DEF IInv
  <2>6. TypeOK'
    BY <1>1, <2>1, <2>2, <2>3, <2>5 DEF IInv, TypeOK, RequestType
  <2>7. RowsLive'
    <3>1. Referenced' \subseteq Referenced \cup {"deleted"}
      BY <2>1, <2>2, <2>3 DEF Referenced
    <3> QED
      BY <2>1, <2>2, <2>3, <2>4, <3>1 DEF IInv, TablesInv, RowsLive, Exists
  <2>8. LatestKnown'
    <3>1. \A t \in Sites : sites[t] # "unused" => sites'[t] # "unused"
      BY <2>1, <2>3
    <3>2. latest \in [Users -> SUBSET Places]
      BY DEF IInv, TypeOK
    <3>3. \A w \in Users : \A t \in latest[w] : t = AllSites \/ t \in Sites
      BY <3>2 DEF Places
    <3> QED
      BY <2>2, <3>1, <3>3 DEF IInv, TablesInv, LatestKnown
  <2>9. ReplacedUnlessMixed'
    <3> SUFFICES ASSUME NEW w \in Users, Exists(w), w \notin mixed
                 PROVE  {g.site : g \in {h \in grants' : h.user = w}} = {t \in latest[w] : Present(t)'}
      BY <2>2 DEF ReplacedUnlessMixed, PlacesOf, GrantsOf, Exists, Present
    <3>1. {g.site : g \in {h \in grants' : h.user = w}} = {t \in PlacesOf(w) : t # s}
      BY <2>1 DEF PlacesOf, GrantsOf
    <3>2. PlacesOf(w) = {t \in latest[w] : Present(t)}
      BY DEF IInv, TablesInv, ReplacedUnlessMixed
    <3> QED
      BY <2>4, <3>1, <3>2
  <2> QED
    BY <2>5, <2>6, <2>7, <2>8, <2>9 DEF IInv, TablesInv
<1> QED
  BY <1>2, <1>3

\* Credentials, the policy and the audit log change; users, sites and assignments stay.
LEMMA MinorKeepsInv ==
  ASSUME IInv, UNCHANGED <<users, sites, grants, latest, mixed, arrived>>,
         RequestsInv', request' \in [Requests -> RequestType],
         credentials' \in [Credentials -> [user : Users \cup {NoUser}, kind : {"unused", "session", "api"}]],
         \A c \in Credentials : credentials'[c].kind # "unused" =>
           credentials'[c].user \in Users /\ Exists(credentials'[c].user),
         updatedBy' \in Users \cup {NoUser}, updatedBy' \in Users => Exists(updatedBy'),
         actors' \in SUBSET Users, \A u \in actors' : Exists(u)
  PROVE  IInv'
<1>1. TypeOK'
  BY DEF IInv, TypeOK, RequestType
<1>2. \A w \in Referenced' \cap Users : Exists(w)
  BY DEF IInv, TablesInv, RowsLive, Referenced
<1>3. RowsLive'
  BY <1>2 DEF IInv, TablesInv, RowsLive, Exists, Present
<1>4. LatestKnown' /\ ReplacedUnlessMixed'
  BY DEF IInv, TablesInv, LatestKnown, ReplacedUnlessMixed, PlacesOf, GrantsOf, Exists, Present
<1> QED
  BY <1>1, <1>3, <1>4 DEF IInv, TablesInv

LEMMA RequestEndsKeepsInv ==
  ASSUME IInv, NEW r \in Requests,
         WriteAudit(r) \/ UpdateRetention(r) \/ CredentialStep(r), UNCHANGED arrived
  PROVE  IInv'
<1> DEFINE by == request[r].by
<1>1. request[r].step # "free" /\ by \in Users
  BY DEF WriteAudit, UpdateRetention, CredentialStep, InsertSession, IssueToken, RevokeToken, Begins,
         IInv, RequestsInv, FreshLive, Proper
<1>2. UNCHANGED <<users, sites, grants, latest, mixed, arrived>> /\ (Answer(r) \/ GoAudit(r))
  BY DEF WriteAudit, UpdateRetention, CredentialStep, InsertSession, IssueToken, RevokeToken,
         InsertCredential, userTables
<1>3. RequestsInv' /\ request' \in [Requests -> RequestType]
  BY <1>1, <1>2, AnswerLeaves DEF IInv
<1>4. /\ updatedBy' \in Users \cup {NoUser} /\ (updatedBy' \in Users => Exists(updatedBy'))
      /\ actors' \in SUBSET Users /\ \A u \in actors' : Exists(u)
  <2>1. /\ updatedBy \in Users \cup {NoUser} /\ (updatedBy \in Users => Exists(updatedBy))
        /\ actors \in SUBSET Users /\ \A u \in actors : Exists(u)
    BY DEF IInv, TypeOK, TablesInv, RowsLive, Referenced
  <2>2. updatedBy' = updatedBy \/ (updatedBy' = by /\ Exists(by))
    BY DEF WriteAudit, UpdateRetention, CredentialStep, InsertSession, IssueToken, RevokeToken,
           InsertCredential
  <2>3. actors' = actors \/ (actors' = actors \cup {by} /\ Exists(by))
    BY DEF WriteAudit, UpdateRetention, CredentialStep, InsertSession, IssueToken, RevokeToken,
           InsertCredential
  <2> HIDE DEF by
  <2> QED
    BY <1>1, <2>1, <2>2, <2>3
<1>5. credentials \in [Credentials -> [user : Users \cup {NoUser}, kind : {"unused", "session", "api"}]]
      /\ \A c \in Credentials : credentials[c].kind # "unused" =>
           credentials[c].user \in Users /\ Exists(credentials[c].user)
  BY DEF IInv, TypeOK, TablesInv, RowsLive
<1>6. credentials' \in [Credentials -> [user : Users \cup {NoUser}, kind : {"unused", "session", "api"}]]
      /\ \A c \in Credentials : credentials'[c].kind # "unused" =>
           credentials'[c].user \in Users /\ Exists(credentials'[c].user)
  <2>1. CASE credentials' = credentials
    BY <1>5, <2>1
  <2>2. CASE credentials' # credentials
    <3>1. CASE InsertSession(r) \/ IssueToken(r)
      <4>1. PICK c \in Credentials, kind \in {"session", "api"} :
              Exists(by) /\ credentials' = [credentials EXCEPT ![c] = [user |-> by, kind |-> kind]]
        BY <2>2, <3>1 DEF InsertSession, IssueToken, InsertCredential
      <4> HIDE DEF by
      <4> QED
        BY <1>1, <1>5, <4>1
    <3>2. CASE RevokeToken(r)
      <4>1. PICK c \in Credentials :
              credentials' = [credentials EXCEPT ![c] = [user |-> NoUser, kind |-> "unused"]]
        BY <2>2, <3>2 DEF RevokeToken
      <4> QED
        BY <1>5, <4>1
    <3>3. CASE WriteAudit(r) \/ UpdateRetention(r)
      BY <2>2, <3>3 DEF WriteAudit, UpdateRetention
    <3> QED
      BY <3>1, <3>2, <3>3 DEF CredentialStep
  <2> QED
    BY <2>1, <2>2
<1> QED
  BY <1>2, <1>3, <1>4, <1>5, <1>6, MinorKeepsInv

LEMMA EndSessionKeepsInv ==
  ASSUME IInv, NEW c \in Credentials, EndSession(c), UNCHANGED arrived
  PROVE  IInv'
<1>1. /\ UNCHANGED <<users, sites, grants, latest, mixed, arrived, updatedBy, actors, request>>
      /\ credentials' = [credentials EXCEPT ![c] = [user |-> NoUser, kind |-> "unused"]]
  BY DEF EndSession, userTables
<1>2. RequestsInv' /\ request' \in [Requests -> RequestType]
  BY <1>1, Requested DEF IInv, RequestsInv, FreshLive, UpdatesKnown, AloneIsAlone, Covered, Updates,
     Proper, Exists, Present, GrantsOf
<1>3. credentials' \in [Credentials -> [user : Users \cup {NoUser}, kind : {"unused", "session", "api"}]]
      /\ \A d \in Credentials : credentials'[d].kind # "unused" =>
           credentials'[d].user \in Users /\ Exists(credentials'[d].user)
  BY <1>1 DEF IInv, TypeOK, TablesInv, RowsLive
<1>4. /\ updatedBy' \in Users \cup {NoUser} /\ (updatedBy' \in Users => Exists(updatedBy'))
      /\ actors' \in SUBSET Users /\ \A u \in actors' : Exists(u)
  BY <1>1 DEF IInv, TypeOK, TablesInv, RowsLive, Referenced
<1> QED
  BY <1>1, <1>2, <1>3, <1>4, MinorKeepsInv

-----------------------------------------------------------------------------
LEMMA InitInv ==
  ASSUME Init
  PROVE  IInv
<1>1. PICK tag \in Tags : grants = {[user |-> Administrator, site |-> AllSites, tag |-> tag]}
  BY DEF Init
<1> DEFINE row == [user |-> Administrator, site |-> AllSites, tag |-> tag]
<1>2. row \in Row /\ row.user = Administrator /\ row.site = AllSites /\ grants = {row}
  BY <1>1, ConstantsAssumption DEF Row, Places
<1> HIDE DEF row
<1>3. \A r \in Requests : request[r] = Idle
  BY DEF Init
<1>4. TypeOK
  <2>1. request \in [Requests -> RequestType]
    BY IdleTyped DEF Init
  <2>2. latest \in [Users -> SUBSET Places]
    BY ConstantsAssumption DEF Init, Places
  <2>3. arrived \in 0..MaxRequests
    BY ConstantsAssumption DEF Init
  <2> QED
    BY <1>2, <2>1, <2>2, <2>3, ConstantsAssumption DEF Init, TypeOK, RequestType
<1>5. \A r \in Requests : ~Updates(r)
  BY <1>3, IdleTyped DEF Updates, UpdateSteps
<1>6. Proper(Idle)
  BY IdleTyped DEF Proper, UpdateSteps
<1>7. RequestsInv
  BY <1>3, <1>5, <1>6, IdleTyped
     DEF RequestsInv, FreshLive, UpdatesKnown, AloneIsAlone, Covered, Updates, UpdateSteps
<1>8. RowsLive
  <2>1. Referenced \cap Users = {}
    BY ConstantsAssumption DEF Init, Referenced
  <2> QED
    BY <1>2, <2>1, ConstantsAssumption DEF Init, RowsLive, Exists, Present
<1>9. LatestKnown
  BY ConstantsAssumption DEF Init, LatestKnown
<1>10. ReplacedUnlessMixed
  <2> SUFFICES ASSUME NEW u \in Users, Exists(u)
               PROVE  PlacesOf(u) = {s \in latest[u] : Present(s)}
    BY DEF ReplacedUnlessMixed
  <2>1. u = Administrator
    BY DEF Init, Exists
  <2>2. PlacesOf(u) = {AllSites}
    BY <1>2, <2>1 DEF PlacesOf, GrantsOf
  <2>3. latest[u] = {AllSites}
    BY <2>1 DEF Init
  <2> QED
    BY <2>2, <2>3 DEF Present
<1> QED
  BY <1>4, <1>7, <1>8, <1>9, <1>10 DEF IInv, TablesInv

LEMMA StutterKeepsInv ==
  ASSUME IInv, UNCHANGED vars
  PROVE  IInv'
<1>1. RequestsInv' /\ request' \in [Requests -> RequestType] /\ arrived' \in 0..MaxRequests
  BY Requested DEF vars, IInv, RequestsInv, FreshLive, UpdatesKnown, AloneIsAlone, Covered, Updates,
     Proper, Exists, Present, GrantsOf, TypeOK
<1> QED
  BY <1>1, TablesStay DEF vars, userTables, otherTables

LEMMA NextKeepsInv ==
  ASSUME IInv, [Next]_vars
  PROVE  IInv'
<1>1. ASSUME NEW r \in Requests, Work(r), UNCHANGED arrived
      PROVE  IInv'
  <2>1. CASE RolesStep(r)
    BY <1>1, <2>1, FindUserKeepsInv, RolesKeepInv, CommitRolesKeepsInv DEF RolesStep
  <2>2. CASE AccountStep(r)
    BY <1>1, <2>2, InviteUserKeepsInv, UpdateStatusKeepsInv, DeleteUserKeepsInv, GrantRoleKeepsInv
       DEF AccountStep
  <2>3. CASE SiteStep(r)
    BY <1>1, <2>3, CreateSiteKeepsInv, FailKeepsInv, DeleteSiteKeepsInv, RequestEndsKeepsInv
       DEF SiteStep
  <2>4. CASE CredentialStep(r) \/ WriteAudit(r)
    BY <1>1, <2>4, RequestEndsKeepsInv
  <2>5. CASE Fail(r)
    BY <1>1, <2>5, FailKeepsInv
  <2> QED
    BY <1>1, <2>1, <2>2, <2>3, <2>4, <2>5 DEF Work
<1> QED
  BY <1>1, ArriveKeepsInv, EndSessionKeepsInv, StutterKeepsInv DEF Next

\* The inductive invariant holds in every reachable state.
THEOREM InvariantHolds == Spec => []IInv
<1>1. Init => IInv
  BY InitInv
<1>2. IInv /\ [Next]_vars => IInv'
  BY NextKeepsInv
<1> QED
  BY <1>1, <1>2, PTL DEF Spec

\* For any users, sites and credentials, and any number of requests under way: no
\* assignment outlives its user or its site, no credential its user, and whoever
\* the audit log, a site or the retention policy refers to keeps the account
\* (users/router.py:208-215; migrations/0006, 0008).
THEOREM NothingOutlives == Spec => []ReferencesLive
<1>1. IInv => ReferencesLive
  BY DEF IInv, TablesInv, RowsLive, ReferencesLive
<1> QED
  BY <1>1, InvariantHolds, PTL

\* Replacing a user's assignments replaces them, whatever else happens to users
\* and sites meanwhile, unless another request was updating the same user's
\* (users/router.py:134, 144-164).
THEOREM UpdatesReplace == Spec => []ReplacedUnlessMixed
<1>1. IInv => ReplacedUnlessMixed
  BY DEF IInv, TablesInv
<1> QED
  BY <1>1, InvariantHolds, PTL

-----------------------------------------------------------------------------
LEMMA FewerRowsNarrow ==
  ASSUME TypeOK, NEW u \in Users, \A g \in grants' : g.user = u => g \in grants
  PROVE  Reach(u)' \subseteq Reach(u)
<1> DEFINE before == {g.site : g \in {h \in grants : h.user = u}}
           after == {g.site : g \in {h \in grants' : h.user = u}}
<1>1. after \subseteq before
  OBVIOUS
<1>2. before \subseteq Places
  BY DEF TypeOK, Row
<1>3. /\ Reach(u) = IF AllSites \in before THEN Places ELSE before
      /\ Reach(u)' = IF AllSites \in after THEN Places ELSE after
  BY DEF Reach, PlacesOf, GrantsOf, Places
<1> HIDE DEF before, after
<1> QED
  BY <1>1, <1>2, <1>3

\* Only these two insert assignments, and only their own user's.
LEMMA WhoInserts ==
  ASSUME IInv, [Next]_vars
  PROVE  \/ grants' \subseteq grants
         \/ \E r \in Requests :
              /\ request[r].step \in {"grant", "commit"} /\ request'[r] # request[r]
              /\ \A g \in grants' : g \in grants \/ g.user = request[r].user
<1>1. ASSUME NEW r \in Requests, Work(r), ~(grants' \subseteq grants)
      PROVE  /\ request[r].step \in {"grant", "commit"} /\ request'[r] # request[r]
             /\ \A g \in grants' : g \in grants \/ g.user = request[r].user
  <2>1. CommitRoles(r) \/ GrantRole(r)
    BY <1>1 DEF Work, RolesStep, AccountStep, SiteStep, CredentialStep, FindUser, SnapshotGrants,
       DeleteGrants, InsertGrants, InviteUser, UpdateStatus, DeleteUser, RemoveUser, CreateSite,
       RenameSite, DeleteSite, UpdateRetention, InsertSession, IssueToken, InsertCredential,
       RevokeToken, WriteAudit, Fail, userTables
  <2>2. request[r].step \in {"grant", "commit"} /\ (Answer(r) \/ GoAudit(r))
        /\ \A g \in grants' : g \in grants \/ g.user = request[r].user
    <3>1. CASE CommitRoles(r)
      <4>1. \A g \in request[r].fresh : g.user = request[r].user
        BY DEF IInv, RequestsInv, FreshLive, Proper
      <4> QED
        BY <3>1, <4>1 DEF CommitRoles
    <3>2. CASE GrantRole(r)
      BY <1>1, <3>2 DEF GrantRole
    <3> QED
      BY <2>1, <3>1, <3>2
  <2>3. request'[r].step \in {"free", "audit"}
    <3>1. PICK x \in RequestType : request' = [request EXCEPT ![r] = x] /\ x.step \in {"free", "audit"}
      <4>1. CASE Answer(r)
        BY <4>1, IdleTyped DEF Answer
      <4>2. CASE GoAudit(r)
        <5> DEFINE by == request[r].by
                   x == [Idle EXCEPT !.step = "audit", !.by = by]
        <5>1. request' = [request EXCEPT ![r] = x]
          BY <4>2 DEF GoAudit
        <5>2. by \in Users \cup {NoUser}
          BY Requested DEF IInv, RequestType
        <5>3. x \in RequestType /\ x.step = "audit"
          BY <5>2, AuditTyped
        <5> HIDE DEF x
        <5> QED
          BY <5>1, <5>3
      <4> QED
        BY <2>2, <4>1, <4>2
    <3> QED
      BY <3>1, Requested DEF IInv
  <2> QED
    BY <2>2, <2>3
<1>2. ASSUME ~\E r \in Requests : Work(r)
      PROVE  grants' \subseteq grants
  BY <1>2 DEF Next, Arrive, Authenticate, BeginLogin, EndSession, vars, userTables
<1> QED
  BY <1>1, <1>2

\* What a user may see grows only by an update of that user's own assignments,
\* whatever happens to sites and to other users (migrations/0006:14).
THEOREM NothingElseWidens == Spec => OnlyUpdatesWiden
<1>1. IInv /\ [Next]_vars =>
        [\A u \in Users :
           Reach(u)' \subseteq Reach(u)
             \/ \E r \in Requests :
                  request[r].user = u /\ request[r].step \in {"grant", "commit"}
                  /\ request'[r] # request[r]]_vars
  <2> SUFFICES ASSUME IInv, [Next]_vars, NEW u \in Users, ~(Reach(u)' \subseteq Reach(u))
               PROVE  \E r \in Requests :
                        request[r].user = u /\ request[r].step \in {"grant", "commit"}
                        /\ request'[r] # request[r]
    OBVIOUS
  <2>1. \E g \in grants' : g.user = u /\ g \notin grants
    BY FewerRowsNarrow DEF IInv
  <2> QED
    BY <2>1, WhoInserts
<1> QED
  BY <1>1, InvariantHolds, PTL DEF Spec, OnlyUpdatesWiden

\* Only these three take assignments away.
LEMMA WhoRemoves ==
  ASSUME IInv, [Next]_vars, NEW g \in grants, g \notin grants'
  PROVE  \E r \in Requests : CommitRoles(r) \/ DeleteSite(r) \/ \E v \in Users : DeleteUser(r, v)
<1>1. ASSUME NEW r \in Requests, Work(r)
      PROVE  CommitRoles(r) \/ DeleteSite(r) \/ \E v \in Users : DeleteUser(r, v)
  BY <1>1 DEF Work, RolesStep, AccountStep, SiteStep, CredentialStep, FindUser, SnapshotGrants,
     DeleteGrants, InsertGrants, InviteUser, UpdateStatus, GrantRole, CreateSite,
     RenameSite, UpdateRetention, InsertSession, IssueToken, InsertCredential,
     RevokeToken, WriteAudit, Fail, userTables
<1>2. \E r \in Requests : Work(r)
  BY DEF Next, Arrive, Authenticate, BeginLogin, EndSession, vars, userTables
<1> QED
  BY <1>1, <1>2

\* A user who has assignments never has none in between the DELETE and the INSERTs
\* of an update, for any number of updates under way at READ COMMITTED: the last
\* assignment goes only with the user, with a site, or by an update that lists none
\* (users/router.py:144-145).
THEOREM UpdatesNeverStrip == Spec => NeverStripped
<1>1. IInv /\ [Next]_vars =>
        [\A u \in Users :
           PlacesOf(u) # {} /\ PlacesOf(u)' = {} =>
             \/ users'[u] = "deleted"
             \/ \E s \in Sites : sites'[s] # sites[s]
             \/ latest'[u] = {}]_vars
  <2> SUFFICES ASSUME IInv, [Next]_vars, NEW u \in Users, PlacesOf(u) # {}, PlacesOf(u)' = {}
               PROVE  \/ users'[u] = "deleted"
                      \/ \E s \in Sites : sites'[s] # sites[s]
                      \/ latest'[u] = {}
    OBVIOUS
  <2>1. PICK g \in grants : g.user = u
    BY DEF PlacesOf, GrantsOf
  <2>2. \A h \in grants' : h.user # u
    BY DEF PlacesOf, GrantsOf
  <2>3. PICK r \in Requests : CommitRoles(r) \/ DeleteSite(r) \/ \E v \in Users : DeleteUser(r, v)
    BY <2>1, <2>2, WhoRemoves
  <2>4. CASE CommitRoles(r)
    <3>1. /\ grants' = (grants \ request[r].doomed) \cup request[r].fresh
          /\ latest' = [latest EXCEPT ![request[r].user] = {h.site : h \in request[r].fresh}]
      BY <2>1, <2>2, <2>4 DEF CommitRoles, Becomes
    <3>2. g \in request[r].doomed
      BY <2>1, <2>2, <3>1
    <3>3. \A h \in request[r].doomed \cup request[r].fresh : h.user = request[r].user
      BY DEF IInv, RequestsInv, FreshLive, Proper
    <3>4. request[r].user = u
      BY <2>1, <3>2, <3>3
    <3>5. request[r].fresh = {}
      BY <2>2, <3>1, <3>3, <3>4
    <3>6. latest'[u] = {h.site : h \in request[r].fresh}
      BY <3>1, <3>4 DEF IInv, TypeOK
    <3> QED
      BY <3>5, <3>6
  <2>5. CASE DeleteSite(r)
    <3>1. PICK s \in Sites : sites[s] \in Users /\ sites' = [sites EXCEPT ![s] = "deleted"]
      BY <2>1, <2>2, <2>5 DEF DeleteSite
    <3>2. sites'[s] = "deleted" /\ "deleted" \notin Users
      BY <3>1, ConstantsAssumption DEF IInv, TypeOK
    <3> QED
      BY <3>1, <3>2
  <2>6. ASSUME NEW v \in Users, DeleteUser(r, v)
        PROVE  users'[u] = "deleted"
    <3>1. users' = [users EXCEPT ![v] = "deleted"] /\ grants' = grants \ GrantsOf(v)
      BY <2>1, <2>2, <2>6 DEF DeleteUser, RemoveUser, userTables
    <3>2. u = v
      BY <2>1, <2>2, <3>1 DEF GrantsOf
    <3> QED
      BY <3>1, <3>2 DEF IInv, TypeOK
  <2> QED
    BY <2>3, <2>4, <2>5, <2>6
<1> QED
  BY <1>1, InvariantHolds, PTL DEF Spec, NeverStripped
=============================================================================
