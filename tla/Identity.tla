------------------------------ MODULE Identity ------------------------------
(***************************************************************************)
(* The identity service's tables and the requests that change them:        *)
(* users and their site assignments (services/identity/src/users), sites   *)
(* (src/sites), credentials (src/auth), the retention policy and the audit *)
(* log.                                                                    *)
(*                                                                         *)
(* Requests run concurrently, each on a database connection of its own.    *)
(* Every SQL statement is awaited, commits on its own and is a step;       *)
(* update_user_roles alone groups its statements in a transaction, at      *)
(* PostgreSQL's default isolation level, READ COMMITTED.                   *)
(***************************************************************************)
EXTENDS Naturals, FiniteSets

CONSTANTS
  Users,        \* ids of accounts; an id is never used twice
  Administrator, \* the seeded account
  Sites,        \* ids of sites; an id is never used twice
  AllSites,     \* site_id NULL: organization-wide
  Credentials,  \* session tokens and API tokens
  Tags,         \* bound: the grants of how many updates are in the tables at one time
  Requests,     \* bound: requests under way at one time
  MaxRequests,  \* bound: requests in all
  NoUser,
  Kinds,        \* the requests that may come in
  HasPolicy,    \* is there a row in retention_policy?
  Disruptions   \* what may go wrong besides the normal operations

AllKinds == {"invite", "roles", "status", "delete", "createSite", "renameSite", "deleteSite",
             "retention", "issue", "revoke", "login"}

ASSUME ConstantsAssumption ==
  /\ Administrator \in Users /\ Users \cap {NoUser, "unused", "deleted"} = {}
  /\ AllSites \notin Sites
  /\ HasPolicy \in BOOLEAN /\ MaxRequests \in Nat
  /\ Kinds \subseteq AllKinds
  /\ Disruptions \subseteq {"fail"}

VARIABLES
  users,       \* app_user: each id's status, "unused" or "deleted"
  sites,       \* site: each id's creator, "unused" or "deleted"
  grants,      \* the committed rows of user_role_assignment; tag: who inserted them
  credentials, \* session and api_token
  updatedBy,   \* retention_policy.updated_by
  actors,      \* the users in audit_log_entry.actor_user_id
  request,     \* what each request is doing, and its locals
  arrived,     \* bound: how many requests have come in
  latest,      \* history: each user's assignments as the last update listed them
  mixed        \* history: users whose last update overlapped with another

vars == <<users, sites, grants, credentials, updatedBy, actors, request, arrived, latest, mixed>>

Places == Sites \cup {AllSites}

Exists(u) == users[u] \in {"active", "disabled"}
Present(s) == s \in {AllSites} \cup {t \in Sites : sites[t] \in Users}

GrantsOf(u) == {g \in grants : g.user = u}
PlacesOf(u) == {g.site : g \in GrantsOf(u)}

\* What user u may see: the sites assigned, or every site there is or will be.
Reach(u) == IF AllSites \in PlacesOf(u) THEN Places ELSE PlacesOf(u)

Idle == [step |-> "free", by |-> NoUser, user |-> NoUser,
         seen |-> {}, doomed |-> {}, fresh |-> {}, alone |-> TRUE]

Init ==
  /\ users = [u \in Users |-> IF u = Administrator THEN "active" ELSE "unused"]
  /\ sites = [s \in Sites |-> "unused"]
  /\ \E tag \in Tags : grants = {[user |-> Administrator, site |-> AllSites, tag |-> tag]}
  /\ credentials = [c \in Credentials |-> [user |-> NoUser, kind |-> "unused"]]
  /\ updatedBy = NoUser /\ actors = {}
  /\ request = [r \in Requests |-> Idle]
  /\ arrived = 0
  /\ latest = [u \in Users |-> IF u = Administrator THEN {AllSites} ELSE {}]
  /\ mixed = {}

-----------------------------------------------------------------------------
(* Requests *)

\* The caller of request r is known and its handler, of this kind, begins.
Begins(r, kind) == kind \in Kinds /\ request[r].step = "run"

Goto(r, step) == request' = [request EXCEPT ![r].step = step]

\* The request is answered.
Answer(r) == request' = [request EXCEPT ![r] = Idle]

\* The change is committed: its audit entry is next.
GoAudit(r) == request' = [request EXCEPT ![r] =
                [Idle EXCEPT !.step = "audit", !.by = request[r].by]]

\* The tables but for the one or ones a step changes.
userTables == <<users, grants, latest, mixed>>
otherTables == <<sites, credentials, updatedBy, actors>>

\* A credential that get_current_user() accepts.
Usable(c) ==
  /\ credentials[c].kind \in {"session", "api"}
  /\ users[credentials[c].user] = "active"

\* A request comes in and get_current_user() accepts its credential. What the
\* request asks for is chosen where its handler uses it.
Authenticate(r, c) ==
  /\ arrived < MaxRequests /\ arrived' = arrived + 1
  /\ request[r] = Idle
  /\ Usable(c)
  /\ request' = [request EXCEPT ![r] = [Idle EXCEPT !.step = "run", !.by = credentials[c].user]]
  /\ UNCHANGED <<userTables, otherTables>>

\* A statement fails or a connection is lost: a transaction is rolled back, a
\* deadlock's victim among them, and statements that committed stay.
Fail(r) ==
  /\ "fail" \in Disruptions
  /\ request[r] # Idle
  /\ Answer(r)
  /\ UNCHANGED <<userTables, otherTables>>

\* write_audit_log(): refused when the actor has been deleted meanwhile.
WriteAudit(r) ==
  /\ request[r].step = "audit"
  /\ actors' = IF Exists(request[r].by) THEN actors \cup {request[r].by} ELSE actors
  /\ Answer(r)
  /\ UNCHANGED <<userTables, sites, credentials, updatedBy>>

\* Rows that a transaction has deleted or inserted and not committed; others
\* that want to delete them, or what they refer to, wait.
Locked == UNION {request[r].doomed \cup request[r].fresh : r \in Requests}

FreeTags(u) ==
  LET rows == grants \cup UNION {request[r].seen \cup request[r].fresh : r \in Requests}
  IN Tags \ {g.tag : g \in {row \in rows : row.user = u}}

-----------------------------------------------------------------------------
(* users/router.py: the assignments *)

\* The requests that are changing user u's assignments.
Updating(u) ==
  {r \in Requests : request[r].user = u /\ request[r].step \in
                      {"grant", "snapshot", "delete", "insert", "commit"}}

\* The update of request r has become the latest of user u.
Becomes(r, u, places) ==
  /\ latest' = [latest EXCEPT ![u] = places]
  /\ mixed' = IF request[r].alone THEN mixed \ {u} ELSE mixed \cup {u}

\* update_user_roles(), SELECT ... FROM app_user.
FindUser(r, u) ==
  /\ Begins(r, "roles")
  /\ LET others == Updating(u)
     IN IF Exists(u)
        THEN request' = [q \in Requests |->
               CASE q = r -> [request[r] EXCEPT !.step = "snapshot", !.user = u, !.alone = (others = {})]
                 [] q \in others -> [request[q] EXCEPT !.alone = FALSE]
                 [] OTHER -> request[q]]
        ELSE Answer(r)
  /\ UNCHANGED <<userTables, otherTables>>

SnapshotLater(r) ==
  /\ request[r].step = "snapshot"
  /\ request' = [request EXCEPT ![r].seen = {}, ![r].step = "delete"]
  /\ UNCHANGED <<userTables, otherTables>>

\* DELETE begins: the rows it will look at are those committed now.
SnapshotGrants(r) ==
  /\ request[r].step = "snapshot"
  /\ request' = [request EXCEPT ![r].seen = GrantsOf(request[r].user), ![r].step = "delete"]
  /\ UNCHANGED <<userTables, otherTables>>

DeleteGrantsAtOnce(r) ==
  /\ request[r].step = "delete"
  /\ grants' = grants \ request[r].seen
  /\ request' = [request EXCEPT ![r].seen = {}, ![r].step = "insert"]
  /\ UNCHANGED <<users, latest, mixed, otherTables>>

\* DELETE ends, when nobody else's transaction holds one of its rows.
DeleteGrants(r) ==
  /\ request[r].step = "delete"
  /\ request[r].seen \cap Locked = {}
  /\ request' = [request EXCEPT ![r].doomed = request[r].seen \cap grants,
                                ![r].seen = {}, ![r].step = "insert"]
  /\ UNCHANGED <<userTables, otherTables>>

\* INSERT for each assignment: a site or a user that is gone is refused by its
\* foreign key, a role without a row by the handler, and all is rolled back.
InsertGrants(r) ==
  /\ request[r].step = "insert"
  /\ \/ Answer(r)
     \/ /\ Exists(request[r].user)
        /\ \E places \in SUBSET {s \in Places : Present(s)}, tag \in FreeTags(request[r].user) :
             request' = [request EXCEPT ![r].step = "commit",
               ![r].fresh = {[user |-> request[r].user, site |-> s, tag |-> tag] : s \in places}]
  /\ UNCHANGED <<userTables, otherTables>>

\* The audit entry, which an actor's deletion makes fail, and COMMIT.
CommitRoles(r) ==
  /\ request[r].step = "commit"
  /\ IF Exists(request[r].by)
     THEN /\ grants' = (grants \ request[r].doomed) \cup request[r].fresh
          /\ actors' = actors \cup {request[r].by}
          /\ Becomes(r, request[r].user, {g.site : g \in request[r].fresh})
     ELSE UNCHANGED <<grants, actors, latest, mixed>>
  /\ Answer(r)
  /\ UNCHANGED <<users, sites, credentials, updatedBy>>

-----------------------------------------------------------------------------
(* users/router.py: the accounts *)

\* invite_user(), INSERT INTO app_user; an email in use is refused.
InviteUser(r, u) ==
  /\ Begins(r, "invite")
  /\ IF users[u] = "unused"
     THEN /\ users' = [users EXCEPT ![u] = "active"]
          /\ request' = [request EXCEPT ![r].step = "grant", ![r].user = u]
     ELSE Answer(r) /\ UNCHANGED users
  /\ UNCHANGED <<grants, latest, mixed, otherTables>>

\* invite_user(), the role: without a row for it the account stays without one.
GrantRole(r) ==
  /\ request[r].step = "grant"
  /\ LET u == request[r].user
     IN \/ Answer(r) /\ UNCHANGED <<grants, latest, mixed>>
        \/ /\ Exists(u)
           /\ \E tag \in FreeTags(u) :
                grants' = grants \cup {[user |-> u, site |-> AllSites, tag |-> tag]}
           /\ Becomes(r, u, {AllSites})
           /\ GoAudit(r)
  /\ UNCHANGED <<users, otherTables>>

\* update_user_status().
UpdateStatus(r, u) ==
  /\ Begins(r, "status")
  /\ IF Exists(u)
     THEN /\ \E to \in {"active", "disabled"} : users' = [users EXCEPT ![u] = to]
          /\ GoAudit(r)
     ELSE Answer(r) /\ UNCHANGED users
  /\ UNCHANGED <<grants, latest, mixed, otherTables>>

\* The users that rows without ON DELETE CASCADE refer to.
Referenced == actors \cup {updatedBy} \cup {sites[s] : s \in Sites}

\* DELETE FROM app_user: assignments, sessions and API tokens go with the account.
RemoveUser(u) ==
  /\ users' = [users EXCEPT ![u] = "deleted"]
  /\ grants' = grants \ GrantsOf(u)
  /\ credentials' = [c \in Credentials |->
       IF credentials[c].user = u THEN [user |-> NoUser, kind |-> "unused"] ELSE credentials[c]]
  /\ latest' = [latest EXCEPT ![u] = {}]
  /\ mixed' = mixed \ {u}

DeleteUserCascading(r, u) ==
  /\ Begins(r, "delete")
  /\ u # request[r].by /\ Exists(u)
  /\ \A g \in Locked : g.user # u
  /\ RemoveUser(u)
  /\ GoAudit(r)
  /\ UNCHANGED <<sites, updatedBy, actors>>

\* delete_user(): one's own account and one that is referred to are refused.
DeleteUser(r, u) ==
  /\ Begins(r, "delete")
  /\ \A g \in Locked : g.user # u
  /\ IF u # request[r].by /\ Exists(u) /\ u \notin Referenced
     THEN RemoveUser(u) /\ GoAudit(r)
     ELSE Answer(r) /\ UNCHANGED <<userTables, credentials>>
  /\ UNCHANGED <<sites, updatedBy, actors>>

-----------------------------------------------------------------------------
(* sites/router.py and retention/router.py *)

\* create_site(): created_by must still exist.
CreateSite(r) ==
  /\ Begins(r, "createSite")
  /\ \/ /\ Exists(request[r].by)
        /\ \E s \in Sites : sites[s] = "unused" /\ sites' = [sites EXCEPT ![s] = request[r].by]
        /\ GoAudit(r)
     \/ Answer(r) /\ UNCHANGED sites
  /\ UNCHANGED <<userTables, credentials, updatedBy, actors>>

\* rename_site(): the name is data, the audit entry is not.
RenameSite(r) ==
  /\ Begins(r, "renameSite")
  /\ IF \E s \in Sites : sites[s] \in Users THEN GoAudit(r) ELSE Answer(r)
  /\ UNCHANGED <<userTables, otherTables>>

DeleteSiteToNull(r) ==
  /\ Begins(r, "deleteSite")
  /\ \E s \in Sites :
       /\ sites[s] \in Users
       /\ \A g \in Locked : g.site # s
       /\ sites' = [sites EXCEPT ![s] = "deleted"]
       /\ grants' = {IF g.site = s THEN [g EXCEPT !.site = AllSites] ELSE g : g \in grants}
       /\ GoAudit(r)
  /\ UNCHANGED <<users, latest, mixed, credentials, updatedBy, actors>>

\* delete_site(): the assignments to the site go with it.
DeleteSite(r) ==
  /\ Begins(r, "deleteSite")
  /\ \/ \E s \in Sites :
          /\ sites[s] \in Users
          /\ \A g \in Locked : g.site # s
          /\ sites' = [sites EXCEPT ![s] = "deleted"]
          /\ grants' = {g \in grants : g.site # s}
          /\ GoAudit(r)
     \/ /\ \A s \in Sites : sites[s] \notin Users
        /\ Answer(r)
        /\ UNCHANGED <<sites, grants>>
  /\ UNCHANGED <<users, latest, mixed, credentials, updatedBy, actors>>

\* update_retention_policy(): updated_by must still exist.
UpdateRetention(r) ==
  /\ Begins(r, "retention")
  /\ IF HasPolicy /\ Exists(request[r].by)
     THEN updatedBy' = request[r].by /\ GoAudit(r)
     ELSE Answer(r) /\ UNCHANGED updatedBy
  /\ UNCHANGED <<userTables, sites, credentials, actors>>

-----------------------------------------------------------------------------
(* auth/session.py and auth/api_tokens.py *)

\* login(): the account is read and the password is right.
BeginLogin(r, u) ==
  /\ "login" \in Kinds
  /\ arrived < MaxRequests /\ arrived' = arrived + 1
  /\ request[r] = Idle
  /\ users[u] = "active"
  /\ request' = [request EXCEPT ![r] =
       [Idle EXCEPT !.step = "session", !.by = u]]
  /\ UNCHANGED <<userTables, otherTables>>

\* The new credential's row, unless its user has been deleted meanwhile.
InsertCredential(r, kind) ==
  /\ IF Exists(request[r].by)
     THEN \E c \in Credentials :
            /\ credentials[c].kind = "unused"
            /\ credentials' = [credentials EXCEPT ![c] = [user |-> request[r].by, kind |-> kind]]
     ELSE UNCHANGED credentials
  /\ Answer(r)
  /\ UNCHANGED <<userTables, sites, updatedBy, actors>>

InsertSession(r) == request[r].step = "session" /\ InsertCredential(r, "session")

\* issue_token().
IssueToken(r) == Begins(r, "issue") /\ InsertCredential(r, "api")

\* revoke_token(): one of the caller's own.
RevokeToken(r) ==
  /\ Begins(r, "revoke")
  /\ \/ \E c \in Credentials :
          /\ credentials[c] = [user |-> request[r].by, kind |-> "api"]
          /\ credentials' = [credentials EXCEPT ![c] = [user |-> NoUser, kind |-> "unused"]]
     \/ UNCHANGED credentials
  /\ Answer(r)
  /\ UNCHANGED <<userTables, sites, updatedBy, actors>>

\* logout(), or the session's time is up.
EndSession(c) ==
  /\ credentials[c].kind = "session"
  /\ credentials' = [credentials EXCEPT ![c] = [user |-> NoUser, kind |-> "unused"]]
  /\ UNCHANGED <<userTables, sites, updatedBy, actors, request>>

-----------------------------------------------------------------------------
RolesStep(r) ==
  \/ \E u \in Users : FindUser(r, u)
  \/ SnapshotGrants(r) \/ DeleteGrants(r) \/ InsertGrants(r) \/ CommitRoles(r)

AccountStep(r) ==
  \/ \E u \in Users : InviteUser(r, u) \/ UpdateStatus(r, u) \/ DeleteUser(r, u)
  \/ GrantRole(r)

SiteStep(r) == CreateSite(r) \/ RenameSite(r) \/ DeleteSite(r) \/ UpdateRetention(r)

CredentialStep(r) == InsertSession(r) \/ IssueToken(r) \/ RevokeToken(r)

Arrive(r) ==
  \/ \E c \in Credentials : Authenticate(r, c)
  \/ \E u \in Users : BeginLogin(r, u)

Work(r) ==
  \/ RolesStep(r) \/ AccountStep(r) \/ SiteStep(r) \/ CredentialStep(r)
  \/ WriteAudit(r) \/ Fail(r)

Next ==
  \/ \E r \in Requests : Arrive(r)
  \/ (\E r \in Requests : Work(r)) /\ UNCHANGED arrived
  \/ (\E c \in Credentials : EndSession(c)) /\ UNCHANGED arrived

Spec == Init /\ [][Next]_vars

-----------------------------------------------------------------------------
(* Properties *)

Row == [user : Users, site : Places, tag : Tags]

\* Every variable has its type.
TypeOK ==
  /\ users \in [Users -> {"unused", "active", "disabled", "deleted"}]
  /\ sites \in [Sites -> Users \cup {"unused", "deleted"}]
  /\ grants \subseteq Row
  /\ credentials \in [Credentials -> [user : Users \cup {NoUser}, kind : {"unused", "session", "api"}]]
  /\ updatedBy \in Users \cup {NoUser}
  /\ actors \subseteq Users
  /\ request \in [Requests ->
       [step : {"free", "run", "grant", "snapshot", "delete", "insert", "commit", "audit", "session"},
        by : Users \cup {NoUser}, user : Users \cup {NoUser}, seen : SUBSET Row, doomed : SUBSET Row, fresh : SUBSET Row,
        alone : BOOLEAN]]
  /\ arrived \in 0..MaxRequests
  /\ latest \in [Users -> SUBSET Places]
  /\ mixed \subseteq Users

\* Every variable has its type.  Nothing outlives what it refers to: an
\* assignment its user and site, a credential its user; and whoever is in the
\* audit log, has created a site or changed the policy keeps the account, so that
\* the audit history stays
\* (users/router.py:208-215; migrations/0006, 0008).
ReferencesLive ==
  /\ TypeOK
  /\ \A g \in grants : Exists(g.user) /\ Present(g.site)
  /\ \A c \in Credentials : credentials[c].kind # "unused" => Exists(credentials[c].user)
  /\ \A u \in Referenced \cap Users : Exists(u)

\* After an update of a user's assignments that did not overlap with another one
\* the user has exactly the assignments it listed, less those to sites deleted
\* since, whatever else happens to users and sites meanwhile
\* (users/router.py:134, 144-164).
ReplacedUnlessMixed ==
  \A u \in Users : Exists(u) /\ u \notin mixed => PlacesOf(u) = {s \in latest[u] : Present(s)}

\* A user's reach grows only by an update of that user's own assignments, never
\* by what happens to a site or to another user (migrations/0006:14).
OnlyUpdatesWiden ==
  [][\A u \in Users :
       Reach(u)' \subseteq Reach(u)
         \/ \E r \in Requests :
              request[r].user = u /\ request[r].step \in {"grant", "commit"} /\ request'[r] # request[r]]_vars

\* A user who has assignments is never left without any by an update that lists
\* some, not even for the moment between its DELETE and its INSERTs
\* (users/router.py:144-145).
NeverStripped ==
  [][\A u \in Users :
       PlacesOf(u) # {} /\ PlacesOf(u)' = {} =>
         \/ users'[u] = "deleted"
         \/ \E s \in Sites : sites'[s] # sites[s]
         \/ latest'[u] = {}]_vars

(* What the documents promise and the code does not keep *)

\* users/router.py:134 "Replaces the user's role/site-scope assignments": the
\* assignments a user has are those of one update.
RolesReplaced == \A u \in Users : Cardinality({g.tag : g \in GrantsOf(u)}) <= 1
=============================================================================
