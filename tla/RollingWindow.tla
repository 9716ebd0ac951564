--------------------------- MODULE RollingWindow ----------------------------
(***************************************************************************)
(* The rolling windows of flows that the alerting service (volume_window.  *)
(* py) and the realtime service (aggregator.py) each keep in Redis: one    *)
(* sorted set per site, scored by the time at which a record was taken     *)
(* from Kafka, which every write trims and gives a new expiry.  A reader   *)
(* asks for the records of the last so many seconds, site by site, while   *)
(* the consumer writes on and Redis drops what has expired.                *)
(*                                                                         *)
(* Both services do the same with other numbers, so a behaviour follows    *)
(* one of them.  What is summed up, bytes or packets, is left out: a sum   *)
(* is the set of the records it counts.                                    *)
(***************************************************************************)
EXTENDS Clock

CONSTANTS
  Records,   \* bound: the records that will be taken from Kafka
  Sites,
  SiteOf,    \* the site of each record
  Services,  \* the services that keep windows
  Trim,      \* the age at which a service trims a member
  Expiry,    \* how long a key of a service lives after the last write to it
  Reads,     \* the sites and the window a reader of a service may ask for
  None

ASSUME WindowAssumption ==
  /\ SiteOf \in [Records -> Sites]
  /\ Trim \in [Services -> Nat] /\ Expiry \in [Services -> Nat]
  /\ \A s \in Services : Trim[s] <= Expiry[s]
  /\ Reads \in [Services -> SUBSET ((SUBSET Sites) \X Nat)]
  /\ None \notin Records

VARIABLES
  service,   \* the service that this behaviour follows
  alive,     \* its consume loop runs
  pending,   \* the record whose transaction is awaited
  stamp,     \* the time it was stamped with
  recorded,  \* history: the records whose transaction Redis has carried out
  at,        \* history: the scores of these records
  members,   \* the records in the sorted sets
  expires,   \* when the sorted set of each site goes, if it is there
  known,     \* the set of known sites, which never goes
  reader     \* a sum under way: call, window, sites left and records counted

windowVars == <<service, alive, pending, stamp, recorded, at, members, expires, known, reader>>

WindowInit ==
  /\ service \in Services
  /\ alive = TRUE
  /\ pending = None
  /\ stamp = 0
  /\ recorded = {}
  /\ at = [f \in Records |-> 0]
  /\ members = {}
  /\ expires = [s \in Sites |-> 0]
  /\ known = {}
  /\ reader = None

-----------------------------------------------------------------------------
(* The consumer *)

\* The consume loop takes a record and stamps it with time.time().
TakeRecord(f) ==
  /\ alive /\ pending = None
  /\ f \in Records \ recorded
  /\ pending' = f
  /\ stamp' = clock
  /\ UNCHANGED <<clock, service, alive, recorded, at, members, expires, known, reader>>

TouchOnce(s) == IF expires[s] > clock THEN expires ELSE [expires EXCEPT ![s] = clock + Expiry[service]]

\* EXPIRE
Touch(s) == [expires EXCEPT ![s] = clock + Expiry[service]]

\* ZREMRANGEBYSCORE: the members of f's site that f leaves behind.
Trimmed(f) == {g \in members : SiteOf[g] = SiteOf[f] /\ at[g] + Trim[service] <= stamp}

\* Redis carries out the transaction of record_bytes() or record_event().
Record(f) ==
  /\ members' = (members \ Trimmed(f)) \cup {f}
  /\ expires' = Touch(SiteOf[f])
  /\ known' = known \cup {SiteOf[f]}
  /\ recorded' = recorded \cup {f}
  /\ at' = [at EXCEPT ![f] = stamp]

Done == pending' = None /\ stamp' = 0

WriteRecord ==
  /\ pending # None
  /\ Record(pending)
  /\ Done
  /\ UNCHANGED <<clock, service, alive, reader>>

\* Redis fails, before or after it has carried the transaction out: the error
\* ends the consume loop, which nothing awaits.
WriteFails ==
  /\ pending # None
  /\ \/ Record(pending)
     \/ UNCHANGED <<recorded, at, members, expires, known>>
  /\ Done
  /\ alive' = FALSE
  /\ UNCHANGED <<clock, service, reader>>

\* The service is started again and takes up what was not committed.
RestartService ==
  /\ alive' = TRUE
  /\ Done
  /\ reader' = None
  /\ UNCHANGED <<clock, service, recorded, at, members, expires, known>>

-----------------------------------------------------------------------------
(* The readers *)

\* sum_window() or get_site_summary() takes the time it sums up to.
BeginSum(sites, window) ==
  /\ reader = None
  /\ <<sites, window>> \in Reads[service]
  /\ reader' = [call |-> clock, window |-> window, left |-> sites, counted |-> {},
                due |-> {f \in recorded : SiteOf[f] \in sites /\ clock <= at[f] + window}]
  /\ UNCHANGED <<clock, service, alive, pending, stamp, recorded, at, members, expires, known>>

ReadSiteNow(s) ==
  /\ reader # None /\ s \in reader.left
  /\ reader' = [reader EXCEPT !.left = @ \ {s},
                  !.counted = @ \cup {f \in members : SiteOf[f] = s /\ clock <= at[f] + reader.window}]
  /\ UNCHANGED <<clock, service, alive, pending, stamp, recorded, at, members, expires, known>>

\* ZRANGEBYSCORE from the start of the window to the time of the call.
ReadSite(s) ==
  /\ reader # None /\ s \in reader.left
  /\ reader' = [reader EXCEPT !.left = @ \ {s},
                  !.counted = @ \cup {f \in members : /\ SiteOf[f] = s /\ at[f] <= reader.call
                                                      /\ reader.call <= at[f] + reader.window}]
  /\ UNCHANGED <<clock, service, alive, pending, stamp, recorded, at, members, expires, known>>

\* The sum is complete, or Redis fails and the reader gives up.
EndSum ==
  /\ reader # None
  /\ reader' = None
  /\ UNCHANGED <<clock, service, alive, pending, stamp, recorded, at, members, expires, known>>

\* Time passes, and Redis drops the sorted sets that have expired.
WindowTick ==
  /\ Tick
  /\ members' = {f \in members : clock' < expires[SiteOf[f]]}
  /\ UNCHANGED <<service, alive, pending, stamp, recorded, at, expires, known, reader>>

WindowNext ==
  \/ \E f \in Records : TakeRecord(f)
  \/ WriteRecord \/ WriteFails \/ RestartService
  \/ \E sites \in SUBSET Sites, window \in {read[2] : read \in Reads[service]} : BeginSum(sites, window)
  \/ \E s \in Sites : ReadSite(s)
  \/ EndSum
  \/ WindowTick

WindowSpec == clock = 0 /\ WindowInit /\ [][WindowNext]_<<clock, windowVars>>

-----------------------------------------------------------------------------
(* Properties *)

\* Every variable has its type.
WindowTypeOK ==
  /\ clock \in Nat
  /\ service \in Services
  /\ alive \in BOOLEAN
  /\ pending \in Records \cup {None}
  /\ stamp \in Nat
  /\ at \in [Records -> Nat]
  /\ recorded \subseteq Records /\ members \subseteq recorded
  /\ expires \in [Sites -> Nat]
  /\ known \subseteq Sites
  /\ reader = None \/ reader \in [call : Nat, window : Nat, left : SUBSET Sites,
                                  counted : SUBSET Records, due : SUBSET Records]

\* What has been recorded stays in its window until it is as old as the service
\* trims, whatever is recorded after it, however late its own transaction was
\* carried out, and although every key expires; and its site stays known
\* (volume_window.py:33-49, aggregator.py:42-68).
RecordedIsKept ==
  \A f \in recorded :
    /\ clock < at[f] + Trim[service] => f \in members
    /\ SiteOf[f] \in known

\* A sum counts the records of its window as of the call, although the sites are
\* read one after the other while records come and go: none of another time, and
\* of those recorded by then it misses only what the service had to trim, which
\* it must when the rule's window is longer than an hour (volume_window.py:41,
\* 52-61, aggregator.py:71-76).
SumAsOfCall ==
  reader # None =>
    /\ \A f \in reader.counted : at[f] <= reader.call /\ reader.call <= at[f] + reader.window
    /\ \A f \in reader.due :
         SiteOf[f] \in reader.left \/ f \in reader.counted \/ at[f] + Trim[service] <= clock
=============================================================================
