----------------------------- MODULE Retention ------------------------------
(***************************************************************************)
(* How long flow records are kept: the retention policy in identity's      *)
(* database, the flow writer's loop that copies it into the TTL of         *)
(* ClickHouse's table once an hour (retention_purge.py), and the merges of *)
(* ClickHouse, which delete rows older than the TTL some time after that.  *)
(*                                                                         *)
(* Ages count days and stop at Cap, beyond every policy: an age is only    *)
(* ever compared with a number of days.                                    *)
(***************************************************************************)
EXTENDS Naturals, FiniteSets

CONSTANTS
  Flows,       \* bound: the flow records that will ever be stored
  Policies,    \* the numbers of days an administrator may choose
  NoPolicy,    \* retention_policy has no row, which no code ever inserts
  Cap,         \* bound: where ages stop
  MaxChanges,  \* bound: how often administrators change something
  MaxFaults,   \* bound: how often something goes wrong
  Disruptions  \* what may go wrong besides the normal operations

\* The default of the flow writer, of identity's internal route and of the
\* query API, and the TTL the table is created with, in days.
DEFAULT_DAYS == 1

ASSUME RetentionAssumption ==
  /\ Policies \subseteq Nat \ {0} /\ NoPolicy \notin Nat
  /\ Cap \in Nat /\ Cap > DEFAULT_DAYS /\ \A p \in Policies : Cap > p
  /\ MaxChanges \in Nat /\ MaxFaults \in Nat
  /\ Disruptions \subseteq {"purge", "identity", "database", "proxy"}

VARIABLES
  policy,    \* retention_policy.duration_days
  ttl,       \* the TTL of flow_record, in days
  loop,      \* run_retention_purge_loop(): where it is, and the days it has read
  flow,      \* what became of each flow record
  age,       \* how old each stored flow record is
  changes,   \* how often administrators have changed something
  faults     \* how often something has gone wrong

storeVars == <<policy, ttl, loop, flow, age, changes, faults>>

Days(p) == IF p = NoPolicy THEN DEFAULT_DAYS ELSE p

Older(a) == IF a < Cap THEN a + 1 ELSE Cap

Starting == [step |-> "starting", days |-> 0]
Asleep == [step |-> "asleep", days |-> 0]

StoreInit ==
  /\ policy \in Policies \cup {NoPolicy}
  /\ ttl = DEFAULT_DAYS
  /\ loop = Starting
  /\ flow = [f \in Flows |-> "none"]
  /\ age = [f \in Flows |-> 0]
  /\ changes = 0
  /\ faults = 0

Change ==
  /\ changes < MaxChanges
  /\ changes' = changes + 1

Fault(kind) ==
  /\ kind \in Disruptions
  /\ faults < MaxFaults
  /\ faults' = faults + 1

-----------------------------------------------------------------------------
\* update_retention_policy(), which needs a row to update.
UpdatePolicy(days) ==
  /\ policy # NoPolicy /\ policy # days
  /\ Change
  /\ policy' = days
  /\ UNCHANGED <<ttl, loop, flow, age, faults>>

\* _current_retention_days(), after a sleep or when the service has started and
\* has made its pool of connections.
ReadPolicy ==
  /\ loop \in {Starting, Asleep}
  /\ loop' = [step |-> "alter", days |-> Days(policy)]
  /\ UNCHANGED <<policy, ttl, flow, age, changes, faults>>

\* The ALTER TABLE ... MODIFY TTL of apply_retention_ttl().
Alter ==
  /\ loop.step = "alter"
  /\ ttl' = loop.days
  /\ loop' = Asleep
  /\ UNCHANGED <<policy, flow, age, changes, faults>>

PurgeFallsBack ==
  /\ loop.step # "unpooled" /\ Fault("purge")
  /\ loop' = [step |-> "alter", days |-> DEFAULT_DAYS]
  /\ UNCHANGED <<policy, ttl, flow, age, changes>>

PurgeLoopDies ==
  /\ loop.step # "unpooled" /\ Fault("purge")
  /\ loop' = [step |-> "dead", days |-> 0]
  /\ UNCHANGED <<policy, ttl, flow, age, changes>>

\* PostgreSQL or ClickHouse fails: the loop logs it and sleeps until the next
\* interval.
PurgeFails ==
  /\ loop.step # "unpooled" /\ Fault("purge")
  /\ loop' = Asleep
  /\ UNCHANGED <<policy, ttl, flow, age, changes>>

\* create_pool() fails, before the loop's try: the task ends with the exception
\* and the service goes on without it.
PoolFails ==
  /\ loop = Starting
  /\ Fault("purge")
  /\ loop' = [step |-> "unpooled", days |-> 0]
  /\ UNCHANGED <<policy, ttl, flow, age, changes>>

\* The flow writer is started again.
RestartLoop ==
  /\ loop # Starting /\ Fault("purge")
  /\ loop' = Starting
  /\ UNCHANGED <<policy, ttl, flow, age, changes>>

-----------------------------------------------------------------------------
(* ClickHouse and the traffic *)

\* The flow writer inserts a flow record of now.
Store(f) ==
  /\ flow[f] = "none"
  /\ flow' = [flow EXCEPT ![f] = "stored"]
  /\ UNCHANGED <<policy, ttl, loop, age, changes, faults>>

\* A merge deletes a row whose time is up.
Purge(f) ==
  /\ flow[f] = "stored" /\ age[f] >= ttl
  /\ flow' = [flow EXCEPT ![f] = "purged"]
  /\ age' = [age EXCEPT ![f] = 0]
  /\ UNCHANGED <<policy, ttl, loop, changes, faults>>

DayPasses ==
  /\ age' = [f \in Flows |-> IF flow[f] = "stored" THEN Older(age[f]) ELSE 0]
  /\ UNCHANGED <<policy, ttl, loop, flow, changes, faults>>

PurgeLoop == ReadPolicy \/ Alter \/ PurgeFails \/ PoolFails

StoreStep ==
  \/ \E days \in Policies : UpdatePolicy(days)
  \/ PurgeLoop \/ RestartLoop
  \/ \E f \in Flows : Store(f) \/ Purge(f)

=============================================================================
