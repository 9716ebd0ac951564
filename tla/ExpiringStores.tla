--------------------------- MODULE ExpiringStores ---------------------------
(***************************************************************************)
(* The three stores in which FlowMaster lets data expire, side by side:    *)
(* the rows of ClickHouse (Retention), the rolling windows (RollingWindow) *)
(* and the counters of the rate limiter (RateLimit) in Redis.  Each has an *)
(* expiry that is set apart from the data and that runs while others write *)
(* and read.                                                               *)
(*                                                                         *)
(* They share the clock and nothing else: no key or table belongs to two.  *)
(* So the behaviours of their composition are those of its components, and *)
(* a behaviour here lets one of them move.  The properties of each speak   *)
(* of its own variables only.                                              *)
(***************************************************************************)
EXTENDS Retention, RollingWindow, RateLimit

VARIABLES
  moving,    \* the component that moves
  inForce,   \* history: the numbers of days in force since the TTL's was read
  sinceRead  \* history: the same since the purge loop last read the policy

historyVars == <<inForce, sinceRead>>
vars == <<moving, clock, storeVars, windowVars, limiterVars, historyVars>>

Init ==
  /\ moving \in {"retention", "window", "limiter"}
  /\ clock = 0
  /\ StoreInit /\ (moving # "retention" => policy = NoPolicy)
  /\ WindowInit /\ (moving # "window" => service = CHOOSE s \in Services : TRUE)
  /\ LimiterInit
  /\ inForce = {DEFAULT_DAYS, Days(policy)}
  /\ sinceRead = {Days(policy)}

\* The retention's steps, and what they mean for the numbers of days in force.
LoopStep ==
  \/ ReadPolicy /\ sinceRead' = {Days(policy)} /\ UNCHANGED inForce
  \/ Alter /\ inForce' = sinceRead /\ UNCHANGED sinceRead
  \/ (PurgeFails \/ PoolFails) /\ UNCHANGED historyVars

RetentionStep ==
  \/ \E days \in Policies :
       UpdatePolicy(days) /\ inForce' = inForce \cup {days} /\ sinceRead' = sinceRead \cup {days}
  \/ LoopStep
  \/ (RestartLoop \/ DayPasses \/ \E f \in Flows : Store(f) \/ Purge(f)) /\ UNCHANGED historyVars

Next ==
  /\ \/ /\ moving = "retention" /\ RetentionStep
        /\ UNCHANGED <<clock, windowVars, limiterVars>>
     \/ /\ moving = "window" /\ WindowNext
        /\ UNCHANGED <<storeVars, limiterVars, historyVars>>
     \/ /\ moving = "limiter" /\ LimiterNext
        /\ UNCHANGED <<storeVars, windowVars, historyVars>>
  /\ UNCHANGED moving

\* The purge loop's sleep ends, and PostgreSQL and ClickHouse answer or fail.
Spec ==
  /\ Init /\ [][Next]_vars
  /\ WF_vars(moving = "retention" /\ LoopStep /\ UNCHANGED <<moving, clock, windowVars, limiterVars>>)

-----------------------------------------------------------------------------
(* Properties of the retention, which need the history *)

\* A row is only deleted at an age that reaches a number of days that was in
\* force at some time since the policy was read that is the TTL now: failures
\* of the loop never shorten the retention (retention_purge.py:22-48).
PurgedUnderAPolicy ==
  [][\A f \in Flows :
       flow[f] = "stored" /\ flow'[f] = "purged" => \E days \in inForce : age[f] >= days]_vars

\* A policy that is left alone becomes the TTL, whatever failed before, unless
\* the loop could not make its pool (retention_purge.py:41-48).
PolicyTakesEffect ==
  moving = "retention" =>
    \A p \in Policies : <>[](policy = p) => <>[](ttl = p) \/ <>[](loop.step = "unpooled")
=============================================================================
