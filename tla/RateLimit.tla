----------------------------- MODULE RateLimit ------------------------------
(***************************************************************************)
(* The gateway's rate limiter (gateway/src/middleware/rate_limit.py): each *)
(* request of a client increments the client's counter of the minute, the  *)
(* request that creates it gives it an expiry in a second command, and the *)
(* answer of the increment decides.  Requests run at the same time, may be *)
(* carried out after their minute, and fail at either command.             *)
(*                                                                         *)
(* The keys of two clients have nothing in common: this is one client.     *)
(***************************************************************************)
EXTENDS Clock, FiniteSets

CONSTANTS
  Requests,  \* bound: the requests the client will send
  LIMIT,     \* rate_limit_per_minute
  MINUTE     \* the ticks of a minute

ASSUME RateAssumption == LIMIT \in Nat \ {0} /\ MINUTE \in Nat \ {0}

VARIABLES
  stage,    \* how far dispatch() has come with each request
  minute,   \* the number of the minute in the key of each request
  count,    \* what INCR made of the counter for each request
  inTime,   \* history: whether that was within the minute of the key
  counter,  \* the value of the key of each minute, 0 when there is none
  ends      \* when that key expires, 0 for a key without an expiry

limiterVars == <<stage, minute, count, inTime, counter, ends>>

Minutes == 0..(Horizon \div MINUTE)

LimiterInit ==
  /\ stage = [r \in Requests |-> "new"]
  /\ minute = [r \in Requests |-> 0]
  /\ count = [r \in Requests |-> 0]
  /\ inTime = [r \in Requests |-> FALSE]
  /\ counter = [m \in Minutes |-> 0]
  /\ ends = [m \in Minutes |-> 0]

-----------------------------------------------------------------------------
\* The number of the minute.
Key == clock \div MINUTE

\* dispatch() computes the key.
Arrive(r) ==
  /\ stage[r] = "new"
  /\ stage' = [stage EXCEPT ![r] = "keyed"]
  /\ minute' = [minute EXCEPT ![r] = Key]
  /\ UNCHANGED <<clock, count, inTime, counter, ends>>

\* More than the limit: 429.
Verdict(n) == IF n > LIMIT THEN "refused" ELSE "admitted"

\* INCR, which creates a key that has expired meanwhile anew.
Count(r) ==
  /\ counter' = [counter EXCEPT ![minute[r]] = @ + 1]
  /\ count' = [count EXCEPT ![r] = counter[minute[r]] + 1]
  /\ inTime' = [inTime EXCEPT ![r] = minute[r] = Key]

Increment(r) ==
  /\ stage[r] = "keyed"
  /\ Count(r)
  /\ stage' = [stage EXCEPT ![r] = IF count'[r] = 1 THEN "first" ELSE Verdict(count'[r])]
  /\ UNCHANGED <<clock, minute, ends>>

ShortLifetime == MINUTE - 1

\* The argument of EXPIRE.
LIFETIME == MINUTE

\* EXPIRE, by the request that has created the key.
SetExpiry(r) ==
  /\ stage[r] = "first"
  /\ ends' = [ends EXCEPT ![minute[r]] = clock + LIFETIME]
  /\ stage' = [stage EXCEPT ![r] = Verdict(1)]
  /\ UNCHANGED <<clock, minute, count, inTime, counter>>

\* Redis fails, before or after it has carried out the command: 500.
RedisFails(r) ==
  /\ \/ stage[r] = "keyed" /\ Count(r) /\ UNCHANGED ends
     \/ stage[r] = "first" /\ ends' = [ends EXCEPT ![minute[r]] = clock + LIFETIME]
                           /\ UNCHANGED <<count, inTime, counter>>
     \/ stage[r] \in {"keyed", "first"} /\ UNCHANGED <<count, inTime, counter, ends>>
  /\ stage' = [stage EXCEPT ![r] = "failed"]
  /\ UNCHANGED <<clock, minute>>

\* Time passes, and Redis drops the keys that have expired.
LimiterTick ==
  /\ Tick
  /\ LET gone == {m \in Minutes : 0 < ends[m] /\ ends[m] <= clock'}
     IN /\ counter' = [m \in Minutes |-> IF m \in gone THEN 0 ELSE counter[m]]
        /\ ends' = [m \in Minutes |-> IF m \in gone THEN 0 ELSE ends[m]]
  /\ UNCHANGED <<stage, minute, count, inTime>>

LimiterNext ==
  \/ \E r \in Requests : Arrive(r) \/ Increment(r) \/ SetExpiry(r) \/ RedisFails(r)
  \/ LimiterTick

LimiterSpec == clock = 0 /\ LimiterInit /\ [][LimiterNext]_<<clock, limiterVars>>

-----------------------------------------------------------------------------
(* Properties *)

\* Every variable has its type.
LimiterTypeOK ==
  /\ clock \in 0..Horizon
  /\ stage \in [Requests -> {"new", "keyed", "first", "admitted", "refused", "failed"}]
  /\ minute \in [Requests -> Minutes]
  /\ count \in [Requests -> Nat]
  /\ inTime \in [Requests -> BOOLEAN]
  /\ counter \in [Minutes -> Nat]
  /\ ends \in [Minutes -> Nat]

\* The requests of a minute that were counted before it was over.
InTime(m) == {r \in Requests : minute[r] = m /\ inTime[r]}

\* Of the requests that are counted within their minute at most LIMIT are
\* admitted, however they interleave and whichever of them fail: the key cannot
\* expire before its minute is over.  And a request is refused only when LIMIT
\* others of its minute were counted before it, those that failed included: no
\* minute is charged for an earlier one (rate_limit.py:32-42).
LimitHolds ==
  /\ \A m \in Minutes : Cardinality({r \in InTime(m) : stage[r] = "admitted"}) <= LIMIT
  /\ \A r \in Requests : stage[r] = "refused" =>
       \A n \in 1..LIMIT : \E q \in Requests \ {r} : minute[q] = minute[r] /\ count[q] = n
=============================================================================
