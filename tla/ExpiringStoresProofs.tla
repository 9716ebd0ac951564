------------------------ MODULE ExpiringStoresProofs ------------------------
(***************************************************************************)
(* Proofs about the stores in which data expires, for any records, rows,   *)
(* requests, policies, times and windows, and any number of changes and    *)
(* faults.  Each store is proved about first; the composition then         *)
(* implements the specification of each of them, because a component that  *)
(* does not move has nothing the clock could take away.                    *)
(***************************************************************************)
EXTENDS ExpiringStores, FiniteSetTheorems, TLAPS

-----------------------------------------------------------------------------
(* The rolling windows *)

\* A record awaited was stamped before now, and is not in Redis.
PendingStamped == pending # None => stamp <= clock /\ pending \notin recorded

\* What is recorded is not of the future, and outlives neither its site's key
\* nor, without being trimmed, its set.
Kept ==
  \A f \in recorded :
    /\ at[f] <= clock
    /\ SiteOf[f] \in known
    /\ at[f] + Expiry[service] <= expires[SiteOf[f]]
    /\ f \in members \/ at[f] + Trim[service] <= clock

\* The records that f counts or must count are those of its window.
InWindow(f) ==
  f \in recorded /\ at[f] <= reader.call /\ reader.call <= at[f] + reader.window

ReaderExact ==
  reader # None =>
    /\ reader.call <= clock
    /\ \A f \in reader.counted : InWindow(f)
    /\ \A f \in reader.due : InWindow(f)
    /\ \A f \in reader.due :
         SiteOf[f] \in reader.left \/ f \in reader.counted \/ at[f] + Trim[service] <= clock

WindowInv == WindowTypeOK /\ PendingStamped /\ Kept /\ ReaderExact

-----------------------------------------------------------------------------
\* A transaction, carried out late or never answered, keeps every record that is
\* younger than Trim.
LEMMA RecordKeepsWindow ==
  ASSUME WindowInv, pending # None, Record(pending), pending' = None, stamp' = 0,
         alive' \in BOOLEAN, UNCHANGED <<clock, service, reader>>
  PROVE  WindowInv'
<1> USE WindowAssumption
<1>1. pending \in Records /\ SiteOf[pending] \in Sites /\ stamp \in Nat /\ stamp <= clock
      /\ pending \notin recorded
  BY DEF WindowInv, WindowTypeOK, PendingStamped
<1>2. /\ recorded' = recorded \cup {pending}
      /\ at' = [at EXCEPT ![pending] = stamp]
      /\ expires' = [expires EXCEPT ![SiteOf[pending]] = clock + Expiry[service]]
      /\ known' = known \cup {SiteOf[pending]}
      /\ members' = (members \ Trimmed(pending)) \cup {pending}
  BY DEF Record, Touch
<1>3. Expiry[service] \in Nat /\ Trim[service] \in Nat /\ clock \in Nat /\ service' = service
      /\ clock' = clock /\ reader' = reader
  BY DEF WindowInv, WindowTypeOK
<1>4. WindowTypeOK'
  BY <1>1, <1>2, <1>3 DEF WindowInv, WindowTypeOK, Trimmed
<1>5. \A f \in recorded : f \in Records /\ f # pending /\ at'[f] = at[f] /\ at[f] \in Nat
                          /\ SiteOf[f] \in Sites
  BY <1>1, <1>2 DEF WindowInv, WindowTypeOK
<1>6. Kept'
  <2>1. ASSUME NEW f \in recorded
        PROVE  /\ at'[f] <= clock' /\ SiteOf[f] \in known'
               /\ at'[f] + Expiry[service'] <= expires'[SiteOf[f]]
               /\ f \in members' \/ at'[f] + Trim[service'] <= clock'
    <3>1. at'[f] = at[f] /\ at[f] \in Nat /\ SiteOf[f] \in Sites /\ at[f] <= clock /\ SiteOf[f] \in known
          /\ at[f] + Expiry[service] <= expires[SiteOf[f]]
          /\ (f \in members \/ at[f] + Trim[service] <= clock)
      BY <1>5 DEF WindowInv, Kept
    <3>2. at[f] + Expiry[service] <= expires'[SiteOf[f]]
      <4>1. CASE SiteOf[f] = SiteOf[pending]
        BY <1>2, <1>3, <3>1, <4>1 DEF WindowInv, WindowTypeOK
      <4>2. CASE SiteOf[f] # SiteOf[pending]
        BY <1>2, <3>1, <4>2 DEF WindowInv, WindowTypeOK
      <4> QED
        BY <4>1, <4>2
    <3>3. f \in Trimmed(pending) => at[f] + Trim[service] <= clock
      BY <1>1, <1>3, <3>1 DEF Trimmed
    <3> QED
      BY <1>2, <1>3, <3>1, <3>2, <3>3
  <2>2. /\ at'[pending] <= clock' /\ SiteOf[pending] \in known'
        /\ at'[pending] + Expiry[service'] <= expires'[SiteOf[pending]]
        /\ pending \in members'
    BY <1>1, <1>2, <1>3 DEF WindowInv, WindowTypeOK
  <2> QED
    BY <1>2, <2>1, <2>2 DEF Kept
<1>7. ReaderExact'
  BY <1>2, <1>3, <1>5 DEF WindowInv, ReaderExact, InWindow
<1>8. PendingStamped'
  BY DEF PendingStamped
<1> QED
  BY <1>4, <1>6, <1>7, <1>8 DEF WindowInv

-----------------------------------------------------------------------------
\* The steps that leave the sets of Redis alone: taking a record, a transaction
\* that fails before it is carried out, and a restart.
LEMMA ConsumerKeepsWindow ==
  ASSUME WindowInv, pending' = None \/ (pending' \in Records \ recorded /\ stamp' = clock),
         stamp' \in Nat, alive' \in BOOLEAN, reader' = reader \/ reader' = None,
         UNCHANGED <<clock, service, recorded, at, members, expires, known>>
  PROVE  WindowInv'
<1> USE WindowAssumption
<1>1. WindowTypeOK'
  BY DEF WindowInv, WindowTypeOK
<1>2. PendingStamped'
  BY DEF WindowInv, WindowTypeOK, PendingStamped
<1>3. Kept'
  BY DEF WindowInv, Kept
<1>4. ReaderExact'
  BY DEF WindowInv, ReaderExact, InWindow
<1> QED
  BY <1>1, <1>2, <1>3, <1>4 DEF WindowInv

\* A reader that is idle or has given up says nothing.
LEMMA NoReaderKeepsWindow ==
  ASSUME WindowInv, reader' = None,
         UNCHANGED <<clock, service, alive, pending, stamp, recorded, at, members, expires, known>>
  PROVE  WindowInv'
BY DEF WindowInv, WindowTypeOK, PendingStamped, Kept, ReaderExact

\* A sum begins with nothing counted and all its sites left.
LEMMA BeginKeepsWindow ==
  ASSUME WindowInv, NEW sites \in SUBSET Sites, NEW window, BeginSum(sites, window)
  PROVE  WindowInv'
<1> USE WindowAssumption
<1> DEFINE due == {f \in recorded : SiteOf[f] \in sites /\ clock <= at[f] + window}
<1>1. window \in Nat /\ service \in Services /\ clock \in Nat /\ recorded \subseteq Records
  BY DEF WindowInv, WindowTypeOK, BeginSum
<1>2. reader' = [call |-> clock, window |-> window, left |-> sites, counted |-> {}, due |-> due]
  BY DEF BeginSum
<1>3. UNCHANGED <<clock, service, alive, pending, stamp, recorded, at, members, expires, known>>
  BY DEF BeginSum
<1>4. reader' \in [call : Nat, window : Nat, left : SUBSET Sites,
                   counted : SUBSET Records, due : SUBSET Records]
  BY <1>1, <1>2
<1>5. WindowTypeOK'
  BY <1>3, <1>4 DEF WindowInv, WindowTypeOK
<1>6. PendingStamped' /\ Kept'
  BY <1>3 DEF WindowInv, PendingStamped, Kept
<1>7. ASSUME NEW f \in due
      PROVE  f \in recorded /\ at[f] <= clock /\ clock <= at[f] + window /\ SiteOf[f] \in sites
  BY DEF WindowInv, Kept
<1>8. reader'.call = clock /\ reader'.window = window /\ reader'.left = sites
      /\ reader'.counted = {} /\ reader'.due = due
  BY <1>2
<1>9. ReaderExact'
  BY <1>1, <1>3, <1>7, <1>8 DEF ReaderExact, InWindow
<1> QED
  BY <1>5, <1>6, <1>9 DEF WindowInv

\* Whatever has come or gone since the call, a site that is read yields all that
\* was due of it and has not reached the age at which it is trimmed.
LEMMA ReadKeepsWindow ==
  ASSUME WindowInv, NEW s \in Sites, ReadSite(s)
  PROVE  WindowInv'
<1> USE WindowAssumption
<1> DEFINE found == {f \in members : /\ SiteOf[f] = s /\ at[f] <= reader.call
                                     /\ reader.call <= at[f] + reader.window}
<1>1. reader # None /\ reader \in [call : Nat, window : Nat, left : SUBSET Sites,
                                   counted : SUBSET Records, due : SUBSET Records]
  BY DEF WindowInv, WindowTypeOK, ReadSite
<1>2. reader' = [reader EXCEPT !.left = @ \ {s}, !.counted = @ \cup found]
  BY DEF ReadSite
<1>3. UNCHANGED <<clock, service, alive, pending, stamp, recorded, at, members, expires, known>>
  BY DEF ReadSite
<1>4. members \subseteq recorded /\ recorded \subseteq Records
  BY DEF WindowInv, WindowTypeOK
<1>5. /\ reader'.call = reader.call /\ reader'.window = reader.window
      /\ reader'.left = reader.left \ {s} /\ reader'.due = reader.due
      /\ reader'.counted = reader.counted \cup found
  BY <1>1, <1>2
<1>6. reader' \in [call : Nat, window : Nat, left : SUBSET Sites,
                   counted : SUBSET Records, due : SUBSET Records]
  BY <1>1, <1>2, <1>4
<1>7. WindowTypeOK'
  BY <1>3, <1>6 DEF WindowInv, WindowTypeOK
<1>8. PendingStamped' /\ Kept'
  BY <1>3 DEF WindowInv, PendingStamped, Kept
<1>9. ASSUME NEW f \in reader.due
      PROVE  SiteOf[f] \in reader'.left \/ f \in reader'.counted \/ at[f] + Trim[service] <= clock
  <2>1. InWindow(f) /\ (SiteOf[f] \in reader.left \/ f \in reader.counted \/ at[f] + Trim[service] <= clock)
    BY <1>1 DEF WindowInv, ReaderExact
  <2>2. f \in members \/ at[f] + Trim[service] <= clock
    BY <2>1 DEF WindowInv, Kept, InWindow
  <2>3. SiteOf[f] = s /\ f \in members => f \in found
    BY <2>1 DEF InWindow
  <2> QED
    BY <1>5, <2>1, <2>2, <2>3
<1>10. ASSUME NEW f \in found
       PROVE  InWindow(f)
  BY <1>4 DEF InWindow
<1>11. ReaderExact'
  <2>1. \A f \in reader.counted \cup reader.due : InWindow(f)
    BY <1>1 DEF WindowInv, ReaderExact
  <2> QED
    BY <1>1, <1>3, <1>5, <1>9, <1>10, <2>1 DEF WindowInv, ReaderExact, InWindow
<1> QED
  BY <1>7, <1>8, <1>11 DEF WindowInv

\* A key that expires takes with it only what is too old anyway.
LEMMA TickKeepsWindow ==
  ASSUME WindowInv, WindowTick
  PROVE  WindowInv'
<1> USE WindowAssumption, ClockAssumption
<1>1. clock \in Nat /\ clock' = clock + 1 /\ service \in Services
      /\ Trim[service] \in Nat /\ Expiry[service] \in Nat /\ Trim[service] <= Expiry[service]
  BY DEF WindowInv, WindowTypeOK, WindowTick, Tick
<1>2. UNCHANGED <<service, alive, pending, stamp, recorded, at, expires, known, reader>>
      /\ members' = {f \in members : clock' < expires[SiteOf[f]]}
  BY DEF WindowTick
<1>3. \A f \in recorded : f \in Records /\ at[f] \in Nat /\ SiteOf[f] \in Sites
                          /\ expires[SiteOf[f]] \in Nat
  BY DEF WindowInv, WindowTypeOK
<1>4. WindowTypeOK'
  BY <1>1, <1>2 DEF WindowInv, WindowTypeOK
<1>5. PendingStamped'
  BY <1>1, <1>2 DEF WindowInv, WindowTypeOK, PendingStamped
<1>6. Kept'
  <2>1. ASSUME NEW f \in recorded
        PROVE  /\ at[f] <= clock' /\ SiteOf[f] \in known
               /\ at[f] + Expiry[service] <= expires[SiteOf[f]]
               /\ f \in members' \/ at[f] + Trim[service] <= clock'
    <3>1. /\ at[f] <= clock /\ SiteOf[f] \in known
          /\ at[f] + Expiry[service] <= expires[SiteOf[f]]
          /\ f \in members \/ at[f] + Trim[service] <= clock
      BY DEF WindowInv, Kept
    <3>2. f \in members => f \in members' \/ expires[SiteOf[f]] <= clock'
      BY <1>1, <1>2, <1>3
    <3> QED
      BY <1>1, <1>3, <3>1, <3>2
  <2> QED
    BY <1>2, <2>1 DEF Kept
<1>7. ReaderExact'
  <2>1. SUFFICES ASSUME reader # None PROVE ReaderExact'
    BY <1>2 DEF ReaderExact
  <2>2. reader.call \in Nat /\ reader.counted \subseteq Records /\ reader.due \subseteq Records
    BY <2>1 DEF WindowInv, WindowTypeOK
  <2>3. reader.call <= clock'
    BY <1>1, <2>1, <2>2 DEF WindowInv, ReaderExact
  <2>4. \A f \in reader.due : at[f] + Trim[service] <= clock => at[f] + Trim[service] <= clock'
    BY <1>1, <2>2 DEF WindowInv, WindowTypeOK
  <2> QED
    BY <1>2, <2>1, <2>3, <2>4 DEF WindowInv, ReaderExact, InWindow
<1> QED
  BY <1>4, <1>5, <1>6, <1>7 DEF WindowInv

-----------------------------------------------------------------------------
\* The invariant that both theorems follow from: what is missing from a set is
\* old, and what a reader counts or owes is of its window.
LEMMA WindowInductive == WindowSpec => []WindowInv
<1> USE WindowAssumption
<1>1. clock = 0 /\ WindowInit => WindowInv
  <2> SUFFICES ASSUME clock = 0, WindowInit PROVE WindowInv
    OBVIOUS
  <2>1. WindowTypeOK
    BY DEF WindowInit, WindowTypeOK
  <2> QED
    BY <2>1 DEF WindowInit, WindowInv, PendingStamped, Kept, ReaderExact
<1>2. WindowInv /\ [WindowNext]_<<clock, windowVars>> => WindowInv'
  <2> SUFFICES ASSUME WindowInv, [WindowNext]_<<clock, windowVars>> PROVE WindowInv'
    OBVIOUS
  <2>1. CASE UNCHANGED <<clock, windowVars>>
    BY <2>1, ConsumerKeepsWindow DEF windowVars, WindowInv, WindowTypeOK, PendingStamped, Kept,
                                  ReaderExact, InWindow
  <2>2. ASSUME NEW f \in Records, TakeRecord(f) PROVE WindowInv'
    BY <2>2, ConsumerKeepsWindow DEF TakeRecord, WindowInv, WindowTypeOK
  <2>3. CASE WriteRecord
    BY <2>3, RecordKeepsWindow DEF WriteRecord, Done, WindowInv, WindowTypeOK
  <2>4. CASE WriteFails
    <3>1. CASE Record(pending)
      BY <2>4, <3>1, RecordKeepsWindow DEF WriteFails, Done
    <3>2. CASE UNCHANGED <<recorded, at, members, expires, known>>
      BY <2>4, <3>2, ConsumerKeepsWindow DEF WriteFails, Done
    <3> QED
      BY <2>4, <3>1, <3>2 DEF WriteFails
  <2>5. CASE RestartService
    BY <2>5, ConsumerKeepsWindow DEF RestartService, Done
  <2>6. ASSUME NEW sites \in SUBSET Sites, NEW window, BeginSum(sites, window) PROVE WindowInv'
    BY <2>6, BeginKeepsWindow
  <2>7. ASSUME NEW s \in Sites, ReadSite(s) PROVE WindowInv'
    BY <2>7, ReadKeepsWindow
  <2>8. CASE EndSum
    BY <2>8, NoReaderKeepsWindow DEF EndSum
  <2>9. CASE WindowTick
    BY <2>9, TickKeepsWindow
  <2> QED
    BY <2>1, <2>2, <2>3, <2>4, <2>5, <2>6, <2>7, <2>8, <2>9 DEF WindowNext
<1> QED
  BY <1>1, <1>2, PTL DEF WindowSpec

\* What has been recorded stays until it is as old as the service trims, and its
\* site stays known (volume_window.py:33-49, aggregator.py:42-68).
THEOREM RecordsAreKept == WindowSpec => []RecordedIsKept
<1>1. WindowInv => RecordedIsKept
  <2> SUFFICES ASSUME WindowInv, NEW f \in recorded
               PROVE  (clock < at[f] + Trim[service] => f \in members) /\ SiteOf[f] \in known
    BY DEF RecordedIsKept
  <2>1. clock \in Nat /\ at[f] \in Nat /\ Trim[service] \in Nat
    BY WindowAssumption DEF WindowInv, WindowTypeOK
  <2> QED
    BY <2>1 DEF WindowInv, Kept
<1> QED
  BY <1>1, WindowInductive, PTL

\* A sum is true as of its call, however long it takes and whatever is recorded,
\* trimmed or expires meanwhile (volume_window.py:52-61, aggregator.py:71-76).
THEOREM SumsAreOfTheirCall == WindowSpec => []SumAsOfCall
<1>1. WindowInv => SumAsOfCall
  BY DEF WindowInv, ReaderExact, InWindow, SumAsOfCall
<1> QED
  BY <1>1, WindowInductive, PTL

-----------------------------------------------------------------------------
(* The rate limiter *)

(* Whole minutes *)

LEMMA KeyOfNow ==
  ASSUME clock \in Nat
  PROVE  Key \in Nat /\ Key * MINUTE <= clock /\ clock < Key * MINUTE + MINUTE
BY RateAssumption, SMTT(30) DEF Key

LEMMA KeyIsAMinute ==
  ASSUME clock \in 0..Horizon
  PROVE  Key \in Minutes
<1>1. Horizon \in Nat /\ MINUTE \in Nat \ {0} /\ clock \in Nat
  BY RateAssumption, ClockAssumption
<1> DEFINE last == Horizon \div MINUTE
<1>2. last \in Nat /\ last * MINUTE <= Horizon /\ Horizon < last * MINUTE + MINUTE
  BY <1>1, SMTT(30)
<1>3. Key \in Nat /\ Key * MINUTE <= clock
  BY <1>1, KeyOfNow
<1>4. Key <= last
  <2> HIDE DEF last
  <2> SUFFICES ASSUME Key >= last + 1 PROVE FALSE
    BY <1>2, <1>3
  <2>1. Key * MINUTE >= last * MINUTE + MINUTE
    BY <1>1, <1>2, <1>3, SMTT(30)
  <2> QED
    BY <1>1, <1>2, <1>3, <2>1
<1> QED
  BY <1>2, <1>3, <1>4 DEF Minutes

-----------------------------------------------------------------------------
(* The invariant *)

Running(m) == clock < m * MINUTE + MINUTE

\* How far a request has come tells what it was counted as.
Stages ==
  \A r \in Requests :
    /\ stage[r] \in {"new", "keyed"} => count[r] = 0 /\ ~inTime[r]
    /\ stage[r] # "new" => minute[r] * MINUTE <= clock
    /\ stage[r] = "first" => count[r] = 1
    /\ stage[r] = "admitted" => count[r] \in 1..LIMIT
    /\ stage[r] = "refused" => count[r] > LIMIT

\* No key expires before its minute is over.
KeysLast == \A m \in Minutes : ends[m] # 0 => m * MINUTE + MINUTE <= ends[m]

\* Within the minute of a key no number is given out twice.
Ahead ==
  \A r \in Requests : inTime[r] /\ Running(minute[r]) => count[r] <= counter[minute[r]]

Distinct ==
  \A q, r \in Requests :
    inTime[q] /\ inTime[r] /\ minute[q] = minute[r] /\ count[q] = count[r] => q = r

\* A counter, and so each number it gave out, comes from the requests of its
\* minute one by one.
Filled ==
  \A m \in Minutes : \A n \in 1..counter[m] : \E q \in Requests : minute[q] = m /\ count[q] = n

Behind ==
  \A r \in Requests : \A n \in 1..count[r] :
    \E q \in Requests : minute[q] = minute[r] /\ count[q] = n

LimiterInv ==
  LimiterTypeOK /\ Stages /\ KeysLast /\ Ahead /\ Distinct /\ Filled /\ Behind

-----------------------------------------------------------------------------
LEMMA ArriveKeepsLimiter ==
  ASSUME LimiterInv, NEW r \in Requests, Arrive(r)
  PROVE  LimiterInv'
<1> USE RateAssumption, ClockAssumption
<1>1. clock \in Nat /\ clock' = clock /\ Key \in Minutes /\ Key * MINUTE <= clock
  BY KeyOfNow, KeyIsAMinute DEF LimiterInv, LimiterTypeOK, Arrive
<1>2. stage[r] = "new" /\ count[r] = 0 /\ ~inTime[r]
  BY DEF LimiterInv, Stages, Arrive
<1>3. /\ stage' = [stage EXCEPT ![r] = "keyed"] /\ minute' = [minute EXCEPT ![r] = Key]
      /\ UNCHANGED <<clock, count, inTime, counter, ends>>
  BY DEF Arrive
<1>4. \A q \in Requests :
        /\ minute'[q] = IF q = r THEN Key ELSE minute[q]
        /\ stage'[q] = IF q = r THEN "keyed" ELSE stage[q]
        /\ count[q] \in Nat /\ inTime[q] \in BOOLEAN
  BY <1>3 DEF LimiterInv, LimiterTypeOK
<1>5. LimiterTypeOK'
  BY <1>1, <1>3 DEF LimiterInv, LimiterTypeOK, Minutes
<1>6. Stages'
  BY <1>1, <1>2, <1>3, <1>4 DEF LimiterInv, Stages
<1>7. KeysLast'
  BY <1>3 DEF LimiterInv, KeysLast, Minutes
<1>8. Ahead'
  BY <1>2, <1>3, <1>4 DEF LimiterInv, Ahead, Running
<1>9. Distinct'
  BY <1>2, <1>3, <1>4 DEF LimiterInv, Distinct
<1>10. Filled'
  <2> SUFFICES ASSUME NEW m \in Minutes, NEW n \in 1..counter[m]
               PROVE  \E q \in Requests : minute'[q] = m /\ count[q] = n
    BY <1>3 DEF Filled, Minutes
  <2>1. PICK q \in Requests : minute[q] = m /\ count[q] = n
    BY DEF LimiterInv, Filled
  <2> QED
    BY <1>2, <1>4, <2>1 DEF LimiterInv, LimiterTypeOK
<1>11. Behind'
  <2> SUFFICES ASSUME NEW p \in Requests, NEW n \in 1..count[p]
               PROVE  \E q \in Requests : minute'[q] = minute'[p] /\ count[q] = n
    BY <1>3 DEF Behind
  <2>1. PICK q \in Requests : minute[q] = minute[p] /\ count[q] = n
    BY DEF LimiterInv, Behind
  <2>2. p # r /\ q # r
    BY <1>2, <1>4, <2>1
  <2> QED
    BY <1>4, <2>1, <2>2
<1> QED
  BY <1>5, <1>6, <1>7, <1>8, <1>9, <1>10, <1>11 DEF LimiterInv

\* INCR, and what the request becomes by its answer or by the failure of Redis.
LEMMA CountKeepsLimiter ==
  ASSUME LimiterInv, NEW r \in Requests, stage[r] = "keyed", Count(r),
         NEW next \in {"first", "admitted", "refused", "failed"},
         stage' = [stage EXCEPT ![r] = next],
         next = "first" => count'[r] = 1,
         next = "admitted" => count'[r] <= LIMIT, next = "refused" => count'[r] > LIMIT,
         UNCHANGED <<clock, minute, ends>>
  PROVE  LimiterInv'
<1> USE RateAssumption, ClockAssumption
<1> DEFINE m == minute[r]
           number == counter[m] + 1
<1>1. /\ m \in Minutes /\ m \in Nat /\ counter[m] \in Nat /\ number \in Nat /\ number >= 1
      /\ clock \in Nat
  BY DEF LimiterInv, LimiterTypeOK, Minutes
<1>2. count[r] = 0 /\ ~inTime[r] /\ m * MINUTE <= clock
  BY DEF LimiterInv, Stages
<1>3. /\ counter' = [counter EXCEPT ![m] = number]
      /\ count' = [count EXCEPT ![r] = number]
      /\ inTime' = [inTime EXCEPT ![r] = (m = Key)]
  BY DEF Count
<1>4. inTime'[r] => Running(m)
  BY <1>1, <1>3, KeyOfNow DEF Running, LimiterInv, LimiterTypeOK
<1>5. \A q \in Requests :
        /\ count'[q] = (IF q = r THEN number ELSE count[q]) /\ count[q] \in Nat
        /\ q # r => (inTime'[q] <=> inTime[q])
        /\ stage'[q] = IF q = r THEN next ELSE stage[q]
        /\ minute'[q] = minute[q] /\ minute[q] \in Minutes
  BY <1>3 DEF LimiterInv, LimiterTypeOK
<1>6. \A k \in Minutes : counter'[k] = (IF k = m THEN number ELSE counter[k]) /\ counter[k] \in Nat
  BY <1>3 DEF LimiterInv, LimiterTypeOK
<1>7. LimiterTypeOK'
  <2>1. inTime' \in [Requests -> BOOLEAN]
    <3>1. (m = Key) \in BOOLEAN
      OBVIOUS
    <3> QED
      BY <1>3, <3>1, Zenon DEF LimiterInv, LimiterTypeOK
  <2>2. count' \in [Requests -> Nat] /\ counter' \in [Minutes -> Nat]
        /\ stage' \in [Requests -> {"new", "keyed", "first", "admitted", "refused", "failed"}]
    BY <1>1, <1>3 DEF LimiterInv, LimiterTypeOK
  <2> QED
    BY <2>1, <2>2 DEF LimiterInv, LimiterTypeOK, Minutes
<1> HIDE DEF m, number
<1>8. Stages'
  BY <1>1, <1>2, <1>5 DEF LimiterInv, Stages, m
<1>9. KeysLast'
  BY DEF LimiterInv, KeysLast, Minutes
<1>10. Ahead'
  BY <1>1, <1>5, <1>6 DEF LimiterInv, Ahead, Running, m, number
<1>11. Distinct'
  <2>1. ASSUME NEW q \in Requests, q # r, inTime[q], inTime'[r], minute[q] = minute[r]
        PROVE  count[q] < number
    BY <1>1, <1>4, <1>5, <2>1 DEF LimiterInv, Ahead, m, number
  <2> QED
    BY <1>1, <1>5, <2>1 DEF LimiterInv, Distinct
<1>12. Filled'
  <2> SUFFICES ASSUME NEW k \in Minutes, NEW n \in 1..counter'[k]
               PROVE  \E q \in Requests : minute[q] = k /\ count'[q] = n
    BY DEF Filled, Minutes
  <2>1. CASE n \in 1..counter[k]
    <3>1. PICK q \in Requests : minute[q] = k /\ count[q] = n
      BY <2>1 DEF LimiterInv, Filled
    <3> QED
      BY <1>2, <1>5, <1>6, <2>1, <3>1
  <2>2. CASE n \notin 1..counter[k]
    BY <1>1, <1>5, <1>6, <2>2 DEF m, number
  <2> QED
    BY <2>1, <2>2
<1>13. Behind'
  <2> SUFFICES ASSUME NEW p \in Requests, NEW n \in 1..count'[p]
               PROVE  \E q \in Requests : minute[q] = minute[p] /\ count'[q] = n
    BY DEF Behind
  <2>1. CASE p # r
    <3>1. PICK q \in Requests : minute[q] = minute[p] /\ count[q] = n
      BY <1>5, <2>1 DEF LimiterInv, Behind
    <3> QED
      BY <1>2, <1>5, <2>1, <3>1
  <2>2. CASE p = r
    <3>1. n \in 1..counter'[m]
      BY <1>1, <1>5, <1>6, <2>2
    <3> QED
      BY <1>1, <1>12, <2>2, <3>1 DEF Filled, m, Minutes
  <2> QED
    BY <2>1, <2>2
<1> QED
  BY <1>7, <1>8, <1>9, <1>10, <1>11, <1>12, <1>13 DEF LimiterInv

\* EXPIRE, or nothing at all when Redis fails, and what the request becomes.
LEMMA ExpireKeepsLimiter ==
  ASSUME LimiterInv, NEW r \in Requests, NEW next \in {"admitted", "refused", "failed"},
         stage[r] \in {"keyed", "first"},
         stage' = [stage EXCEPT ![r] = next],
         ends' = ends \/ ends' = [ends EXCEPT ![minute[r]] = clock + LIFETIME],
         next = "admitted" => count[r] \in 1..LIMIT, next = "refused" => count[r] > LIMIT,
         UNCHANGED <<clock, minute, count, inTime, counter>>
  PROVE  LimiterInv'
<1> USE RateAssumption
<1>1. minute[r] \in Minutes /\ minute[r] * MINUTE <= clock /\ clock \in Nat /\ MINUTE \in Nat
  BY DEF LimiterInv, LimiterTypeOK, Stages
<1>2. \A q \in Requests : stage'[q] = IF q = r THEN next ELSE stage[q]
  BY DEF LimiterInv, LimiterTypeOK
<1>3. LimiterTypeOK'
  <2>1. ends' \in [Minutes -> Nat]
    <3>1. clock + LIFETIME \in Nat
      BY <1>1 DEF LIFETIME
    <3> QED
      BY <3>1 DEF LimiterInv, LimiterTypeOK
  <2>2. stage' \in [Requests -> {"new", "keyed", "first", "admitted", "refused", "failed"}]
    BY DEF LimiterInv, LimiterTypeOK
  <2> QED
    BY <2>1, <2>2 DEF LimiterInv, LimiterTypeOK, Minutes
<1>4. Stages'
  BY <1>1, <1>2 DEF LimiterInv, Stages
<1>5. KeysLast'
  <2> SUFFICES ASSUME NEW m \in Minutes, ends'[m] # 0 PROVE m * MINUTE + MINUTE <= ends'[m]
    BY DEF KeysLast, Minutes
  <2>1. m \in Nat /\ m * MINUTE \in Nat
    BY <1>1 DEF Minutes
  <2>2. ends'[m] = ends[m] \/ (m = minute[r] /\ ends'[m] = clock + MINUTE)
    BY <1>1 DEF LimiterInv, LimiterTypeOK, LIFETIME
  <2>3. CASE ends'[m] = ends[m]
    BY <2>3 DEF LimiterInv, KeysLast
  <2>4. CASE m = minute[r] /\ ends'[m] = clock + MINUTE
    BY <1>1, <2>1, <2>4
  <2> QED
    BY <2>2, <2>3, <2>4
<1>6. Ahead' /\ Distinct' /\ Filled' /\ Behind'
  BY DEF LimiterInv, Ahead, Running, Distinct, Filled, Behind, Minutes
<1> QED
  BY <1>3, <1>4, <1>5, <1>6 DEF LimiterInv

\* A key that is gone has outlived its minute.
LEMMA TickKeepsLimiter ==
  ASSUME LimiterInv, LimiterTick
  PROVE  LimiterInv'
<1> USE RateAssumption, ClockAssumption
<1> DEFINE gone == {m \in Minutes : 0 < ends[m] /\ ends[m] <= clock'}
<1>1. clock \in Nat /\ clock' = clock + 1 /\ clock < Horizon /\ clock' \in 0..Horizon
      /\ UNCHANGED <<stage, minute, count, inTime>>
  BY DEF LimiterInv, LimiterTypeOK, LimiterTick, Tick
<1>2. /\ counter' = [m \in Minutes |-> IF m \in gone THEN 0 ELSE counter[m]]
      /\ ends' = [m \in Minutes |-> IF m \in gone THEN 0 ELSE ends[m]]
  BY DEF LimiterTick
<1>3. \A m \in Minutes : m \in Nat /\ m * MINUTE \in Nat /\ counter[m] \in Nat /\ ends[m] \in Nat
  <2>1. \A m \in Minutes : m \in Nat
    BY DEF Minutes
  <2>2. \A m \in Nat : m * MINUTE \in Nat
    OBVIOUS
  <2> QED
    BY <2>1, <2>2 DEF LimiterInv, LimiterTypeOK
<1>4. \A m \in gone : m * MINUTE + MINUTE <= clock'
  BY <1>1, <1>3 DEF LimiterInv, KeysLast
<1>5. \A m \in Minutes : counter'[m] = counter[m] \/ (m \in gone /\ counter'[m] = 0)
  BY <1>2
<1>6. \A m \in Minutes : ends'[m] = ends[m] \/ ends'[m] = 0
  BY <1>2
<1> HIDE DEF gone
<1>7. LimiterTypeOK'
  <2>1. counter' \in [Minutes -> Nat] /\ ends' \in [Minutes -> Nat]
    BY <1>2, <1>3
  <2> QED
    BY <1>1, <2>1 DEF LimiterInv, LimiterTypeOK, Minutes
<1>8. Stages'
  <2>1. \A r \in Requests : stage[r] # "new" => minute[r] * MINUTE <= clock /\ minute[r] \in Minutes
    BY DEF LimiterInv, LimiterTypeOK, Stages
  <2>2. \A r \in Requests : stage[r] # "new" => minute[r] * MINUTE <= clock'
    BY <1>1, <1>3, <2>1
  <2> QED
    BY <1>1, <2>2 DEF LimiterInv, Stages
<1>9. KeysLast'
  BY <1>3, <1>6 DEF LimiterInv, KeysLast, Minutes
<1>10. Ahead'
  <2> SUFFICES ASSUME NEW r \in Requests, inTime[r], Running(minute[r])'
               PROVE  count[r] <= counter'[minute[r]]
    BY <1>1 DEF Ahead
  <2>1. minute[r] \in Minutes /\ minute[r] * MINUTE \in Nat
    BY <1>3 DEF LimiterInv, LimiterTypeOK
  <2>2. clock' < minute[r] * MINUTE + MINUTE
    BY <1>1 DEF Running
  <2>3. minute[r] \notin gone
    BY <1>1, <1>4, <2>1, <2>2
  <2>4. count[r] <= counter[minute[r]]
    BY <1>1, <2>1, <2>2 DEF LimiterInv, Ahead, Running
  <2> QED
    BY <1>5, <2>1, <2>3, <2>4
<1>11. Distinct' /\ Behind'
  BY <1>1 DEF LimiterInv, Distinct, Behind
<1>12. Filled'
  <2> SUFFICES ASSUME NEW m \in Minutes, NEW n \in 1..counter'[m]
               PROVE  \E q \in Requests : minute[q] = m /\ count[q] = n
    BY <1>1 DEF Filled, Minutes
  <2>1. counter'[m] = counter[m]
    BY <1>5
  <2> QED
    BY <2>1 DEF LimiterInv, Filled
<1> QED
  BY <1>7, <1>8, <1>9, <1>10, <1>11, <1>12 DEF LimiterInv

-----------------------------------------------------------------------------
LEMMA LimiterInductive == LimiterSpec => []LimiterInv
<1> USE RateAssumption, ClockAssumption
<1>1. clock = 0 /\ LimiterInit => LimiterInv
  <2> SUFFICES ASSUME clock = 0, LimiterInit PROVE LimiterInv
    OBVIOUS
  <2>1. 0 \in Minutes
    <3>1. Key \in Minutes /\ Key \in Nat
      BY KeyIsAMinute, KeyOfNow
    <3> QED
      BY <3>1 DEF Minutes
  <2>2. LimiterTypeOK
    BY <2>1 DEF LimiterInit, LimiterTypeOK
  <2> QED
    BY <2>2 DEF LimiterInit, LimiterInv, Stages, KeysLast, Ahead, Distinct, Filled, Behind
<1>2. LimiterInv /\ [LimiterNext]_<<clock, limiterVars>> => LimiterInv'
  <2> SUFFICES ASSUME LimiterInv, [LimiterNext]_<<clock, limiterVars>> PROVE LimiterInv'
    OBVIOUS
  <2>1. CASE UNCHANGED <<clock, limiterVars>>
    BY <2>1 DEF limiterVars, LimiterInv, LimiterTypeOK, Stages, KeysLast, Ahead, Running,
                Distinct, Filled, Behind, Minutes
  <2>2. ASSUME NEW r \in Requests, Arrive(r) PROVE LimiterInv'
    BY <2>2, ArriveKeepsLimiter
  <2>3. ASSUME NEW r \in Requests, Increment(r) PROVE LimiterInv'
    <3>1. count'[r] \in Nat
      BY <2>3 DEF Increment, Count, LimiterInv, LimiterTypeOK
    <3>2. PICK next \in {"first", "admitted", "refused"} :
            next = IF count'[r] = 1 THEN "first" ELSE Verdict(count'[r])
      BY DEF Verdict
    <3>3. stage[r] = "keyed" /\ Count(r) /\ stage' = [stage EXCEPT ![r] = next]
          /\ UNCHANGED <<clock, minute, ends>>
      BY <2>3, <3>2 DEF Increment
    <3>4. /\ next = "first" => count'[r] = 1
          /\ next = "admitted" => count'[r] <= LIMIT
          /\ next = "refused" => count'[r] > LIMIT
      BY <3>1, <3>2 DEF Verdict
    <3> QED
      BY <3>3, <3>4, CountKeepsLimiter
  <2>4. ASSUME NEW r \in Requests, SetExpiry(r) PROVE LimiterInv'
    <3>1. count[r] = 1 /\ Verdict(1) = "admitted"
      BY <2>4 DEF SetExpiry, LimiterInv, Stages, Verdict
    <3>2. stage[r] = "first" /\ stage' = [stage EXCEPT ![r] = "admitted"]
          /\ ends' = [ends EXCEPT ![minute[r]] = clock + LIFETIME]
          /\ UNCHANGED <<clock, minute, count, inTime, counter>>
      BY <2>4, <3>1 DEF SetExpiry
    <3>3. count[r] \in 1..LIMIT
      BY <3>1
    <3> QED
      BY <3>2, <3>3, ExpireKeepsLimiter
  <2>5. ASSUME NEW r \in Requests, RedisFails(r) PROVE LimiterInv'
    <3>1. CASE stage[r] = "keyed" /\ Count(r) /\ UNCHANGED ends
      BY <2>5, <3>1, CountKeepsLimiter DEF RedisFails
    <3>2. CASE stage[r] = "first" /\ ends' = [ends EXCEPT ![minute[r]] = clock + LIFETIME]
               /\ UNCHANGED <<count, inTime, counter>>
      BY <2>5, <3>2, ExpireKeepsLimiter DEF RedisFails
    <3>3. CASE stage[r] \in {"keyed", "first"} /\ UNCHANGED <<count, inTime, counter, ends>>
      BY <2>5, <3>3, ExpireKeepsLimiter DEF RedisFails
    <3> QED
      BY <2>5, <3>1, <3>2, <3>3 DEF RedisFails
  <2>6. CASE LimiterTick
    BY <2>6, TickKeepsLimiter
  <2> QED
    BY <2>1, <2>2, <2>3, <2>4, <2>5, <2>6 DEF LimiterNext
<1> QED
  BY <1>1, <1>2, PTL DEF LimiterSpec

\* No more than the limit of the requests that are counted in a minute are
\* admitted in it, and none is refused before the limit has been spent by others
\* of its minute, for any limit and any number of requests, however they
\* interleave and fail (rate_limit.py:32-42).
THEOREM LimitIsExact == LimiterSpec => []LimitHolds
<1>1. LimiterInv => LimitHolds
  <2> SUFFICES ASSUME LimiterInv PROVE LimitHolds
    OBVIOUS
  <2>1. ASSUME NEW m \in Minutes
        PROVE  Cardinality({r \in InTime(m) : stage[r] = "admitted"}) <= LIMIT
    <3> DEFINE admitted == {r \in InTime(m) : stage[r] = "admitted"}
               number == [r \in admitted |-> count[r]]
    <3>1. \A r \in admitted : r \in Requests /\ minute[r] = m /\ inTime[r] /\ count[r] \in 1..LIMIT
      BY DEF InTime, LimiterInv, Stages
    <3>2. number \in [admitted -> 1..LIMIT]
      BY <3>1
    <3>3. \A q, r \in admitted : number[q] = number[r] => q = r
      BY <3>1 DEF LimiterInv, Distinct
    <3> HIDE DEF number
    <3>4. number \in Injection(admitted, 1..LIMIT)
      BY <3>2, <3>3 DEF Injection, IsInjective
    <3>5. IsFiniteSet(1..LIMIT) /\ Cardinality(1..LIMIT) = LIMIT
      BY RateAssumption, FS_Interval
    <3> HIDE DEF admitted
    <3>6. Cardinality(admitted) <= Cardinality(1..LIMIT)
      BY <3>4, <3>5, FS_Injection
    <3> QED
      BY <3>5, <3>6 DEF admitted
  <2>2. ASSUME NEW r \in Requests, stage[r] = "refused", NEW n \in 1..LIMIT
        PROVE  \E q \in Requests \ {r} : minute[q] = minute[r] /\ count[q] = n
    <3>1. count[r] \in Nat /\ count[r] > LIMIT /\ LIMIT \in Nat
      BY <2>2, RateAssumption DEF LimiterInv, LimiterTypeOK, Stages
    <3>2. n \in 1..count[r] /\ n # count[r]
      BY <3>1
    <3>3. PICK q \in Requests : minute[q] = minute[r] /\ count[q] = n
      BY <3>2 DEF LimiterInv, Behind
    <3> QED
      BY <3>2, <3>3
  <2> QED
    BY <2>1, <2>2 DEF LimitHolds
<1> QED
  BY <1>1, LimiterInductive, PTL

-----------------------------------------------------------------------------
(* The composition *)

\* A component that does not move is as it was at the start, as far as the
\* clock could change it.
WindowAside == moving # "window" => members = {}

LimiterAside ==
  moving # "limiter" =>
    counter = [m \in Minutes |-> 0] /\ ends = [m \in Minutes |-> 0]

LEMMA AsideInductive == Spec => [](WindowAside /\ LimiterAside)
<1>1. Init => WindowAside /\ LimiterAside
  BY DEF Init, WindowInit, LimiterInit, WindowAside, LimiterAside
<1>2. WindowAside /\ LimiterAside /\ [Next]_vars => WindowAside' /\ LimiterAside'
  BY DEF WindowAside, LimiterAside, Next, vars, windowVars, limiterVars, Minutes
<1> QED
  BY <1>1, <1>2, PTL DEF Spec

\* With nothing in the windows the clock only advances.
LEMMA EmptyWindowsTick ==
  ASSUME members = {}, Tick, UNCHANGED windowVars
  PROVE  WindowTick
BY DEF WindowTick, windowVars

\* With no counter the clock only advances.
LEMMA EmptyCountersTick ==
  ASSUME counter = [m \in Minutes |-> 0], ends = [m \in Minutes |-> 0],
         Tick, UNCHANGED limiterVars
  PROVE  LimiterTick
<1>1. {m \in Minutes : 0 < ends[m] /\ ends[m] <= clock'} = {}
  OBVIOUS
<1>2. counter' = [m \in Minutes |-> counter[m]] /\ ends' = [m \in Minutes |-> ends[m]]
  BY DEF limiterVars
<1> QED
  BY <1>1, <1>2 DEF LimiterTick, limiterVars

\* The clock ticks in a step of the limiter, or stands.
LEMMA LimiterTicks ==
  ASSUME LimiterNext
  PROVE  Tick \/ clock' = clock
BY DEF LimiterNext, LimiterTick, Arrive, Increment, SetExpiry, RedisFails

LEMMA WindowTicks ==
  ASSUME WindowNext
  PROVE  Tick \/ clock' = clock
BY DEF WindowNext, WindowTick, TakeRecord, WriteRecord, WriteFails, RestartService,
       BeginSum, ReadSite, EndSum

\* Side by side with the other stores the windows behave as by themselves: no
\* key or table belongs to two (volume_window.py, aggregator.py, rate_limit.py).
THEOREM ComposedWindow == Spec => WindowSpec
<1>1. Init => clock = 0 /\ WindowInit
  BY DEF Init
<1>2. WindowAside /\ [Next]_vars => [WindowNext]_<<clock, windowVars>>
  <2> SUFFICES ASSUME WindowAside, [Next]_vars PROVE [WindowNext]_<<clock, windowVars>>
    OBVIOUS
  <2>1. CASE UNCHANGED vars
    BY <2>1 DEF vars
  <2>2. CASE moving = "retention" /\ UNCHANGED <<clock, windowVars, limiterVars>>
    BY <2>2
  <2>3. CASE moving = "window" /\ WindowNext
    BY <2>3
  <2>4. CASE moving = "limiter" /\ LimiterNext /\ UNCHANGED <<storeVars, windowVars, historyVars>>
    <3>1. members = {}
      BY <2>4 DEF WindowAside
    <3> QED
      BY <2>4, <3>1, LimiterTicks, EmptyWindowsTick DEF WindowNext
  <2> QED
    BY <2>1, <2>2, <2>3, <2>4 DEF Next
<1> QED
  BY <1>1, <1>2, AsideInductive, PTL DEF Spec, WindowSpec

\* The same of the rate limiter's counters (rate_limit.py).
THEOREM ComposedLimiter == Spec => LimiterSpec
<1>1. Init => clock = 0 /\ LimiterInit
  BY DEF Init
<1>2. LimiterAside /\ [Next]_vars => [LimiterNext]_<<clock, limiterVars>>
  <2> SUFFICES ASSUME LimiterAside, [Next]_vars PROVE [LimiterNext]_<<clock, limiterVars>>
    OBVIOUS
  <2>1. CASE UNCHANGED vars
    BY <2>1 DEF vars
  <2>2. CASE moving = "retention" /\ UNCHANGED <<clock, windowVars, limiterVars>>
    BY <2>2
  <2>3. CASE moving = "limiter" /\ LimiterNext
    BY <2>3
  <2>4. CASE moving = "window" /\ WindowNext /\ UNCHANGED <<storeVars, limiterVars, historyVars>>
    <3>1. counter = [m \in Minutes |-> 0] /\ ends = [m \in Minutes |-> 0]
      BY <2>4 DEF LimiterAside
    <3> QED
      BY <2>4, <3>1, WindowTicks, EmptyCountersTick DEF LimiterNext
  <2> QED
    BY <2>1, <2>2, <2>3, <2>4 DEF Next
<1> QED
  BY <1>1, <1>2, AsideInductive, PTL DEF Spec, LimiterSpec

\* So the composition keeps the promises of the windows and of the limiter.
THEOREM StoresKeepPromises == Spec => [](RecordedIsKept /\ SumAsOfCall /\ LimitHolds)
BY ComposedWindow, ComposedLimiter, RecordsAreKept, SumsAreOfTheirCall, LimitIsExact, PTL

-----------------------------------------------------------------------------
(* The retention *)

\* The TTL, and the days that the loop is about to set, are numbers of days in
\* force since the policy that they are from was read.
PolicyKnown ==
  /\ flow \in [Flows -> {"none", "stored", "purged"}]
  /\ ttl \in inForce
  /\ Days(policy) \in sinceRead
  /\ sinceRead \subseteq inForce
  /\ loop.step = "alter" => loop.days \in sinceRead

LEMMA LoopKeepsPolicy ==
  ASSUME PolicyKnown, LoopStep
  PROVE  PolicyKnown'
<1>1. CASE ReadPolicy /\ sinceRead' = {Days(policy)} /\ UNCHANGED inForce
  BY <1>1 DEF PolicyKnown, ReadPolicy, Days
<1>2. CASE Alter /\ inForce' = sinceRead /\ UNCHANGED sinceRead
  BY <1>2 DEF PolicyKnown, Alter, Days, Asleep
<1>3. CASE PurgeFails /\ UNCHANGED historyVars
  BY <1>3 DEF PolicyKnown, PurgeFails, Fault, Days, Asleep, historyVars
<1>4. CASE PoolFails /\ UNCHANGED historyVars
  BY <1>4 DEF PolicyKnown, PoolFails, Fault, Days, historyVars
<1> QED
  BY <1>1, <1>2, <1>3, <1>4 DEF LoopStep

LEMMA RetentionKeepsPolicy ==
  ASSUME PolicyKnown, RetentionStep
  PROVE  PolicyKnown'
<1>1. ASSUME NEW days \in Policies, UpdatePolicy(days),
             inForce' = inForce \cup {days}, sinceRead' = sinceRead \cup {days}
      PROVE  PolicyKnown'
  <2>1. policy' = days /\ UNCHANGED <<ttl, loop, flow, age, faults>>
    BY <1>1 DEF UpdatePolicy
  <2>2. Days(policy)' = days
    BY <2>1, RetentionAssumption DEF Days
  <2> QED
    BY <1>1, <2>1, <2>2 DEF PolicyKnown
<1>2. CASE LoopStep
  BY <1>2, LoopKeepsPolicy
<1>3. CASE RestartLoop /\ UNCHANGED historyVars
  BY <1>3 DEF PolicyKnown, RestartLoop, Fault, Days, Starting, historyVars
<1>4. CASE DayPasses /\ UNCHANGED historyVars
  BY <1>4 DEF PolicyKnown, DayPasses, Days, historyVars
<1>5. ASSUME NEW f \in Flows, Store(f) \/ Purge(f), UNCHANGED historyVars
      PROVE  PolicyKnown'
  <2>1. flow' \in [Flows -> {"none", "stored", "purged"}] /\ UNCHANGED <<policy, ttl, loop>>
    BY <1>5 DEF PolicyKnown, Store, Purge
  <2> QED
    BY <1>5, <2>1 DEF PolicyKnown, Days, historyVars
<1> QED
  BY <1>1, <1>2, <1>3, <1>4, <1>5 DEF RetentionStep

LEMMA PolicyInductive == Spec => []PolicyKnown
<1>1. Init => PolicyKnown
  BY DEF Init, StoreInit, PolicyKnown, Starting, Days
<1>2. PolicyKnown /\ [Next]_vars => PolicyKnown'
  <2> SUFFICES ASSUME PolicyKnown, [Next]_vars PROVE PolicyKnown'
    OBVIOUS
  <2>1. CASE RetentionStep
    BY <2>1, RetentionKeepsPolicy
  <2>2. CASE UNCHANGED <<storeVars, historyVars>>
    BY <2>2 DEF PolicyKnown, storeVars, historyVars, Days
  <2> QED
    BY <2>1, <2>2 DEF Next, vars
<1> QED
  BY <1>1, <1>2, PTL DEF Spec

\* Which of its steps deletes a row: a merge, by the TTL of that moment.
LEMMA OnlyPurgeDeletes ==
  ASSUME PolicyKnown, [Next]_vars,
         NEW f \in Flows, flow[f] = "stored", flow'[f] = "purged"
  PROVE  age[f] >= ttl
<1>1. CASE RetentionStep
  <2>1. CASE flow' = flow
    BY <2>1
  <2>2. ASSUME NEW g \in Flows, Store(g)
        PROVE  age[f] >= ttl
    BY <2>2 DEF Store, PolicyKnown
  <2>3. ASSUME NEW g \in Flows, Purge(g)
        PROVE  age[f] >= ttl
    BY <2>3 DEF Purge, PolicyKnown
  <2>4. flow' = flow \/ \E g \in Flows : Store(g) \/ Purge(g)
    BY <1>1 DEF RetentionStep, LoopStep, UpdatePolicy, ReadPolicy, Alter, PurgeFails, PoolFails,
                RestartLoop, DayPasses
  <2> QED
    BY <2>1, <2>2, <2>3, <2>4
<1>2. CASE UNCHANGED storeVars
  BY <1>2 DEF storeVars
<1> QED
  BY <1>1, <1>2 DEF Next, vars

\* Whatever fails in the purge loop, and however the policy changes between its
\* statements, a row is deleted only at an age that some policy in force since
\* the TTL's was read allows (retention_purge.py:22-48).
THEOREM PurgesObeyPolicies == Spec => PurgedUnderAPolicy
<1>1. PolicyKnown /\ [Next]_vars =>
        [\A f \in Flows : flow[f] = "stored" /\ flow'[f] = "purged" =>
           \E days \in inForce : age[f] >= days]_vars
  BY OnlyPurgeDeletes DEF PolicyKnown
<1> QED
  BY <1>1, PolicyInductive, PTL DEF Spec, PurgedUnderAPolicy
=============================================================================
