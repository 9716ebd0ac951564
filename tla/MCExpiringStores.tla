-------------------------- MODULE MCExpiringStores --------------------------
(* Model values, times and windows for checking ExpiringStores on small instances. *)
EXTENDS ExpiringStores

CONSTANTS f1, r1, r2, r3, s1, s2, q1, q2, q3

OneFlow == {f1}
ShortOrLong == {1, 2}
AllDisruptions == {"purge"}

ThreeRecords == {r1, r2, r3}
TwoSites == {s1, s2}
TwoAtFirst == [r \in {r1, r2, r3} |-> IF r = r3 THEN s2 ELSE s1]

\* The alerting service trims and expires after the same time; the realtime
\* service keeps its keys twice as long as its window.
BothServices == {"alerting", "realtime"}
Trimming == [alerting |-> 2, realtime |-> 1]
Expiring == [alerting |-> 2, realtime |-> 2]

\* Rules of the alerting service, with a window within its hour and a longer
\* one; a site's summary of the realtime service, for its own window.
AskedFor ==
  [alerting |-> {{s1}, {s1, s2}} \X {1, 3},
   realtime |-> {{s1}, {s2}} \X {1}]

ThreeRequests == {q1, q2, q3}
=============================================================================
