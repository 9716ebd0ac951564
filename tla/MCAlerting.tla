----------------------------- MODULE MCAlerting -----------------------------
(* Model values for checking Alerting on small instances. *)
EXTENDS Alerting, TLC

CONSTANTS o1, s1, s2, e1, e2, e3

TwoRules == 1..2
OneRule == {1}
OneOwner == {o1}
TwoSites == {s1, s2}
OneSite == {s1}
TwoEvents == {e1, e2}
ThreeEvents == {e1, e2, e3}

Low == {1}
LowOrHigh == {1, 2}

NoDisruption == {}
ExpiryOnly == {"expiry"}
AllDisruptions == {"abort", "expiry", "outage"}
=============================================================================
