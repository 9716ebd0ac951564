---------------------------- MODULE MCStaleness -----------------------------
(* Model values for checking Staleness on small instances. *)
EXTENDS Staleness

CONSTANTS s1, s2

TwoSites == {s1, s2}

NoDisruption == {}
AllDisruptions == {"timeout", "restart", "redis"}
=============================================================================
