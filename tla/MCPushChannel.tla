--------------------------- MODULE MCPushChannel ----------------------------
(* Model values and selections for checking PushChannel on small instances. *)
EXTENDS PushChannel

CONSTANTS s1, s2

TwoSites == {s1, s2}

\* One site, and all of them.
OneOrAll == {{s1}, {s1, s2}}

AllDisruptions == {"identity", "network", "realtime", "redis"}
=============================================================================
