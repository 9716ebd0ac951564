---------------------------- MODULE MCFlowWriter ----------------------------
(* Model values for checking FlowWriter on small instances. *)
EXTENDS FlowWriter

CONSTANTS k1, k2, t1, t2

MCKeys == {k1, k2}
MCTimers == {t1, t2}
AllMessages == MCKeys \cup {Quarantined, Malformed}

InsertOnly == {"insert"}
AllDisruptions == {"crash", "stop", "rebalance", "insert", "expiry"}
=============================================================================
