------------------------------ MODULE MCQuery -------------------------------
(* Model values and windows for checking Query on small instances. *)
EXTENDS Query

CONSTANTS f1, f2, s1, s2

\* One of the rows has bytes and the other none.
TwoFlows == {f1, f2}
SecondWeightless == {f2}

TwoSites == {s1, s2}
OneAtEach == [f \in {f1, f2} |-> IF f = f1 THEN s1 ELSE s2]
ShortOrLong == {1, 2}

\* From before every policy to where the longer one ends: while the request is
\* under way the window leaves the retention, and rows in it may still be there.
SampleWindows == {<<3, 2>>}

AllDisruptions == {"purge", "identity", "database", "proxy"}
=============================================================================
