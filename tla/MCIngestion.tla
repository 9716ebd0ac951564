---------------------------- MODULE MCIngestion -----------------------------
(* Model values and datagrams for checking Ingestion on small instances. *)
EXTENDS Ingestion

CONSTANTS e1, s1, t1, t2, x1, x2

OneExporter == {e1}
OneSite == {s1}
TwoTasks == {t1, t2}

\* A query and its answer, which both tell their application by port 53.
Question == [fields |-> x1, src_port |-> 40000, dst_port |-> 53]
Reply == [fields |-> x2, src_port |-> 53, dst_port |-> 40000]
Datagram(length, version, count, records) ==
  [length |-> length, version |-> version, count |-> count, unix_secs |-> 0, records |-> records]

\* Two flows, with a record that the header does not count; one record too few;
\* another version; a truncated header.
SampleDatagrams ==
  {Datagram(168, 5, 2, <<Question, Reply, Reply>>),
   Datagram(119, 5, 2, <<Question>>),
   Datagram(72, 9, 1, <<Question>>),
   Datagram(23, 5, 0, <<>>)}

TwoFields == {x1, x2}

AllDisruptions == {"identity", "start", "broker", "restart"}
=============================================================================
