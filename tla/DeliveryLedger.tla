--------------------------- MODULE DeliveryLedger ---------------------------
(***************************************************************************)
(* What a writer that moves events from a stream into a table promises,    *)
(* whatever its buffers, timers and batches look like.  An event is        *)
(* accepted once, is then held by the writer, and leaves the writer once:  *)
(* it is stored, or it is given up.  A stored event is never held again,   *)
(* so it is never stored a second time.                                    *)
(***************************************************************************)
EXTENDS Naturals

VARIABLES
  accepted,  \* how many events the writer has accepted; event n is the n-th
  held,      \* the accepted events whose fate is open
  stored     \* the events that have a row in the table

vars == <<accepted, held, stored>>

Init ==
  /\ accepted = 0
  /\ held = {}
  /\ stored = {}

\* The writer takes responsibility for one new event.
Accept ==
  /\ accepted' = accepted + 1
  /\ held' = held \cup {accepted + 1}
  /\ UNCHANGED stored

\* Some held events get their row, some others are given up.
Settle ==
  \E written, lost \in SUBSET held :
    /\ written \cap lost = {}
    /\ stored' = stored \cup written
    /\ held' = held \ (written \cup lost)
    /\ UNCHANGED accepted

Next == Accept \/ Settle

Spec == Init /\ [][Next]_vars
=============================================================================
