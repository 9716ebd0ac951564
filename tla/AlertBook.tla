----------------------------- MODULE AlertBook ------------------------------
(***************************************************************************)
(* What an alert service promises of its events, whatever keys, passes and *)
(* scopes it decides by: events are opened for rules that exist and closed *)
(* one by one, or all of a rule at once with the rule.  As long as its     *)
(* memory of what it has raised is intact, no rule gets a second event     *)
(* beside an open one; once it may have lost that memory, it can.          *)
(***************************************************************************)

CONSTANT Rules

VARIABLES
  live,     \* the rules that exist
  retired,  \* the rules that were deleted: their ids do not come back
  open,     \* the open events, each with its id and its rule
  lost      \* whether the memory of what was raised may be gone

vars == <<live, retired, open, lost>>

Init == live = {} /\ retired = {} /\ open = {} /\ lost = FALSE

Create(r) ==
  /\ r \notin live \cup retired
  /\ live' = live \cup {r}
  /\ UNCHANGED <<retired, open, lost>>

\* A rule goes, and its events with it.
Drop(r) ==
  /\ r \in live
  /\ live' = live \ {r}
  /\ retired' = retired \cup {r}
  /\ open' = {e \in open : e.rule # r}
  /\ UNCHANGED lost

\* A new event of a rule.
Raise ==
  \E e \in open' :
    /\ open' = open \cup {e}
    /\ e.rule \in live
    /\ \A f \in open : f.id # e.id /\ (f.rule # e.rule \/ lost)
    /\ UNCHANGED <<live, retired, lost>>

\* The condition is no longer met.
Resolve ==
  \E e \in open :
    /\ open' = open \ {e}
    /\ UNCHANGED <<live, retired, lost>>

Lose ==
  /\ lost' = TRUE
  /\ UNCHANGED <<live, retired, open>>

Next == Raise \/ Resolve \/ Lose \/ \E r \in Rules : Create(r) \/ Drop(r)

Spec == Init /\ [][Next]_vars
=============================================================================
