----------------------------- MODULE DurableLog -----------------------------
(***************************************************************************)
(* What the store promises its callers, whatever the disk does: a history  *)
(* that only ever grows at its end, and at most one record whose fate is   *)
(* open.  A record is in doubt from the moment its bytes may reach the     *)
(* disk until the append is acknowledged, undone, or settled by a restart. *)
(***************************************************************************)
EXTENDS Sequences

CONSTANT Records  \* the records a caller may hand over

VARIABLES
  history,  \* the records every restart is certain to find, in order
  doubt     \* the record a restart may or may not find

vars == <<history, doubt>>

Init == history = <<>> /\ doubt = {}

\* The bytes of a record that is not in the history yet start to be written.
Submit ==
  /\ doubt = {}
  /\ \E r \in Records :
       /\ \A i \in DOMAIN history : history[i] # r
       /\ doubt' = {r}
  /\ UNCHANGED history

\* The record is durable from now on.
Commit ==
  /\ \E r \in doubt : history' = Append(history, r)
  /\ doubt' = {}

\* The record is gone for good.
Discard ==
  /\ doubt # {}
  /\ doubt' = {}
  /\ UNCHANGED history

Next == Submit \/ Commit \/ Discard

Spec == Init /\ [][Next]_vars
=============================================================================
