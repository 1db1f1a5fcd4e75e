----------------------------- MODULE TimelineMC -----------------------------
(* Timeline alone, for TLC: rows arrive, one at a time, while an admin reads. *)
EXTENDS Timeline

CONSTANT MaxRows       \* bound: how many arrive

Init == TimelineInit /\ entries = {}

\* A row later than all, by its time and by its id.
Arrive ==
  /\ Cardinality(entries) < MaxRows
  /\ \E s \in Sources, a \in Apps :
       entries' = entries \cup {[ts |-> Cardinality(entries) + 1, key |-> Cardinality(entries) + 1, source |-> s, app |-> a]}
  /\ UNCHANGED reading

Next == Arrive \/ LoadOlder \/ CloseTimeline \/ \E flt \in Filters : OpenTimeline(flt)

Spec == Init /\ [][Next]_<<entries, reading>>
=============================================================================
