----------------------------- MODULE TaskScreenMC -----------------------------
(* The queue and its screen instantiated for TLC: one recurring topic.       *)
EXTENDS TaskScreen, TLC

CONSTANTS purge

AllPurge == [r \in Row |-> purge]
HandleAll == [w \in Worker |-> Topic]
Alike == Permutations(Row) \cup Permutations(Worker)

(* A page is made once a try has failed; meanwhile one worker runs, and at   *)
(* most one row lands.                                                       *)
Watched ==
  page.step # "closed" =>
    /\ lines # {}
    /\ \E w \in Worker : \A v \in Worker \ {w} : phase[v] \in Off
    /\ Cardinality(page.during) <= 1
===============================================================================
