---------------------------- MODULE FactDelivery ----------------------------
(* What the business journal promises its durable consumers, with no clock, *)
(* cursor or instance in sight: a fact is recorded when its transaction     *)
(* commits, and every topic that wants it gets one task for it, in no       *)
(* particular order.  EventJournal implements this specification.           *)
EXTENDS Naturals

CONSTANTS
  Fact,       \* business facts
  Topic,      \* durable consumers, one queue topic each
  Wants       \* Wants[t]: the facts whose kind the consumer t is registered for

VARIABLES
  recorded,   \* the facts whose transaction has committed
  tasks       \* tasks[t][f]: how many tasks of topic t exist for the fact f

vars == <<recorded, tasks>>

Init ==
  /\ recorded = {}
  /\ tasks = [t \in Topic |-> [f \in Fact |-> 0]]

Record(f) ==
  /\ f \notin recorded
  /\ recorded' = recorded \cup {f}
  /\ UNCHANGED tasks

(* One commit may deliver several facts to several topics. *)
Deliver ==
  /\ tasks' \in [Topic -> [Fact -> {0, 1}]]
  /\ \A t \in Topic, f \in Fact :
       tasks'[t][f] # tasks[t][f] =>
         /\ f \in recorded \cap Wants[t]
         /\ tasks[t][f] = 0
  /\ UNCHANGED recorded

Next == Deliver \/ \E f \in Fact : Record(f)

Spec == Init /\ [][Next]_vars

(* Every recorded fact reaches every topic that wants it. *)
EveryFactDelivered ==
  \A t \in Topic : \A f \in Wants[t] : f \in recorded ~> tasks[t][f] = 1
=============================================================================
