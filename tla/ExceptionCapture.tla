--------------------------- MODULE ExceptionCapture ---------------------------
(* How an exception becomes an occurrence of an issue                       *)
(* (apps/shared/logs/capture.py): threads append it to their process's      *)
(* bounded queue, which sheds when it is full; a drain delivers the queue   *)
(* to the tracker of apps/issues, one capture at a time, and keeps what the *)
(* tracker did not take.  Several processes write the same issues.          *)
EXTENDS IssueTracker, SequencesExt

CONSTANTS
  Process,
  Kind,         \* what a capture is: exceptions of one kind are alike
  Fault,        \* the kind of the exceptions the tracker itself raises
  Report,       \* the kind of CaptureQueueOverflowed, which is never queued
  PrintOf,        \* PrintOf[k]: its fingerprint
  ShedKey,      \* ShedKey[k]: its shedding key
  ReleaseOf,    \* ReleaseOf[p]: the release p runs
  None,         \* no capture
  Room,         \* _QUEUE.maxlen
  Budgets       \* bounds: what may happen in one behaviour

ASSUME KindAssumption ==
  /\ {Fault, Report} \subseteq Kind /\ Fault # Report /\ None \notin Kind
  /\ IsFiniteSet(Kind)
ASSUME ProcessAssumption == IsFiniteSet(Process)
ASSUME PrintAssumption ==
  /\ PrintOf \in [Kind -> Fingerprint]
  /\ ReleaseOf \in [Process -> Release]
ASSUME RoomAssumption == Room \in Nat \ {0}
ASSUME BudgetAssumption ==
  Budgets \subseteq [raises : [Process -> [Kind \ {Fault, Report} -> Nat]],
                     faults : Nat, stops : Nat, triages : Nat]

VARIABLES
  queue,        \* queue[p]: _QUEUE
  dropped,      \* dropped[p]: _overflow.dropped
  failing,      \* failing[p]: the tracker is in _tracker_failures
  phase,        \* phase[p]: where the tick is
  left,         \* left[p]: how many captures the tick may still pop
  toTell,       \* toTell[p]: the tick's local dropped
  held,         \* held[p]: the capture being delivered
  look,         \* look[p]: the row its tracker has loaded
  life,         \* life[p]: up, in stop's first or last tick, gone
  \* Bounds: what may still come, as many exceptions of a kind as
  \* toRaise[p][k], as many failures of the tracker that no other commit
  \* explains, as many stops.
  toRaise, faults, stops,
  \* What happened, for the properties.
  raised, folded, shed, cut, twice,   \* [p][k]: how many captures of kind k
  said,         \* said[p]: how many shed captures the reports taken so far told
  cutTold,      \* cutTold[p]: how many a stop made the tick forget
  late          \* p was disturbed during its last tick

memory == <<queue, dropped>>
bounds == <<toRaise, faults, stops>>
ledger == <<raised, folded, shed, cut, twice, said, cutTold>>
tick == <<failing, phase, left, toTell, held, look>>
vars == <<trackerVars, memory, tick, life, bounds, ledger, late>>

Ordinary == Kind \ {Fault, Report}
Zeros == [p \in Process |-> [k \in Kind |-> 0]]

Init ==
  /\ TrackerInit
  /\ queue = [p \in Process |-> <<>>]
  /\ dropped = [p \in Process |-> 0]
  /\ failing = [p \in Process |-> FALSE]
  /\ phase = [p \in Process |-> "asleep"]
  /\ left = [p \in Process |-> 0]
  /\ toTell = [p \in Process |-> 0]
  /\ held = [p \in Process |-> None]
  /\ look = [p \in Process |-> Absent]
  /\ life = [p \in Process |-> "up"]
  /\ \E b \in Budgets :
       toRaise = b.raises /\ faults = b.faults /\ stops = b.stops /\ triages = b.triages
  /\ raised = Zeros /\ folded = Zeros /\ shed = Zeros
  /\ cut = Zeros /\ twice = Zeros
  /\ said = [p \in Process |-> 0]
  /\ cutTold = [p \in Process |-> 0]
  /\ late = [p \in Process |-> FALSE]

Goes(p, s) == phase' = [phase EXCEPT ![p] = s]
Plus(count, p, k) == [count EXCEPT ![p][k] = @ + 1]
Disturbs(p) == late' = [late EXCEPT ![p] = @ \/ life[p] = "last"]

-----------------------------------------------------------------------------
(* The queue.                                                               *)

KeyCount(q, i) == Cardinality({j \in 1 .. Len(q) : ShedKey[q[j]] = ShedKey[q[i]]})

TheOldest(q) == 1                           \* mutant: what deque's maxlen alone does
(* The first capture of the key that repeats most; most_common gives the    *)
(* key met first among equals, hence the oldest when nothing repeats.       *)
Victim(q) ==
  CHOOSE i \in 1 .. Len(q) :
    \A j \in 1 .. Len(q) :
      \/ KeyCount(q, i) > KeyCount(q, j)
      \/ KeyCount(q, i) = KeyCount(q, j) /\ i <= j

(* _append, under the lock.                                                 *)
AppendCapture(p, k) ==
  LET q == queue[p]  v == Victim(q) IN
    IF Len(q) < Room
    THEN /\ queue' = [queue EXCEPT ![p] = Append(q, k)]
         /\ UNCHANGED <<dropped, shed>>
    ELSE /\ queue' = [queue EXCEPT ![p] = Append(RemoveAt(q, v), k)]
         /\ dropped' = [dropped EXCEPT ![p] = @ + 1]
         /\ shed' = Plus(shed, p, q[v])

(* log.exception on any thread, outside the drain's own delivery.           *)
Capture(p, k) ==
  /\ life[p] # "gone"
  /\ toRaise[p][k] > 0
  /\ toRaise' = [toRaise EXCEPT ![p][k] = @ - 1]
  /\ AppendCapture(p, k)
  /\ raised' = Plus(raised, p, k)
  /\ Disturbs(p)
  /\ UNCHANGED <<trackerVars, tick, life, faults, stops, folded, cut, twice, said, cutTold>>

-----------------------------------------------------------------------------
(* The drain.                                                               *)

AllButOne(p) == IF Len(queue[p]) > 1 THEN Len(queue[p]) - 1 ELSE 0      \* mutant
(* The captures that arrive during the tick wait for the next one.          *)
Snapshot(p) == Len(queue[p])

(* A tick that finds nothing does nothing, and is left out but in stop.     *)
StartTick(p) ==
  /\ phase[p] = "asleep" /\ life[p] # "gone"
  /\ queue[p] # <<>> \/ dropped[p] > 0 \/ life[p] # "up"
  /\ toTell' = [toTell EXCEPT ![p] = dropped[p]]
  /\ dropped' = [dropped EXCEPT ![p] = 0]
  /\ left' = [left EXCEPT ![p] = Snapshot(p)]
  /\ Goes(p, "draining")
  /\ UNCHANGED <<trackerVars, queue, failing, held, look, life, bounds, ledger, late>>

Pop(p) ==
  /\ phase[p] = "draining" /\ left[p] > 0 /\ queue[p] # <<>>
  /\ held' = [held EXCEPT ![p] = Head(queue[p])]
  /\ queue' = [queue EXCEPT ![p] = Tail(@)]
  /\ left' = [left EXCEPT ![p] = @ - 1]
  /\ Goes(p, "tracking")
  /\ UNCHANGED <<trackerVars, dropped, failing, toTell, look, life, bounds, ledger, late>>

(* The loop is over: report what was shed, or end the tick.  stop's two     *)
(* ticks follow each other.                                                 *)
OneTick(p) == IF life[p] = "up" THEN "up" ELSE "gone"      \* mutant: stop ticks once
NextLife(p) ==
  CASE life[p] = "first" -> "last" [] life[p] = "last" -> "gone" [] OTHER -> life[p]

EndLoop(p) ==
  /\ phase[p] = "draining" /\ (left[p] = 0 \/ queue[p] = <<>>)
  /\ IF toTell[p] > 0
     THEN held' = [held EXCEPT ![p] = Report] /\ Goes(p, "tracking") /\ UNCHANGED <<left, life>>
     ELSE /\ Goes(p, "asleep")
          /\ left' = [left EXCEPT ![p] = 0]
          /\ life' = [life EXCEPT ![p] = NextLife(p)]
          /\ UNCHANGED held
  /\ UNCHANGED <<trackerVars, memory, failing, toTell, look, bounds, ledger, late>>

(* Bound: once the faults are spent, a row is loaded only when      *)
(* nobody else has it loaded.                                               *)
Alone(p) ==
  /\ \A q \in Process \ {p} : phase[q] = "looked" => PrintOf[held[q]] # PrintOf[held[p]]
  /\ \A a \in Admin : verdict[a].on => verdict[a].f # PrintOf[held[p]]

Look(p) ==
  /\ phase[p] = "tracking"
  /\ faults > 0 \/ Alone(p)
  /\ look' = [look EXCEPT ![p] = issue[PrintOf[held[p]]]]
  /\ Goes(p, "looked")
  /\ UNCHANGED <<trackerVars, memory, failing, left, toTell, held, life, bounds, ledger, late>>

(* The tracker's transaction commits.                                       *)
Fold(p) ==
  /\ phase[p] = "looked"
  /\ Unmoved(PrintOf[held[p]], look[p])
  /\ Track(PrintOf[held[p]], look[p], ReleaseOf[p])
  /\ folded' = Plus(folded, p, held[p])
  /\ UNCHANGED <<verdict, triages>>

(* What the tick tells is told once it is taken.                            *)
Tell(p) ==
  /\ said' = [said EXCEPT ![p] = @ + IF held[p] = Report THEN toTell[p] ELSE 0]
  /\ toTell' = [toTell EXCEPT ![p] = IF held[p] = Report THEN 0 ELSE @]

Delivered(p) ==
  /\ Fold(p)
  /\ Tell(p)
  /\ failing' = [failing EXCEPT ![p] = FALSE]
  /\ held' = [held EXCEPT ![p] = None]
  /\ look' = [look EXCEPT ![p] = Absent]
  /\ Goes(p, "draining")
  /\ UNCHANGED <<memory, left, life, bounds, raised, shed, cut, twice, cutTold, late>>

(* The tracker raises; the first failure in a row is a capture too.         *)
ReportFailure(p) ==
  /\ failing' = [failing EXCEPT ![p] = TRUE]
  /\ IF failing[p]
     THEN UNCHANGED <<queue, dropped, shed, raised>>
     ELSE AppendCapture(p, Fault) /\ raised' = Plus(raised, p, Fault)
  /\ Goes(p, "keeping")
  /\ look' = [look EXCEPT ![p] = Absent]
  /\ faults' = IF faults > 0 THEN faults - 1 ELSE 0
  /\ Disturbs(p)
  /\ UNCHANGED <<left, toTell, held, life, toRaise, stops, cut, said, cutTold>>

(* A lost race for the row, or any fault of the way to the database.        *)
TrackerFails(p) ==
  /\ \/ phase[p] \in {"tracking", "looked"} /\ faults > 0
     \/ phase[p] = "looked" /\ ~Unmoved(PrintOf[held[p]], look[p])
  /\ ReportFailure(p)
  /\ UNCHANGED <<trackerVars, folded, twice>>

(* The commit landed and its answer did not.                                *)
AnswerLost(p) ==
  /\ faults > 0
  /\ Fold(p)
  /\ twice' = Plus(twice, p, held[p])
  /\ ReportFailure(p)

(* Mutant: what the tracker refused is not kept.                            *)
KeepNothing(p) ==
  /\ phase[p] = "keeping"
  /\ held' = [held EXCEPT ![p] = None]
  /\ toTell' = [toTell EXCEPT ![p] = IF held[p] = Report THEN 0 ELSE @]
  /\ left' = [left EXCEPT ![p] = 0]
  /\ Goes(p, "draining")
  /\ UNCHANGED <<trackerVars, memory, failing, look, life, bounds, ledger, late>>

(* A capture goes back to the queue, the overflow back to its count; and    *)
(* the loop is over.                                                        *)
Keep(p) ==
  /\ phase[p] = "keeping"
  /\ IF held[p] = Report
     THEN /\ dropped' = [dropped EXCEPT ![p] = @ + toTell[p]]
          /\ toTell' = [toTell EXCEPT ![p] = 0]
          /\ UNCHANGED <<queue, shed>>
     ELSE AppendCapture(p, held[p]) /\ UNCHANGED toTell
  /\ held' = [held EXCEPT ![p] = None]
  /\ left' = [left EXCEPT ![p] = 0]
  /\ Goes(p, "draining")
  /\ UNCHANGED <<trackerVars, failing, look, life, bounds, raised, folded, cut, twice,
                 said, cutTold, late>>

(* stop: cancels the task where it waits, asleep or in the tracker, whose   *)
(* commit may have left already; then come its two ticks.                   *)
CancelDelivery(p) ==
  /\ phase[p] \in {"tracking", "looked"}
  /\ \/ /\ Fold(p)
        /\ said' = [said EXCEPT ![p] = @ + IF held[p] = Report THEN toTell[p] ELSE 0]
        /\ cutTold' = [cutTold EXCEPT ![p] = @ + IF held[p] = Report THEN 0 ELSE toTell[p]]
        /\ UNCHANGED cut
     \/ /\ cut' = IF held[p] = Report THEN cut ELSE Plus(cut, p, held[p])
        /\ cutTold' = [cutTold EXCEPT ![p] = @ + toTell[p]]
        /\ UNCHANGED <<trackerVars, folded, said>>
  /\ Goes(p, "asleep")
  /\ held' = [held EXCEPT ![p] = None]
  /\ look' = [look EXCEPT ![p] = Absent]
  /\ left' = [left EXCEPT ![p] = 0]
  /\ toTell' = [toTell EXCEPT ![p] = 0]
  /\ UNCHANGED <<memory, failing, toRaise, faults, raised, shed, twice, late>>

Stop(p) ==
  /\ life[p] = "up" /\ stops > 0
  /\ life' = [life EXCEPT ![p] = "first"]
  /\ stops' = stops - 1
  /\ \/ CancelDelivery(p)
     \/ /\ phase[p] = "asleep"
        /\ UNCHANGED <<trackerVars, memory, tick, toRaise, faults, ledger, late>>

-----------------------------------------------------------------------------

Drain(p) ==
  \/ StartTick(p) \/ Pop(p) \/ EndLoop(p)
  \/ Look(p) \/ Delivered(p) \/ TrackerFails(p) \/ AnswerLost(p) \/ Keep(p)

Administration ==
  Triage /\ UNCHANGED <<memory, tick, life, bounds, ledger, late>>

Next ==
  \/ \E p \in Process, k \in Ordinary : Capture(p, k)
  \/ \E p \in Process : Drain(p) \/ Stop(p)
  \/ Administration

Spec == Init /\ [][Next]_vars

(* The drain's loop keeps running, and a triage request ends.               *)
FairSpec ==
  /\ Spec
  /\ \A p \in Process : WF_vars(Drain(p))
  /\ \A a \in Admin :
       WF_vars((SetIssueStatus(a) \/ TriageFails(a))
               /\ UNCHANGED <<memory, tick, life, bounds, ledger, late>>)

-----------------------------------------------------------------------------

Counts == [Process -> [Kind -> Nat]]

TypeOK ==
  /\ TrackerTypeOK
  /\ queue \in [Process -> Seq(Kind \ {Report})] /\ \A p \in Process : Len(queue[p]) <= Room
  /\ dropped \in [Process -> Nat] /\ toTell \in [Process -> Nat]
  /\ failing \in [Process -> BOOLEAN] /\ late \in [Process -> BOOLEAN]
  /\ phase \in [Process -> {"asleep", "draining", "tracking", "looked", "keeping"}]
  /\ left \in [Process -> 0 .. Room]
  /\ held \in [Process -> Kind \cup {None}]
  /\ look \in [Process -> Rows]
  /\ life \in [Process -> {"up", "first", "last", "gone"}]
  /\ toRaise \in [Process -> [Ordinary -> Nat]] /\ faults \in Nat /\ stops \in Nat
  /\ raised \in Counts /\ folded \in Counts /\ shed \in Counts
  /\ cut \in Counts /\ twice \in Counts
  /\ said \in [Process -> Nat] /\ cutTold \in [Process -> Nat]

Queued(p, k) == Cardinality({i \in 1 .. Len(queue[p]) : queue[p][i] = k})
Holds(p, k) == IF held[p] = k THEN 1 ELSE 0

(* No capture vanishes or multiplies: what a process raised waits, is being *)
(* delivered, was folded into an issue, was shed, or was cut by a stop; a   *)
(* lost answer explains every second fold, and nothing else does.  The shed *)
(* ones are counted until a report has told them.                           *)
EveryCaptureAccounted ==
  \A p \in Process :
    /\ \A k \in Kind \ {Report} :
         raised[p][k] + twice[p][k]
           = Queued(p, k) + Holds(p, k) + folded[p][k] + shed[p][k] + cut[p][k]
    /\ SumFunction(shed[p]) = dropped[p] + toTell[p] + said[p] + cutTold[p]

(* A storm pays for itself: while fewer shedding keys than the queue has    *)
(* room were raised, every key keeps a capture that waits, is delivered or  *)
(* was folded, however many of the others came in the meantime.             *)
Survives(p, key) ==
  \E k \in Kind \ {Report} :
    /\ ShedKey[k] = key
    /\ Queued(p, k) + Holds(p, k) + folded[p][k] + cut[p][k] > 0

RaisedKeys(p) == {ShedKey[k] : k \in {j \in Kind : raised[p][j] > 0}}

EveryKeySurvives ==
  \A p \in Process : Cardinality(RaisedKeys(p)) < Room =>
    \A key \in RaisedKeys(p) : Survives(p, key)

(* An issue's count is the occurrences that were folded into it, by all the *)
(* processes.                                                               *)
CountsOccurrences ==
  \A f \in Fingerprint :
    issue[f].count =
      SumFunction([x \in {x \in Process \X Kind : PrintOf[x[2]] = f} |-> folded[x[1]][x[2]]])

(* A process that stops leaves nothing behind: what waits, what its tracker *)
(* failed on in the first of its last two ticks and what it shed are all    *)
(* delivered, unless something more happened during the last tick.          *)
StopLeavesNothing ==
  \A p \in Process : life[p] = "gone" /\ ~late[p] => queue[p] = <<>> /\ dropped[p] = 0

(* Every capture lands: in a process that stays up, nothing waits forever,  *)
(* through outages and races, nor does a count of shed captures.            *)
EveryCaptureLands ==
  \A p \in Process :
    <>[](life[p] = "gone" \/ (queue[p] = <<>> /\ held[p] \in {None, Report} /\ dropped[p] = 0))
===============================================================================
