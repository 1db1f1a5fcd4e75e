---------------------------- MODULE LoadMetrics ----------------------------
(***************************************************************************)
(* The load metrics (apps/metrics): a process counts its exchanges in      *)
(* memory; a flusher adds what is new to the minute rows of its instance,  *)
(* and a daily task folds old minutes into hours and drops old hours.  A   *)
(* loop's verdict (apps/shared/logs/loop.py) says which of its failed      *)
(* ticks opens an issue.  The method, the status class and the histogram   *)
(* of a route are counted the same way, and left out.                      *)
(***************************************************************************)
EXTENDS Integers, FiniteSets, Functions

CONSTANTS
  Routes,          \* route templates
  Paths,           \* paths that match no route
  Unmatched,       \* the label "unmatched"
  LabelCap,        \* UNMATCHED_LABEL_CAP
  Faults,          \* what a flush can fail of: type and raise site
  Minutes,         \* bound: the last minute
  PerHour,         \* minutes in an hour
  MinuteRetention, \* MINUTE_RETENTION_DAYS, in minutes
  HourRetention,   \* retention_days, in minutes
  Instances        \* bound: the last process, numbered as its instance

ASSUME LoadMetricsAssumption ==
  /\ {LabelCap, Minutes, MinuteRetention, HourRetention} \subseteq Nat
  /\ {PerHour, Instances} \subseteq Nat \ {0}

Labels == Routes \cup Paths \cup {Unmatched}
NoCounts == [l \in Labels |-> 0]

VARIABLES
  stats,      \* the accumulator
  paths,      \* unmatched paths with a label of their own
  previous,   \* the snapshot flushed last
  flush,      \* the tick under way: its snapshot and minute, or Idle
  flusher,    \* "off", "asleep", "ending" once stop() has cancelled it
  health,     \* the LoopHealth of the flusher, with what it said of the outage under way
  minuteRows, hourRows,
  minute,     \* the time
  instance,
  counted,    \* exchanges counted by any process
  doubled,    \* deltas added that the process took for lost
  gone        \* counts that ended with a process, or with the retention

loadVars == <<stats, paths, previous, flush, flusher, health, minuteRows, hourRows, minute, instance,
              counted, doubled, gone>>

Idle == [minute |-> -1]
Healthy == [failures |-> 0, opened |-> {}, issues |-> {}, seen |-> {}]

Added(f, g) == [l \in Labels |-> f[l] + g[l]]
Minus(f, g) == [l \in Labels |-> f[l] - g[l]]
Total(rows, l) == SumFunction([k \in DOMAIN rows |-> rows[k][l]])

MinuteKeys == (0..Minutes) \X (1..Instances)
Hours == 0..(Minutes \div PerHour)

LoadInit ==
  /\ stats = NoCounts /\ paths = {} /\ previous = NoCounts /\ flush = Idle /\ flusher = "off"
  /\ health = Healthy
  /\ minuteRows = [k \in MinuteKeys |-> NoCounts] /\ hourRows = [h \in Hours |-> NoCounts]
  /\ minute = 0 /\ instance = 1
  /\ counted = NoCounts /\ doubled = NoCounts /\ gone = NoCounts

----------------------------------------------------------------------------
\* An unmatched path keeps its label while there is room for one more.
Bounded(path) == IF path \in paths \/ Cardinality(paths) < LabelCap THEN path ELSE Unmatched

Observe(label) ==
  LET kept == IF label \in Paths THEN Bounded(label) ELSE label
  IN /\ stats' = [stats EXCEPT ![kept] = @ + 1]
     /\ counted' = [counted EXCEPT ![kept] = @ + 1]
     /\ paths' = paths \cup ({kept} \cap Paths)
     /\ UNCHANGED <<previous, flush, flusher, health, minuteRows, hourRows, minute, instance, doubled, gone>>

\* What is new since the last flush that went through.
Deltas == Minus(stats, previous)

\* The rows with a flush folded in.
Folded(f) == [minuteRows EXCEPT ![<<f.minute, instance>>] = Added(@, Minus(f.snapshot, previous))]

----------------------------------------------------------------------------
(* The flusher.                                                             *)

StartFlusher ==
  /\ flusher = "off" /\ flusher' = "asleep"
  /\ UNCHANGED <<stats, paths, previous, flush, health, minuteRows, hourRows, minute, instance,
                 counted, doubled, gone>>

\* tick: the snapshot and the minute, both of now.
BeginFlush ==
  /\ flusher \in {"asleep", "ending"} /\ flush = Idle /\ Deltas # NoCounts
  /\ flush' = [snapshot |-> stats, minute |-> minute]
  /\ UNCHANGED <<stats, paths, previous, flusher, health, minuteRows, hourRows, minute, instance,
                 counted, doubled, gone>>

TickSucceeded(h) == IF h.failures = 0 THEN h ELSE Healthy

\* The first failure of a fault in an outage is an exception, hence an issue; the others only warn.
TickFailed(h, fault) ==
  [failures |-> h.failures + 1,
   opened   |-> h.opened \cup {fault},
   issues   |-> h.issues \cup ({<<fault, h.failures + 1>>} \ {<<f, h.failures + 1>> : f \in h.opened}),
   seen     |-> h.seen \cup {fault}]

\* mutant: the flushed snapshot is the one of when it ends
LaterSnapshot(f) == stats

\* What is taken for flushed, once the commit has answered.
Flushed(f) == f.snapshot

\* The last flush is stop()'s own.
AfterTick == IF flusher = "ending" THEN "off" ELSE flusher

Flush ==
  /\ flush # Idle
  /\ minuteRows' = Folded(flush)
  /\ previous' = Flushed(flush)
  /\ health' = IF flusher = "ending" THEN health ELSE TickSucceeded(health)
  /\ flush' = Idle /\ flusher' = AfterTick
  /\ UNCHANGED <<stats, paths, hourRows, minute, instance, counted, doubled, gone>>

\* No answer: the deltas may be in the rows, and will be added once more.
Unanswered(landed) ==
  /\ minuteRows' = IF landed THEN Folded(flush) ELSE minuteRows
  /\ doubled' = IF landed THEN Added(doubled, Minus(flush.snapshot, previous)) ELSE doubled
  /\ flush' = Idle
  /\ UNCHANGED <<stats, paths, previous, hourRows, minute, instance, counted, gone>>

FlushRaises(fault, landed) ==
  /\ flush # Idle
  /\ Unanswered(landed)
  /\ health' = IF flusher = "ending" THEN health ELSE TickFailed(health, fault)
  /\ flusher' = AfterTick

\* stop: cancels the loop, whose flush may have committed, then flushes once more.
StopFlusher(landed) ==
  /\ flusher = "asleep"
  /\ flusher' = "ending"
  /\ IF flush = Idle THEN ~landed /\ UNCHANGED <<stats, paths, previous, flush, minuteRows, hourRows, minute,
                                                 instance, counted, doubled, gone>>
                     ELSE Unanswered(landed)
  /\ UNCHANGED health

\* ... which has nothing to flush.
LastFlushIdle ==
  /\ flusher = "ending" /\ flush = Idle /\ Deltas = NoCounts
  /\ flusher' = "off"
  /\ UNCHANGED <<stats, paths, previous, flush, health, minuteRows, hourRows, minute, instance,
                 counted, doubled, gone>>

\* Another process, another instance: what this one had not flushed is gone.
Replace(landed) ==
  /\ instance < Instances
  /\ minuteRows' = IF landed THEN Folded(flush) ELSE minuteRows
  /\ gone' = Added(gone, IF landed THEN Minus(stats, flush.snapshot) ELSE Deltas)
  /\ stats' = NoCounts /\ paths' = {} /\ previous' = NoCounts /\ flush' = Idle /\ flusher' = "off"
  /\ health' = Healthy
  /\ instance' = instance + 1
  /\ UNCHANGED <<hourRows, minute, counted, doubled>>

----------------------------------------------------------------------------
(* The daily task.                                                          *)

Stale == {k \in MinuteKeys : k[1] < minute - MinuteRetention}

\* rollup deletes the rows it read.
Deleted == Stale

\* Minutes past their retention fold into the rows of their hours, instances merged; hours past
\* theirs are deleted.
RollUp ==
  LET folded == [h \in Hours |-> Added(hourRows[h],
        [l \in Labels |-> SumFunction([k \in {k \in Stale : k[1] \div PerHour = h} |-> minuteRows[k][l]])])]
      old == {h \in Hours : h * PerHour < minute - HourRetention}
  IN /\ minuteRows' = [k \in MinuteKeys |-> IF k \in Deleted THEN NoCounts ELSE minuteRows[k]]
     /\ hourRows' = [h \in Hours |-> IF h \in old THEN NoCounts ELSE folded[h]]
     /\ gone' = Added(gone, [l \in Labels |-> SumFunction([h \in old |-> folded[h][l]])])
     /\ UNCHANGED <<stats, paths, previous, flush, flusher, health, minute, instance, counted, doubled>>

NextMinute ==
  /\ minute < Minutes
  /\ minute' = minute + 1
  /\ UNCHANGED <<stats, paths, previous, flush, flusher, health, minuteRows, hourRows, instance,
                 counted, doubled, gone>>

----------------------------------------------------------------------------
\* The rows hold every exchange counted and flushed, once: through failed flushes, roll-ups and
\* restarts, all that differs is what a process took for lost and added again, and what ended with
\* a process or with the retention.
CountsAddUp ==
  \A l \in Labels :
    Total(minuteRows, l) + Total(hourRows, l) = counted[l] + doubled[l] - gone[l] - Deltas[l]

\* Each fault of the outage under way has opened one issue, whatever others failed between.
EachFaultOpensOnce ==
  {i[1] : i \in health.issues} = health.seen /\ Cardinality(health.issues) = Cardinality(health.seen)
=============================================================================
