------------------------------ MODULE TaskScreen ------------------------------
(* The console's Tasks screen (apps/tasks) over the queue it reads: the      *)
(* backlog, what the queue still owes, and the history, a film strip of what *)
(* each topic ran in a window of time.  One page is several queries, each    *)
(* with a snapshot of its own, while workers go on.  Which of the rows and   *)
(* lines that stand fall in the window is left open.  The tally of owed      *)
(* rows, a query of its own, is left out: nothing else on the page follows   *)
(* it.                                                                       *)
EXTENDS TaskQueue, Sequences, SequencesExt

VARIABLES
  lines,       \* topics with a stored line of a failed try
  page         \* the page being made

screenVars == <<vars, lines, page>>

(* Worst first: the order in which the states of a slot are stacked. *)
BANDS == <<"parked", "attempt", "retrying", "pending", "done">>
StateOf(r) ==
  IF r \in done THEN "done" ELSE IF r \in failed THEN "parked"
  ELSE IF attempts[r] > 0 THEN "retrying" ELSE "pending"

NoRuns == [t \in Topic |-> {}]
Closed == [step |-> "closed", during |-> {}, planted |-> {}, owed |-> {},
           clocks |-> {}, tries |-> {}, recurring |-> NoRuns, oneshot |-> NoRuns]

ScreenInit == Init /\ lines = {} /\ page = Closed

-----------------------------------------------------------------------------
(* The queue's steps, and what they leave for the screen to read.           *)

JustLanded == (done' \cup failed') \ (done \cup failed)

Meanwhile ==
  [page EXCEPT !.during = IF page.step = "closed" THEN {} ELSE @ \cup JustLanded]

(* The retention outlasts the making of a page.                             *)
PurgeOld == Purge /\ page.during \subseteq exists'

(* queue.task_retrying and queue.task_failed: stored, with luck.            *)
Tried(w) == phase[w] = "raised" /\ (Retry(w) \/ Fail(w) \/ EndingFails(w))
EndUntried(w) == phase[w] # "raised" /\ (Fail(w) \/ EndingFails(w))

QueueStep ==
  /\ page.step # "drawn"           \* an answer is not kept
  /\ \/ /\ \/ Clock \/ PurgeOld \/ \E r \in Row : Enqueue(r)
           \/ \E w \in Worker : \/ Boot(w) \/ Claim(w) \/ Take(w) \/ HandlerCommits(w)
                                \/ HandlerRaises(w) \/ Complete(w)
                                \/ EndUntried(w) \/ Stop(w) \/ Crash(w)
        /\ UNCHANGED lines
     \/ \E w \in Worker : Tried(w) /\ lines' \in {lines, lines \cup {TopicOf[current[w]]}}
  /\ page' = Meanwhile

-----------------------------------------------------------------------------
(* get_tasks, one query a step.                                             *)

Owed == exists \ done

ListBacklog ==
  /\ page.step = "closed"
  /\ page' = [Closed EXCEPT !.step = "listed", !.planted = {t \in Recurring : Planted(t)},
                            !.owed = {<<TopicOf[r], StateOf(r)>> : r \in Owed}]

(* live_recurring_topics: those with a row still to run, in any window.     *)
LiveFresh(t) ==                   \* mutant: with a row that no worker has tried
  \E r \in OpenOf(t) : attempts[r] = 0
Live(t) == OpenOf(t) # {}

ReadClocks ==
  /\ page.step = "listed"
  /\ page' = [page EXCEPT !.step = "clocked", !.clocks = {t \in Recurring : Live(t)}]

(* counted_by_payload_key: one dictionary, shared out to the two families.  *)
ReadTries ==
  /\ page.step = "clocked"
  /\ \E tries \in SUBSET lines : page' = [page EXCEPT !.step = "tried", !.tries = tries]

(* bucketed_runs: per topic of the family, the states of its rows within.   *)
Runs(family, within) ==
  [t \in Topic |-> {StateOf(r) : r \in {q \in within : TopicOf[q] = t /\ t \in family}}]

(* A row that is still to run has its moment at run_at. *)
InTime == {r \in exists : OpenRow(r) => dueIn[r] = 0}

(* The two families share no row: their queries are one step.               *)
ReadRuns ==
  /\ page.step = "tried"
  /\ \E within \in SUBSET InTime :
       page' = [page EXCEPT !.step = "drawn", !.recurring = Runs(Recurring, within),
                            !.oneshot = Runs(Topic \ Recurring, within)]

ClosePage == page.step = "drawn" /\ page' = Closed

ScreenStep ==
  /\ ListBacklog \/ ReadClocks \/ ReadTries \/ ReadRuns \/ ClosePage
  /\ UNCHANGED <<vars, lines>>

ScreenNext == QueueStep \/ ScreenStep
ScreenSpec == ScreenInit /\ [][ScreenNext]_screenVars

-----------------------------------------------------------------------------
(* The page drawn.                                                          *)

(* bucket_blocks, tally_bar: what ran and what was tried, worst first.      *)
Stacked(states, tried) ==
  SelectSeq(BANDS, LAMBDA band : band \in states \cup (IF tried THEN {"attempt"} ELSE {}))

(* _lanes: a lane for each topic of the runs, or of the tries they are      *)
(* given with.                                                              *)
Lanes(runs, tries) ==
  [t \in {u \in Topic : runs[u] # {}} \cup tries |-> Stacked(runs[t], t \in tries)]

OneShotLanes == Lanes(page.oneshot, page.tries \ page.clocks)

(* A topic with a clock keeps its lane when it is empty.                    *)
RecurringLanes ==
  LET drawn == Lanes(page.recurring, page.tries \cap page.clocks)
  IN [t \in DOMAIN drawn \cup page.clocks |-> IF t \in DOMAIN drawn THEN drawn[t] ELSE <<>>]

(* A recurring topic is not lost on the page, whatever landed, fell due,    *)
(* was parked or planted between its queries: one that had a row when the   *)
(* page was asked for is owed or has a lane, and its failed tries are drawn *)
(* among the one-shots only if a row of it was parked.                      *)
NoTopicMisplaced ==
  page.step = "drawn" =>
    /\ \A t \in page.planted :
         t \in DOMAIN RecurringLanes \/ \E o \in page.owed : o[1] = t
    /\ \A t \in page.planted \cap DOMAIN OneShotLanes :
         "attempt" \in ToSet(OneShotLanes[t]) =>
           <<t, "parked">> \in page.owed \/ \E r \in failed : TopicOf[r] = t
===============================================================================
