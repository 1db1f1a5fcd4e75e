----------------------------- MODULE Telemetry -----------------------------
(***************************************************************************)
(* A server process and what it tells of its requests: each exchange is    *)
(* counted as load and logged as it finishes, a drain and a flusher carry  *)
(* both to Postgres, and an admin reads the lines back.  The process       *)
(* starts, stops in the order its workers were mounted, crashes, is killed *)
(* and is started again.                                                   *)
(***************************************************************************)
EXTENDS LogSink, LoadMetrics

CONSTANTS
  Exchanges,       \* the requests a process may finish
  MaxExchanges,    \* bound: how many it does
  MaxFailures,     \* bound: refusals, lost answers, crashes and kills
  PageSize, NoFilter

ASSUME TelemetryAssumption ==
  /\ PageSize \in Nat \ {0}
  /\ MaxFailures \in Nat
  /\ \A x \in Exchanges : x.label \in Labels

VARIABLES
  server,      \* "down", "up", "stopping", "raised" when a stop failed, "crashed"
  facts,       \* facts of the journal: when their transaction began, and when they took their id
  reading,     \* what an admin reads of the Timeline
  finished, failures

telemetryVars == <<sinkVars, loadVars, server, facts, reading, finished, failures>>

\* A line's time is its order, with room between two for a transaction to begin and to take an id.
Entries ==
  {[ts |-> 4 * l.at, key |-> 4 * l.at, source |-> "logs",
    app |-> IF l.what \in Reports THEN "shared" ELSE "web"] : l \in stored}
  \cup {[ts |-> f.ts, key |-> f.key, source |-> "business", app |-> "web"] : f \in facts}

Screen == INSTANCE Timeline WITH entries <- Entries, Apps <- {"web", "shared"}

TelemetryInit ==
  /\ SinkInit /\ LoadInit /\ Screen!TimelineInit
  /\ server = "down" /\ facts = {} /\ finished = 0 /\ failures = 0

----------------------------------------------------------------------------
(* RequestLogger.                                                           *)

Refused(x) == x.status \in 400..499
Broken(x) == x.status >= 500

\* A 4xx reached from one of our own pages.
DeadLink(x) == Refused(x) /\ x.internal /\ x.path = "page"

FeedsLoad(x) == x.path # "health" /\ (~Refused(x) \/ DeadLink(x))

Traced(x) == IF x.path = "health" THEN Refused(x) \/ Broken(x) ELSE Broken(x) \/ x.path = "page"

\* The fact of a transaction that committed by now: others began, and took their ids, at other
\* moments.
Committed ==
  LET moments == {2 * t + 1 : t \in 0 .. 2 * buffer.said + 1}
  IN {f \in [ts : moments, key : moments] :
        f.ts <= f.key /\ \A g \in facts : f.ts # g.ts /\ f.key # g.key}

\* _finish: counted, then logged, after the line of a request heavy on the database; its fact was
\* committed before.
Finish(x) ==
  /\ server = "up" /\ finished < MaxExchanges
  /\ finished' = finished + 1
  /\ IF FeedsLoad(x) THEN Observe(x.label) ELSE UNCHANGED loadVars
  /\ LET b == IF x.heavy THEN Logged(buffer, "heavy_request", 0) ELSE buffer
     IN buffer' = IF Traced(x) THEN Logged(b, "request", 0) ELSE b
  /\ IF x.fact THEN \E f \in Committed : facts' = facts \cup {f} ELSE UNCHANGED facts
  /\ UNCHANGED <<taken, drain, stopping, outage, stored, filed, excused, refused, server, reading, failures>>

----------------------------------------------------------------------------
(* The workers.                                                             *)

Works == server \in {"up", "stopping"}
Fails == failures < MaxFailures /\ failures' = failures + 1
Rest == <<facts, reading, finished>>

DrainLines ==
  /\ Works
  /\ \/ (TickIdle \/ TakeLines \/ AppendLines \/ WriteFiles(TRUE)) /\ UNCHANGED failures
     \/ Fails /\ (WriteFiles(FALSE) \/ \E landed \in BOOLEAN : AppendRaises(landed))
  /\ UNCHANGED <<loadVars, server, Rest>>

\* A failure of the last tick fails the shutdown: the handlers after it do not run.
DrainRaises ==
  /\ Works /\ Fails /\ FilesRaise
  /\ server' = IF stopping THEN "raised" ELSE server
  /\ UNCHANGED <<loadVars, Rest>>

\* The flusher speaks through the same log.
Says(what) == buffer' = Logged(buffer, what, 0)

FlushSteps ==
  /\ Works
  /\ \/ (BeginFlush \/ LastFlushIdle) /\ UNCHANGED <<buffer, failures>>
     \/ /\ Flush /\ UNCHANGED failures
        /\ IF flusher # "ending" /\ health.failures > 0 THEN Says("flush_recovered") ELSE UNCHANGED buffer
     \/ /\ \E fault \in Faults, landed \in BOOLEAN : FlushRaises(fault, landed)
        /\ Fails /\ Says("flush_failed")
  /\ UNCHANGED <<taken, drain, stopping, outage, stored, filed, excused, refused, server, Rest>>

Daily == (RollUp \/ NextMinute) /\ UNCHANGED <<sinkVars, server, Rest, failures>>

----------------------------------------------------------------------------
(* The life of the process.                                                 *)

Boot ==
  /\ server = "down" /\ StartDrain /\ StartFlusher
  /\ server' = "up"
  /\ UNCHANGED <<Rest, failures>>

\* Once its requests are done, the drain stops, then the flusher.
StopSink ==
  /\ server = "up" /\ StopDrain
  /\ server' = "stopping"
  /\ UNCHANGED <<loadVars, Rest, failures>>

StopLoad ==
  /\ server = "stopping" /\ drain = "off"
  /\ \E landed \in BOOLEAN : StopFlusher(landed)
  /\ UNCHANGED <<sinkVars, server, Rest, failures>>

\* Nothing drains a line logged after the drain took its last.
Exit ==
  /\ server = "raised" \/ (server = "stopping" /\ drain = "off" /\ flusher = "off")
  /\ Forget({l \in QueuedLines : l.what # "request"})
  /\ Replace(FALSE)
  /\ server' = "down"
  /\ UNCHANGED <<Rest, failures>>

Crash ==
  /\ server = "up" /\ Fails /\ CrashFlush
  /\ server' = "crashed"
  /\ UNCHANGED <<loadVars, Rest>>

\* The process is gone at once, or after its crash; what it was writing may have been committed.
Die ==
  /\ \/ server \in {"up", "stopping", "raised"} /\ Fails
     \/ server = "crashed" /\ UNCHANGED failures
  /\ Forget(QueuedLines \cup taken)
  /\ \E landed \in BOOLEAN : (landed => flush # Idle) /\ Replace(landed)
  /\ server' = "down"
  /\ UNCHANGED Rest

----------------------------------------------------------------------------
Read ==
  /\ UNCHANGED <<sinkVars, loadVars, server, facts, finished, failures>>
  /\ \/ \E flt \in Screen!Filters : Screen!OpenTimeline(flt)
     \/ Screen!LoadOlder \/ Screen!CloseTimeline

TelemetryNext ==
  \/ \E x \in Exchanges : Finish(x)
  \/ DrainLines \/ DrainRaises \/ FlushSteps \/ Daily
  \/ Boot \/ StopSink \/ StopLoad \/ Exit \/ Crash \/ Die
  \/ Read

TelemetrySpec == TelemetryInit /\ [][TelemetryNext]_telemetryVars

----------------------------------------------------------------------------
\* What the process says of its own workers is true: what the sink says of its drops and outages,
\* and of the flusher's failures the ones that open an issue.
ReportsAreTrue == SinkReportsTrue /\ EachFaultOpensOnce

\* The Timeline reads the lines back in order, none twice.
PagesInOrder == Screen!PagesInOrder
=============================================================================
