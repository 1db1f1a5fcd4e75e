------------------------------ MODULE LogSink ------------------------------
(***************************************************************************)
(* The log sink of one process (apps/shared/logs/sink.py): the log path    *)
(* only appends to a bounded queue, and a drain carries what is queued to  *)
(* the table log_lines, or to day files when the table refuses.  A stop    *)
(* cancels the drain wherever it stands, then drains once more.  The sink  *)
(* reports on itself with lines of its own, which enter the same queue.    *)
(***************************************************************************)
EXTENDS Naturals, Sequences, FiniteSets, SequencesExt

CONSTANT QueueCap               \* maxlen of _QUEUE

ASSUME LogSinkAssumption == QueueCap \in Nat \ {0}

VARIABLES
  buffer,     \* the log path: the queue, _overflow, and how many lines it was given
  taken,      \* the batch of the tick under way
  drain,      \* where the drain stands
  stopping,   \* whether the tick is the one stop() runs itself
  outage,     \* _outage
  stored,     \* lines of log_lines
  filed,      \* lines of the day files
  excused,    \* lines that a cancelled append, a refusing disk or the process's end took
  refused     \* how many lines the table has refused to this process

sinkVars == <<buffer, taken, drain, stopping, outage, stored, filed, excused, refused>>

NoOutage == [lines |-> 0, refusing |-> FALSE, announced |-> FALSE]

\* A process has just started; its lines are numbered on from those of the last.
Empty(said) == [queue |-> <<>>, dropped |-> 0, said |-> said, first |-> said + 1, fell |-> {}, reports |-> {}]

SinkInit ==
  /\ buffer = Empty(0) /\ taken = {} /\ drain = "off" /\ stopping = FALSE
  /\ outage = NoOutage /\ stored = {} /\ filed = {} /\ excused = {} /\ refused = 0

----------------------------------------------------------------------------
(* The log path.                                                            *)

Reports == {"write_failed", "write_recovered", "overflowed", "drain_failed"}

Full(b) == Len(b.queue) = QueueCap

\* One more line; a full queue drops its oldest, and counts it.
Logged(b, what, n) ==
  LET line == [at |-> b.said + 1, what |-> what, n |-> n]
  IN [b EXCEPT !.said = @ + 1,
               !.dropped = IF Full(b) THEN @ + 1 ELSE @,
               !.queue = Append(IF Full(b) THEN Tail(@) ELSE @, line),
               !.fell = IF Full(b) THEN @ \cup {Head(b.queue)} ELSE @,
               !.reports = IF what \in Reports THEN @ \cup {line} ELSE @]

ReportOverflow(b) ==
  IF b.dropped = 0 THEN b ELSE Logged([b EXCEPT !.dropped = 0], "overflowed", b.dropped)

\* mutant: the count outlives the outage it is of
ReportOutageKept(b, o) ==
  CASE o.refusing /\ ~o.announced ->
         [b |-> Logged(b, "write_failed", 0), o |-> [o EXCEPT !.announced = TRUE]]
    [] ~o.refusing /\ o.announced ->
         [b |-> Logged(b, "write_recovered", o.lines), o |-> [o EXCEPT !.announced = FALSE]]
    [] OTHER -> [b |-> b, o |-> o]

\* An outage is told as it begins and as it ends, and then with what it cost.
ReportOutage(b, o) ==
  CASE o.refusing /\ ~o.announced ->
         [b |-> Logged(b, "write_failed", 0), o |-> [o EXCEPT !.announced = TRUE]]
    [] ~o.refusing /\ o.announced ->
         [b |-> Logged(b, "write_recovered", o.lines),
          o |-> [o EXCEPT !.announced = FALSE, !.lines = 0]]
    [] OTHER -> [b |-> b, o |-> o]

----------------------------------------------------------------------------
(* The drain.                                                               *)

Ended == IF stopping THEN "off" ELSE "asleep"

\* The end of a tick that leaves the outage as o.
TickEnds(o) ==
  LET told == ReportOutage(buffer, o)
  IN /\ buffer' = ReportOverflow(told.b)
     /\ outage' = told.o
     /\ taken' = {} /\ drain' = Ended /\ stopping' = FALSE

StartDrain == drain = "off" /\ drain' = "asleep"
              /\ UNCHANGED <<buffer, taken, stopping, outage, stored, filed, excused, refused>>

\* tick: with no line to write, only an overflow is reported.
TickIdle ==
  /\ drain = "asleep" /\ buffer.queue = <<>> /\ (stopping \/ buffer.dropped > 0)
  /\ buffer' = ReportOverflow(buffer)
  /\ drain' = Ended /\ stopping' = FALSE
  /\ UNCHANGED <<taken, outage, stored, filed, excused, refused>>

TakeLines ==
  /\ drain = "asleep" /\ buffer.queue # <<>>
  /\ taken' = ToSet(buffer.queue)
  /\ buffer' = [buffer EXCEPT !.queue = <<>>]
  /\ drain' = "appending"
  /\ UNCHANGED <<stopping, outage, stored, filed, excused, refused>>

AppendLines ==
  /\ drain = "appending"
  /\ stored' = stored \cup taken
  /\ TickEnds([outage EXCEPT !.refusing = FALSE])
  /\ UNCHANGED <<filed, excused, refused>>

\* The append or its commit raises; the lines may have landed when only its answer is lost.
AppendRaises(landed) ==
  /\ drain = "appending"
  /\ stored' = IF landed THEN stored \cup taken ELSE stored
  /\ outage' = [outage EXCEPT !.refusing = TRUE, !.lines = @ + Cardinality(taken)]
  /\ refused' = refused + Cardinality(taken)
  /\ drain' = "filing"
  /\ UNCHANGED <<buffer, taken, stopping, filed, excused>>

\* Silent if the disk refuses too.
WriteFiles(accepted) ==
  /\ drain = "filing"
  /\ filed' = IF accepted THEN filed \cup taken ELSE filed
  /\ excused' = IF accepted THEN excused ELSE excused \cup taken
  /\ TickEnds(outage)
  /\ UNCHANGED <<stored, refused>>

\* The directory cannot be made: the tick raises, and the loop logs it; when it is the tick of
\* stop(), the exception goes on.
FilesRaise ==
  /\ drain = "filing"
  /\ excused' = excused \cup taken
  /\ buffer' = IF stopping THEN buffer ELSE Logged(buffer, "drain_failed", 0)
  /\ taken' = {} /\ drain' = Ended /\ stopping' = FALSE
  /\ UNCHANGED <<outage, stored, filed, refused>>

\* mutant: a stop only cancels
StopNow ==
  /\ drain # "off"
  /\ excused' = excused \cup taken
  /\ drain' = "off" /\ taken' = {}
  /\ UNCHANGED <<buffer, stopping, outage, stored, filed, refused>>

\* stop: cancels the loop, then ticks once more.  The batch of a cancelled append is gone, unless
\* it was committed already; the thread that writes files goes on, and the disk may refuse it.
StopDrain ==
  /\ drain \in {"asleep", "appending", "filing"} /\ ~stopping
  /\ \E stands \in {{}, taken} :
       /\ stored' = IF drain = "appending" THEN stored \cup stands ELSE stored
       /\ filed' = IF drain = "filing" THEN filed \cup stands ELSE filed
       /\ excused' = excused \cup (taken \ stands)
  /\ taken' = {} /\ drain' = "asleep" /\ stopping' = TRUE
  /\ UNCHANGED <<buffer, outage, refused>>

\* sys.excepthook: the line of the crash, then all that is queued, go to the day files, unless the
\* disk refuses them.
CrashFlush ==
  LET b == Logged(buffer, "crashed", 0)
  IN /\ \E landed \in {{}, ToSet(b.queue)} :
          /\ filed' = filed \cup landed
          /\ excused' = excused \cup taken \cup (ToSet(b.queue) \ landed)
     /\ buffer' = [b EXCEPT !.queue = <<>>]
     /\ taken' = {} /\ drain' = "off" /\ stopping' = FALSE
     /\ UNCHANGED <<outage, stored, refused>>

\* The process is gone, and all it held in memory: `gone' of it is no one's fault.
Forget(gone) ==
  /\ excused' = excused \cup gone \cup buffer.fell
  /\ buffer' = Empty(buffer.said)
  /\ taken' = {} /\ drain' = "off" /\ stopping' = FALSE
  /\ outage' = NoOutage /\ refused' = 0
  /\ UNCHANGED <<stored, filed>>

----------------------------------------------------------------------------
QueuedLines == ToSet(buffer.queue)

\* Every line reaches log_lines or a day file, is in memory, or was counted as dropped, unless a
\* cancelled append, a disk that refused as well or the end of a process that did not stop in
\* order took it; of one that did, only the lines logged too late for its last drain.
LinesAccounted ==
  {l.at : l \in stored \cup filed \cup excused \cup QueuedLines \cup taken \cup buffer.fell} = 1..buffer.said

Told(what) == {l \in buffer.reports : l.what = what}
Sum(lines) == SumFunction([l \in lines |-> l.n])

\* The sink's reports are true of the process so far: the drops told and those still to tell are
\* the lines that fell out; the outages that ended, with the one under way, cost the lines they
\* say; an outage is told once, before its end is.
SinkReportsTrue ==
  /\ Sum(Told("overflowed")) + buffer.dropped = Cardinality(buffer.fell)
  /\ Sum(Told("write_recovered")) + outage.lines = refused
  /\ Cardinality(Told("write_failed")) =
       Cardinality(Told("write_recovered")) + (IF outage.announced THEN 1 ELSE 0)
=============================================================================
