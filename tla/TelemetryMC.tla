---------------------------- MODULE TelemetryMC ----------------------------
(* Telemetry instantiated for TLC.  Six bounds on what is explored together: an admin reads while
   nothing has been flushed, failed or stopped; the third exchange, which it takes for a page to be
   overtaken, comes in the same quiet, and so do facts of transactions that overlap, of requests
   that all have one; while the process runs, flushes fail, and time passes, where the drain has not
   taken a line; once a minute has passed no line falls out of the queue; a second process follows
   one failure, and its own is not followed further. *)
EXTENDS Telemetry, TLC

Page(label, status, internal) ==
  [path |-> "page", status |-> status, internal |-> internal, label |-> label, heavy |-> internal, fact |-> ~internal]

Traffic == {
  Page("home", 200, FALSE), Page("lost", 404, TRUE),
  [Page("home", 200, FALSE) EXCEPT !.path = "health", !.status = 503, !.fact = FALSE]}

Quiet == failures = 0 /\ server = "up" /\ minute = 0 /\ previous = NoCounts /\ flush = Idle

\* Some fact was not begun and minted at once, just before the line of its request.
Overlapping ==
  \E f \in facts :
    ~ \E l \in stored \cup filed \cup excused \cup QueuedLines \cup taken \cup buffer.fell :
        l.what = "request" /\ f.ts = 4 * l.at - 1 /\ f.key = 4 * l.at - 1

Together ==
  /\ reading.open => Quiet
  /\ finished = MaxExchanges => Quiet /\ (buffer.fell = {} \/ Overlapping)
  /\ Overlapping => Quiet /\ taken \cup stored = {} /\ Cardinality(facts) = finished
  /\ taken # {} \/ stored # {} \/ filed # {} => minute = 0 /\ flush = Idle /\ health = Healthy /\ doubled = NoCounts
  /\ buffer.fell # {} => minute = 0
  /\ instance > 1 => ~reading.open /\ health = Healthy /\ failures < MaxFailures
=============================================================================
