------------------------------ MODULE TaskQueue ------------------------------
(* The durable task queue (apps/shared/queue.py): rows of task_queue that    *)
(* several workers claim for the time of a lease, run, complete, retry and   *)
(* park, with workers that are slow, fail, die and boot again.               *)
(*                                                                           *)
(* Time is kept as ages and countdowns, so that it never stops: run_at is    *)
(* the countdown dueIn, locked_at the age of the claim, which saturates once *)
(* the lease has expired.                                                    *)
EXTENDS Naturals, FiniteSets

CONSTANTS
  Row,          \* ids of task_queue rows
  Topic,
  Worker,       \* the processes' workers
  TopicOf,      \* TopicOf[r]: the topic of the row r
  Recurring,    \* topics planted by ensure_scheduled
  Handled,      \* Handled[w]: topics with a handler in the process of w
  Ledgered,     \* rows whose handler marks consumed_events (idempotent=True)
  NoRow,
  MaxAttempts,  \* max_attempts
  Batch,        \* batch_size
  Lease,        \* _VISIBILITY_TIMEOUT_SECONDS
  Backoff,      \* _RETRY_BACKOFF_SECONDS
  Every,        \* recurring_seconds
  MaxCrashes    \* bound: how many times a worker dies, is stopped or loses its database

ASSUME RowAssumption ==
  /\ IsFiniteSet(Row)               \* ids are uuids
  /\ TopicOf \in [Row -> Topic]
  /\ Ledgered \subseteq Row
  /\ NoRow \notin Row
ASSUME WorkerAssumption ==
  Recurring \subseteq Topic /\ Handled \in [Worker -> SUBSET Topic]
ASSUME NumberAssumption ==
  /\ {MaxAttempts, Batch, Lease} \subseteq Nat \ {0}
  /\ {Backoff, Every, MaxCrashes} \subseteq Nat

VARIABLES
  exists,     \* rows of the table
  done,       \* rows with done_at set
  failed,     \* rows with failed_at set
  attempts,   \* attempts[r], saturated at MaxAttempts
  dueIn,      \* dueIn[r]: time until run_at
  lockAge,    \* lockAge[r]: age of locked_at; Unlocked when it is null
  effects,    \* effects[r]: committed handler runs of r, saturated at 2
  consumed,   \* rows whose (consumer, event) pair is in consumed_events
  phase,      \* phase[w]: where the worker stands
  claim,      \* claim[w][r]: attempts in the claimed copy of r, 0 if w has none
  claimAge,   \* claimAge[w]: age of the claim of w's batch
  current,    \* current[w]: the row the worker is processing
  crashes     \* deaths, stops and lost databases so far

table == <<exists, done, failed, attempts, dueIn, lockAge>>
ledger == <<effects, consumed>>
worker == <<phase, claim, claimAge, current>>
vars == <<table, ledger, worker, crashes>>

Expired == Lease + 1
Unlocked == Lease + 2
AtMost(n, m) == IF n < m THEN n ELSE m

(* A row is open until it is done or parked. *)
OpenRow(r) == r \in exists \ (done \cup failed)
OpenOf(t) == {r \in Row : OpenRow(r) /\ TopicOf[r] = t}
Held(w) == {r \in Row : claim[w][r] > 0}

NoClaim == [r \in Row |-> 0]
Off == {"down", "stopped"}

Init ==
  /\ exists = {} /\ done = {} /\ failed = {}
  /\ attempts = [r \in Row |-> 0]
  /\ dueIn = [r \in Row |-> 0]
  /\ lockAge = [r \in Row |-> Unlocked]
  /\ effects = [r \in Row |-> 0]
  /\ consumed = {}
  /\ phase = [w \in Worker |-> "down"]
  /\ claim = [w \in Worker |-> NoClaim]
  /\ claimAge = [w \in Worker |-> 0]
  /\ current = [w \in Worker |-> NoRow]
  /\ crashes = 0

-----------------------------------------------------------------------------
(* Rows appear and disappear.                                               *)

Unused == Row \ exists

(* Rows S are inserted with the column defaults, due in d. *)
Insert(S, d) ==
  /\ exists' = exists \cup S
  /\ dueIn' = [r \in Row |-> IF r \in S THEN d ELSE dueIn[r]]

(* enqueue: the row appears with the business transaction's commit. *)
Enqueue(r) ==
  /\ r \in Unused /\ TopicOf[r] \notin Recurring
  /\ effects[r] = 0                 \* a task's id is never used again
  /\ Insert({r}, 0)
  /\ UNCHANGED <<done, failed, attempts, lockAge, ledger, worker, crashes>>

(* A process boots: every mounted app plants its recurring topics, unless   *)
(* the unique index holds an open row of the topic.                         *)
Boot(w) ==
  /\ phase[w] \in Off
  /\ \E S \in SUBSET Unused :
       /\ \A t \in Topic :
            Cardinality({r \in S : TopicOf[r] = t})
              = IF t \in Recurring \cap Handled[w] /\ OpenOf(t) = {} THEN 1 ELSE 0
       /\ Insert(S, 0)
  /\ phase' = [phase EXCEPT ![w] = "idle"]
  /\ UNCHANGED <<done, failed, attempts, lockAge, ledger, claim, claimAge,
                 current, crashes>>

(* purge_finished_tasks; the retention outlasts any run of a handler. *)
Purge ==
  /\ \E S \in (SUBSET {r \in exists \cap done : \A w \in Worker : r \notin Held(w)}) \ {{}} :
       /\ exists' = exists \ S
       /\ done' = done \ S
       /\ failed' = failed \ S
       /\ attempts' = [r \in Row |-> IF r \in S THEN 0 ELSE attempts[r]]
       /\ dueIn' = [r \in Row |-> IF r \in S THEN 0 ELSE dueIn[r]]
  /\ UNCHANGED <<lockAge, ledger, worker, crashes>>

Clock ==
  /\ dueIn' = [r \in Row |-> IF dueIn[r] = 0 THEN 0 ELSE dueIn[r] - 1]
  /\ lockAge' = [r \in Row |->
       IF lockAge[r] = Unlocked THEN Unlocked ELSE AtMost(lockAge[r] + 1, Expired)]
  /\ claimAge' = [w \in Worker |->
       IF Held(w) = {} THEN 0 ELSE AtMost(claimAge[w] + 1, Expired)]
  /\ UNCHANGED <<exists, done, failed, attempts, ledger, phase, claim, current,
                 crashes>>

-----------------------------------------------------------------------------
(* TaskWorker.tick: claim a batch in one transaction, then process its rows *)
(* one after the other, each in transactions of its own.                    *)

ClaimableUnlocked ==              \* mutant: a claim never expires
  {r \in Row : OpenRow(r) /\ dueIn[r] = 0 /\ lockAge[r] = Unlocked}
Claimable ==
  {r \in Row : OpenRow(r) /\ dueIn[r] = 0 /\ lockAge[r] \in {Unlocked, Expired}}

(* _CLAIM; which rows are first in run_at order is left open. *)
Claim(w) ==
  /\ phase[w] = "idle"
  /\ \E S \in SUBSET Claimable :
       /\ S # {} /\ Cardinality(S) <= Batch
       /\ S = Claimable \/ Cardinality(S) = Batch
       /\ attempts' = [r \in Row |->
            IF r \in S THEN AtMost(attempts[r] + 1, MaxAttempts) ELSE attempts[r]]
       /\ lockAge' = [r \in Row |-> IF r \in S THEN 0 ELSE lockAge[r]]
       /\ claim' = [claim EXCEPT ![w] =
            [r \in Row |-> IF r \in S THEN attempts'[r] ELSE 0]]
  /\ claimAge' = [claimAge EXCEPT ![w] = 0]
  /\ phase' = [phase EXCEPT ![w] = "ready"]
  /\ UNCHANGED <<exists, done, failed, dueIn, ledger, current, crashes>>

(* The row's processing is over, whatever its end. *)
EndRow(w) ==
  /\ claim' = [claim EXCEPT ![w][current[w]] = 0]
  /\ current' = [current EXCEPT ![w] = NoRow]
  /\ phase' = [phase EXCEPT ![w] = IF Held(w) = {current[w]} THEN "idle" ELSE "ready"]
  /\ UNCHANGED claimAge

(* _process takes the next row; a topic with no handler goes to _fail. *)
Take(w) ==
  /\ phase[w] = "ready"
  /\ \E r \in Held(w) :
       /\ current' = [current EXCEPT ![w] = r]
       /\ phase' = [phase EXCEPT ![w] =
            IF TopicOf[r] \in Handled[w] THEN "running" ELSE "unhandled"]
  /\ UNCHANGED <<table, ledger, claim, claimAge, crashes>>

(* already_consumed: is this the first delivery of the row's event?         *)
AlwaysFirst(r) == TRUE            \* mutant: idempotent=False
FirstDelivery(r) == r \notin consumed

(* _run_handler returns: the handler's writes and, through the idempotent   *)
(* wrapper, its consumed_events mark commit together, or the mark was there *)
(* and the handler did not run.                                             *)
HandlerCommits(w) ==
  LET r == current[w] IN
  /\ phase[w] = "running"
  /\ effects' = IF FirstDelivery(r)
                  THEN [effects EXCEPT ![r] = AtMost(@ + 1, 2)] ELSE effects
  /\ consumed' = consumed \cup ({r} \cap Ledgered)
  /\ phase' = [phase EXCEPT ![w] = "succeeded"]
  /\ UNCHANGED <<table, claim, claimAge, current, crashes>>

HandlerSwallowed(w) ==            \* mutant: the exception is swallowed
  /\ phase[w] = "running"
  /\ phase' = [phase EXCEPT ![w] = "succeeded"]
  /\ UNCHANGED <<table, ledger, claim, claimAge, current, crashes>>

(* ... or it raises, and nothing of it remains. *)
HandlerRaises(w) ==
  /\ phase[w] = "running"
  /\ phase' = [phase EXCEPT ![w] = "raised"]
  /\ UNCHANGED <<table, ledger, claim, claimAge, current, crashes>>

Unlock(r) == lockAge' = [lockAge EXCEPT ![r] = Unlocked]

(* _complete: done, and the next run of a recurring topic, in one           *)
(* transaction.  The unique index compares with the rows open after the     *)
(* update.                                                                  *)
RecursIfFirst(w) ==               \* mutant: re-enqueued by a first attempt only
  TopicOf[current[w]] \in Recurring /\ claim[w][current[w]] = 1
Recurs(w) == TopicOf[current[w]] \in Recurring
Free(w) == OpenOf(TopicOf[current[w]]) \subseteq {current[w]}

Complete(w) ==
  LET r == current[w] IN
  /\ phase[w] = "succeeded"
  /\ done' = done \cup {r}
  /\ Unlock(r)
  /\ IF Recurs(w)
       THEN Free(w) /\ \E s \in Unused : TopicOf[s] = TopicOf[r] /\ Insert({s}, Every)
       ELSE UNCHANGED <<exists, dueIn>>
  /\ EndRow(w)
  /\ UNCHANGED <<failed, attempts, ledger, crashes>>

(* The statement that ends the row fails: another open row of the topic      *)
(* violates the index, or the database is gone.  It is rolled back, and its *)
(* exception ends the tick; the rest of the batch stays locked until the    *)
(* lease expires.                                                           *)
EndingFails(w) ==
  /\ phase[w] \in {"succeeded", "raised", "unhandled"}
  /\ \/ phase[w] = "succeeded" /\ Recurs(w) /\ ~Free(w) /\ UNCHANGED crashes
     \/ crashes < MaxCrashes /\ crashes' = crashes + 1
  /\ claim' = [claim EXCEPT ![w] = NoClaim]
  /\ current' = [current EXCEPT ![w] = NoRow]
  /\ phase' = [phase EXCEPT ![w] = "idle"]
  /\ UNCHANGED <<table, ledger, claimAge>>

LastAttempt(w) == claim[w][current[w]] >= MaxAttempts

Retry(w) ==
  LET r == current[w] IN
  /\ phase[w] = "raised" /\ ~LastAttempt(w)
  /\ Unlock(r)
  /\ dueIn' = [dueIn EXCEPT ![r] = Backoff]
  /\ EndRow(w)
  /\ UNCHANGED <<exists, done, failed, attempts, ledger, crashes>>

Fail(w) ==
  LET r == current[w] IN
  /\ phase[w] = "unhandled" \/ (phase[w] = "raised" /\ LastAttempt(w))
  /\ failed' = failed \cup {r}
  /\ Unlock(r)
  /\ EndRow(w)
  /\ UNCHANGED <<exists, done, attempts, dueIn, ledger, crashes>>

(* The worker ends as p: an open handler rolls back, and the claims, being  *)
(* committed, stay in the table.                                            *)
Ends(w, p) ==
  /\ phase[w] \notin Off /\ crashes < MaxCrashes
  /\ crashes' = crashes + 1
  /\ phase' = [phase EXCEPT ![w] = p]
  /\ claim' = [claim EXCEPT ![w] = NoClaim]
  /\ current' = [current EXCEPT ![w] = NoRow]
  /\ UNCHANGED <<table, ledger, claimAge>>

Stop(w) == Ends(w, "stopped")     \* stop() cancels the loop
Crash(w) == Ends(w, "down")       \* the process dies

Work(w) ==
  \/ Boot(w) \/ Claim(w) \/ Take(w)
  \/ HandlerCommits(w) \/ HandlerRaises(w)
  \/ Complete(w) \/ EndingFails(w) \/ Retry(w) \/ Fail(w)

Next ==
  \/ Clock \/ Purge
  \/ \E r \in Row : Enqueue(r)
  \/ \E w \in Worker : Work(w) \/ Stop(w) \/ Crash(w)

Spec == Init /\ [][Next]_vars

(* Time passes, and every process keeps working: the loop ticks, a handler  *)
(* returns or raises, a dead process is started again.  The purge is fair   *)
(* because it is what gives the model row ids back; the code never lacks    *)
(* one.                                                                     *)
FairSpec ==
  Spec /\ WF_vars(Clock) /\ WF_vars(Purge) /\ \A w \in Worker : WF_vars(Work(w))

-----------------------------------------------------------------------------
TypeOK ==
  /\ exists \subseteq Row /\ done \subseteq exists /\ failed \subseteq exists
  /\ attempts \in [Row -> 0 .. MaxAttempts]
  /\ dueIn \in [Row -> Nat]
  /\ lockAge \in [Row -> 0 .. Unlocked]
  /\ effects \in [Row -> 0 .. 2]
  /\ consumed \subseteq Ledgered
  /\ phase \in [Worker -> Off \cup {"idle", "ready", "running", "succeeded",
                                   "raised", "unhandled"}]
  /\ claim \in [Worker -> [Row -> 0 .. MaxAttempts]]
  /\ claimAge \in [Worker -> 0 .. Expired]
  /\ current \in [Worker -> Row \cup {NoRow}]
  /\ crashes \in Nat

(* An idempotent reaction takes effect at most once, even when its lease    *)
(* expires under a slow handler and several workers run it at a time.       *)
EffectAtMostOnce == \A r \in Ledgered : effects[r] <= 1

DoneMeansRan ==
  \A r \in done : TopicOf[r] \notin Recurring => effects[r] >= 1

ParkedGaveUp ==
  \A r \in failed :
    attempts[r] = MaxAttempts \/ \E w \in Worker : TopicOf[r] \notin Handled[w]

(* The receipts are true, whoever wrote them: a row is done only after a    *)
(* handler run committed, and parked only after its last attempt, or where  *)
(* no handler was.                                                          *)
ReceiptsAreTrue == DoneMeansRan /\ ParkedGaveUp

(* A recurring topic that some process has planted never fades out: it has  *)
(* one open row, or a parked one that the console shows.                    *)
Planted(t) == \E r \in exists : TopicOf[r] = t
RecurringNeverStops ==
  \A t \in Recurring : Planted(t) =>
    \/ Cardinality(OpenOf(t)) = 1
    \/ OpenOf(t) = {} /\ \E r \in failed \ done : TopicOf[r] = t

(* Every row lands: done or parked. *)
EveryTaskLands ==
  \A r \in Row : OpenRow(r) ~> r \in done \cup failed
=============================================================================
