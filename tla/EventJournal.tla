---------------------------- MODULE EventJournal ----------------------------
(* The business journal and its readers (apps/shared/events).               *)
(*                                                                          *)
(* A business transaction opens, inserts its fact and commits, at its own   *)
(* pace.  The fact's created_at is the time the transaction OPENED (now()); *)
(* its key, a uuid7, is minted from clock_timestamp() at the INSERT.  Each  *)
(* process runs one EventListener, whose tick is one database transaction:  *)
(* claim facts to check, move the cursor of every durable consumer that its *)
(* wiring carries, read the facts to spread, commit; then it runs the       *)
(* spread handlers, outside the transaction.                                *)
EXTENDS Naturals, FiniteSets

CONSTANTS
  Fact,         \* facts; a fact's number breaks ties between equal mint times
  Topic,        \* durable consumers
  Listener,     \* the processes' listeners
  NoOne,        \* no listener
  Wants,        \* Wants[t]: the facts of the kinds the topic t reacts to
  SpreadFact,   \* the facts of the kinds some spread handler takes
  Carries,      \* Carries[l]: the topics registered in the wiring of l
  Batch,        \* how many unchecked facts one tick claims
  Settle,       \* SETTLE_SECONDS
  MaxTx,        \* how long a business transaction may stay open
  Faults,       \* which faults may happen: "rollback", "crash"
  MaxFaults,    \* bound: how many of them
  MaxTime       \* bound: the clock stops there

ASSUME FactAssumption == Fact \subseteq Nat \ {0}
ASSUME NoOneAssumption == NoOne \notin Listener
ASSUME WiringAssumption ==
  /\ Wants \in [Topic -> SUBSET Fact]
  /\ Carries \in [Listener -> SUBSET Topic]
  /\ SpreadFact \subseteq Fact
ASSUME TimeAssumption ==
  Settle \in Nat /\ MaxTx \in Nat /\ MaxTime \in Nat
ASSUME BoundAssumption ==
  Batch \in Nat \ {0} /\ MaxFaults \in Nat /\ Faults \subseteq {"rollback", "crash"}

Nil == 0        \* the nil uuid: every key is above it

VARIABLES
  now,        \* the database's clock
  tx,         \* tx[f]: the state of the transaction that records f
  start,      \* start[f]: when it opened, the fact's created_at
  mint,       \* mint[f]: when it inserted f, the time in the fact's key
  checked,    \* facts with checked_at set
  cursor,     \* cursor[t]: event_dispatch_cursors
  ledger,     \* ledger[t]: the facts of t in dispatched_consumers
  tasks,      \* tasks[t][f]: rows of task_queue the listeners inserted
  lock,       \* lock[t]: the listener whose open tick holds the cursor row
  draft,      \* draft[t]: what that tick wrote for t and has not committed
  phase,      \* phase[l]: where the tick of l stands
  began,      \* began[l]: when the tick's transaction started
  claimed,    \* claimed[l]: facts locked by claim_unchecked
  todo,       \* todo[l]: topics the tick has still to visit
  seen,       \* seen[l]: [cursor, applied], the spread memory of the process
  fresh,      \* fresh[l]: facts read to be spread, their handlers not yet run
  spread,     \* spread[l][f]: times this process ran the handlers of f
  missed,     \* missed[l]: facts this process had read when their tick failed
  faults      \* faults so far

business == <<tx, start, mint>>
delivery == <<cursor, ledger, tasks, lock, draft>>
local == <<phase, began, claimed, todo>>
memory == <<seen, fresh, spread, missed>>
vars == <<now, business, checked, delivery, local, memory, faults>>

Key == Fact \cup {Nil}

NoDraft == [cursor |-> Nil, facts |-> {}]

(* Committed facts are the ones a query of another transaction returns. *)
Visible == {f \in Fact : tx[f] = "committed"}

(* The order of the keys: mint time, then the random bits. *)
Above(f, c) == c = Nil \/ mint[f] > mint[c] \/ (mint[f] = mint[c] /\ f > c)

(* facts_above_cursor: what it returns, and the cursor the reader may take, *)
(* the last of the prefix opened before now() - settle.                     *)
FoundUnchecked(c, kinds) ==       \* mutant: off the claim, as before 20261005000001
  {f \in (Visible \cap kinds) \ checked : Above(f, c)}
FoundAnyKind(c, kinds) == {f \in Visible : Above(f, c)}    \* mutant
Found(c, kinds) == {f \in Visible \cap kinds : Above(f, c)}
SettledAtOnce(c, kinds, l) == Found(c, kinds)       \* mutant: no settle window
Settled(c, kinds, l) ==
  {f \in Found(c, kinds) :
     \A g \in Found(c, kinds) : ~Above(g, f) => start[g] + Settle < began[l]}
IsLast(k, S, c) ==
  IF S = {} THEN k = c ELSE k \in S /\ \A g \in S : ~Above(g, k)

Init ==
  /\ now = 0
  /\ tx = [f \in Fact |-> "none"]
  /\ start = [f \in Fact |-> 0]
  /\ mint = [f \in Fact |-> 0]
  /\ checked = {}
  /\ cursor = [t \in Topic |-> Nil]
  /\ ledger = [t \in Topic |-> {}]
  /\ tasks = [t \in Topic |-> [f \in Fact |-> 0]]
  /\ lock = [t \in Topic |-> NoOne]
  /\ draft = [t \in Topic |-> NoDraft]
  /\ phase = [l \in Listener |-> "idle"]
  /\ began = [l \in Listener |-> 0]
  /\ claimed = [l \in Listener |-> {}]
  /\ todo = [l \in Listener |-> {}]
  /\ seen = [l \in Listener |-> [cursor |-> Nil, applied |-> {}]]
  /\ fresh = [l \in Listener |-> {}]
  /\ spread = [l \in Listener |-> [f \in Fact |-> 0]]
  /\ missed = [l \in Listener |-> {}]
  /\ faults = 0

-----------------------------------------------------------------------------
(* Business transactions: each records one fact through events.emit.        *)

Open(f) ==
  /\ tx[f] = "none"
  /\ tx' = [tx EXCEPT ![f] = "open"]
  /\ start' = [start EXCEPT ![f] = now]
  /\ UNCHANGED <<now, mint, checked, delivery, local, memory, faults>>

Emit(f) ==
  /\ tx[f] = "open"
  /\ tx' = [tx EXCEPT ![f] = "emitted"]
  /\ mint' = [mint EXCEPT ![f] = now]
  /\ UNCHANGED <<now, start, checked, delivery, local, memory, faults>>

CommitFact(f) ==
  /\ tx[f] = "emitted"
  /\ tx' = [tx EXCEPT ![f] = "committed"]
  /\ UNCHANGED <<now, start, mint, checked, delivery, local, memory, faults>>

Abort(f) ==
  /\ tx[f] \in {"open", "emitted"}
  /\ tx' = [tx EXCEPT ![f] = "aborted"]
  /\ start' = [start EXCEPT ![f] = 0]
  /\ mint' = [mint EXCEPT ![f] = 0]
  /\ UNCHANGED <<now, checked, delivery, local, memory, faults>>

(* Time passes, but no transaction outlives MaxTx: a request or a task ends. *)
Clock ==
  /\ now < MaxTime
  /\ \A f \in Fact : tx[f] \in {"open", "emitted"} => now < start[f] + MaxTx
  /\ now' = now + 1
  /\ UNCHANGED <<business, checked, delivery, local, memory, faults>>

-----------------------------------------------------------------------------
(* EventListener.tick, one step per await that another process can separate *)

(* claim_unchecked locks the first rows no other tick has locked, at most   *)
(* Batch of them; the tick logs the unroutable ones and, at its commit, has *)
(* marked them all checked.                                                 *)
Claimable(l) ==
  Visible \ (checked \cup UNION {claimed[m] : m \in Listener \ {l}})
BeginTick(l) ==
  /\ phase[l] = "idle"
  /\ \E S \in SUBSET Claimable(l) :
       /\ \A f \in S, g \in Claimable(l) \ S : Above(g, f)
       /\ Cardinality(S) <= Batch
       /\ S = Claimable(l) \/ Cardinality(S) = Batch
       /\ claimed' = [claimed EXCEPT ![l] = S]
  /\ phase' = [phase EXCEPT ![l] = "dispatch"]
  /\ began' = [began EXCEPT ![l] = now]
  /\ todo' = [todo EXCEPT ![l] = Carries[l]]
  /\ UNCHANGED <<now, business, checked, delivery, memory, faults>>

(* dispatch_consumer: of what the scan found, the pairs new to the ledger. *)
Undispatched(t) == Found(cursor[t], Wants[t]) \ ledger[t]

(* One topic of _dispatch_backlog: lock the cursor, scan, enqueue what the  *)
(* ledger did not hold, advance the cursor to the settled prefix.           *)
Dispatch(l, t) ==
  /\ phase[l] = "dispatch"
  /\ t \in todo[l]
  /\ lock[t] = NoOne
  /\ \E k \in Key :
       /\ IsLast(k, Settled(cursor[t], Wants[t], l), cursor[t])
       /\ draft' = [draft EXCEPT ![t] = [cursor |-> k, facts |-> Undispatched(t)]]
  /\ lock' = [lock EXCEPT ![t] = l]
  /\ todo' = [todo EXCEPT ![l] = @ \ {t}]
  /\ UNCHANGED <<now, business, checked, cursor, ledger, tasks, phase, began,
                 claimed, memory, faults>>

(* SKIP LOCKED: another instance holds this topic's cursor this tick. *)
SkipTopic(l, t) ==
  /\ phase[l] = "dispatch"
  /\ t \in todo[l]
  /\ lock[t] # NoOne
  /\ todo' = [todo EXCEPT ![l] = @ \ {t}]
  /\ UNCHANGED <<now, business, checked, delivery, phase, began, claimed,
                 memory, faults>>

FoundToSpread(l) == Found(seen[l].cursor, SpreadFact)
FreshSettled(l) ==                \* mutant: run the settled ones, mark them all
  Settled(seen[l].cursor, SpreadFact, l) \ seen[l].applied
Fresh(l) == FoundToSpread(l) \ seen[l].applied

(* _read_spread moves the process's memory at once, before the commit. *)
ReadSpread(l) ==
  /\ phase[l] = "dispatch"
  /\ todo[l] = {}
  /\ \E k \in Key :
       /\ IsLast(k, Settled(seen[l].cursor, SpreadFact, l), seen[l].cursor)
       /\ seen' = [seen EXCEPT ![l] =
            [cursor |-> k, applied |-> {f \in FoundToSpread(l) : Above(f, k)}]]
  /\ fresh' = [fresh EXCEPT ![l] = Fresh(l)]
  /\ phase' = [phase EXCEPT ![l] = "commit"]
  /\ UNCHANGED <<now, business, checked, delivery, began, claimed, todo,
                 spread, missed, faults>>

(* The end of the tick's transaction, committed or not: its locks are gone. *)
Release(l) ==
  /\ lock' = [t \in Topic |-> IF lock[t] = l THEN NoOne ELSE lock[t]]
  /\ draft' = [t \in Topic |-> IF lock[t] = l THEN NoDraft ELSE draft[t]]
  /\ claimed' = [claimed EXCEPT ![l] = {}]
  /\ began' = [began EXCEPT ![l] = 0]

CommitTick(l) ==
  /\ phase[l] = "commit"
  /\ phase' = [phase EXCEPT ![l] = "apply"]
  /\ checked' = checked \cup claimed[l]
  /\ cursor' = [t \in Topic |-> IF lock[t] = l THEN draft[t].cursor ELSE cursor[t]]
  /\ ledger' = [t \in Topic |->
       IF lock[t] = l THEN ledger[t] \cup draft[t].facts ELSE ledger[t]]
  /\ tasks' = [t \in Topic |-> [f \in Fact |->
       IF lock[t] = l /\ f \in draft[t].facts THEN tasks[t][f] + 1 ELSE tasks[t][f]]]
  /\ Release(l)
  /\ UNCHANGED <<now, business, todo, memory, faults>>

(* _apply_spread, in key order; a handler that raises is logged and the     *)
(* fact counts as applied.                                                  *)
ApplySpread(l) ==
  /\ phase[l] = "apply"
  /\ \E f \in fresh[l] :
       /\ \A g \in fresh[l] \ {f} : Above(g, f)
       /\ fresh' = [fresh EXCEPT ![l] = @ \ {f}]
       /\ spread' = [spread EXCEPT ![l][f] = @ + 1]
  /\ UNCHANGED <<now, business, checked, delivery, local, seen, missed, faults>>

(* guarded_tick loops or waits for a notification or the poll interval:     *)
(* either way the next tick may begin.                                      *)
EndTick(l) ==
  /\ phase[l] = "apply"
  /\ fresh[l] = {}
  /\ phase' = [phase EXCEPT ![l] = "idle"]
  /\ UNCHANGED <<now, business, checked, delivery, began, claimed, todo,
                 memory, faults>>

RollBack(l) ==
  /\ Release(l)
  /\ todo' = [todo EXCEPT ![l] = {}]
  /\ phase' = [phase EXCEPT ![l] = "idle"]
  /\ faults' = faults + 1
  /\ UNCHANGED <<now, business, checked, cursor, ledger, tasks>>

(* An exception inside the tick's transaction, its commit included: the     *)
(* database forgets the tick, the process keeps the memory it has moved.    *)
TickFails(l) ==
  /\ "rollback" \in Faults /\ faults < MaxFaults
  /\ phase[l] \in {"dispatch", "commit"}
  /\ RollBack(l)
  /\ missed' = [missed EXCEPT ![l] = @ \cup fresh[l]]
  /\ fresh' = [fresh EXCEPT ![l] = {}]
  /\ UNCHANGED <<seen, spread>>

(* The process dies at any point and starts again with an empty memory. *)
Crash(l) ==
  /\ "crash" \in Faults /\ faults < MaxFaults
  /\ RollBack(l)
  /\ seen' = [seen EXCEPT ![l] = [cursor |-> Nil, applied |-> {}]]
  /\ fresh' = [fresh EXCEPT ![l] = {}]
  /\ spread' = [spread EXCEPT ![l] = [f \in Fact |-> 0]]
  /\ missed' = [missed EXCEPT ![l] = {}]

Tick(l) ==
  \/ BeginTick(l)
  \/ \E t \in Topic : Dispatch(l, t) \/ SkipTopic(l, t)
  \/ ReadSpread(l) \/ CommitTick(l) \/ ApplySpread(l) \/ EndTick(l)

Next ==
  \/ Clock
  \/ \E f \in Fact : Open(f) \/ Emit(f) \/ CommitFact(f) \/ Abort(f)
  \/ \E l \in Listener : Tick(l) \/ TickFails(l) \/ Crash(l)

Spec == Init /\ [][Next]_vars

(* Every listener keeps ticking: its loop polls even when no notification   *)
(* comes.  Business transactions and faults owe nothing.                    *)
FairSpec == Spec /\ \A l \in Listener : WF_vars(Tick(l))

-----------------------------------------------------------------------------
TypeOK ==
  /\ now \in Nat
  /\ tx \in [Fact -> {"none", "open", "emitted", "committed", "aborted"}]
  /\ start \in [Fact -> Nat]
  /\ mint \in [Fact -> Nat]
  /\ checked \subseteq Fact
  /\ cursor \in [Topic -> Key]
  /\ ledger \in [Topic -> SUBSET Fact]
  /\ tasks \in [Topic -> [Fact -> Nat]]
  /\ lock \in [Topic -> Listener \cup {NoOne}]
  /\ draft \in [Topic -> [cursor : Key, facts : SUBSET Fact]]
  /\ phase \in [Listener -> {"idle", "dispatch", "commit", "apply"}]
  /\ began \in [Listener -> Nat]
  /\ claimed \in [Listener -> SUBSET Fact]
  /\ todo \in [Listener -> SUBSET Topic]
  /\ seen \in [Listener -> [cursor : Key, applied : SUBSET Fact]]
  /\ fresh \in [Listener -> SUBSET Fact]
  /\ spread \in [Listener -> [Fact -> Nat]]
  /\ missed \in [Listener -> SUBSET Fact]
  /\ faults \in Nat

(* A cursor never outruns the commits: once the cursor of a topic is past a *)
(* committed fact the topic wants, the ledger holds that fact.  Nothing     *)
(* below a cursor is read again, so a fact this misses is lost for good.    *)
CursorNeverSkips ==
  \A t \in Topic : \A f \in Wants[t] :
    tx[f] = "committed" /\ ~Above(f, cursor[t]) => f \in ledger[t]

(* However many instances, ticks, rollbacks and crashes: one task per fact  *)
(* and topic, and it exists exactly when the ledger says so.                *)
OneTaskPerFact ==
  \A t \in Topic, f \in Fact : tasks[t][f] = IF f \in ledger[t] THEN 1 ELSE 0

(* One process runs a fact's spread handlers at most once in its life, and  *)
(* forgets only by a failed tick: a fact it counts as applied, below its    *)
(* spread cursor or in _spread_applied, and so is never offered again, it   *)
(* has applied or is about to, unless a tick had read it and then failed    *)
(* after _read_spread moved both.                                           *)
SpreadOnce ==
  \A l \in Listener, f \in Fact :
    /\ spread[l][f] <= 1
    /\ (/\ f \in SpreadFact /\ tx[f] = "committed"
        /\ ~Above(f, seen[l].cursor) \/ f \in seen[l].applied)
         => spread[l][f] = 1 \/ f \in fresh[l] \/ f \in missed[l]

(* Every committed fact is dispatched to every topic that wants it, and     *)
(* checked for routability, an unroutable one too: it never blocks the ones *)
(* behind it.                                                               *)
EveryFactHandled ==
  \A f \in Fact : tx[f] = "committed" ~>
    f \in checked /\ \A t \in Topic : f \in Wants[t] => f \in ledger[t]

(* The journal implements the abstract promise. *)
Delivery == INSTANCE FactDelivery WITH recorded <- Visible
ImplementsDelivery == Delivery!Spec
=============================================================================
