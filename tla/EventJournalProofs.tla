------------------------- MODULE EventJournalProofs -------------------------
(* Proofs about EventJournal, for any number of facts, topics, processes    *)
(* and faults and any wiring.                                               *)
EXTENDS EventJournal, TLAPS

(* The actions of one listener, for case splits. *)
ListenerStep(l) ==
  \/ BeginTick(l) \/ ReadSpread(l) \/ CommitTick(l) \/ ApplySpread(l)
  \/ EndTick(l) \/ TickFails(l) \/ Crash(l)
  \/ \E t \in Topic : Dispatch(l, t) \/ SkipTopic(l, t)

-----------------------------------------------------------------------------
(* Type correctness: every variable keeps its shape through every handler.  *)
LEMMA TypeInit == Init => TypeOK
  BY NoOneAssumption DEF Init, TypeOK, Key, NoDraft, Nil

LEMMA TypeNext == TypeOK /\ [Next]_vars => TypeOK'
<1> SUFFICES ASSUME TypeOK, [Next]_vars PROVE TypeOK'
  OBVIOUS
<1> USE WiringAssumption, BoundAssumption DEF TypeOK, Key, Nil
<1>1. CASE UNCHANGED vars
  BY <1>1 DEF vars, business, delivery, local, memory
<1>2. CASE Clock
  BY <1>2 DEF Clock, business, delivery, local, memory
<1>3. ASSUME NEW f \in Fact, Open(f) \/ Emit(f) \/ CommitFact(f) \/ Abort(f)
      PROVE  TypeOK'
  <2> USE DEF delivery, local, memory
  <2>1. CASE Open(f)
    BY <2>1 DEF Open
  <2>2. CASE Emit(f)
    BY <2>2 DEF Emit
  <2>3. CASE CommitFact(f)
    BY <2>3 DEF CommitFact
  <2>4. CASE Abort(f)
    BY <2>4 DEF Abort
  <2>5. QED
    BY <1>3, <2>1, <2>2, <2>3, <2>4
<1>4. ASSUME NEW l \in Listener, ListenerStep(l) PROVE TypeOK'
  <2>1. CASE BeginTick(l)
    BY <2>1 DEF BeginTick, Claimable, Visible, business, delivery, memory
  <2>2. CASE ReadSpread(l)
    BY <2>2 DEF ReadSpread, FoundToSpread, Fresh, Found, Visible, business, delivery
  <2>3. CASE CommitTick(l)
    BY <2>3 DEF CommitTick, Release, NoDraft, business, memory
  <2>4. CASE ApplySpread(l)
    BY <2>4 DEF ApplySpread, business, delivery, local
  <2>5. CASE EndTick(l)
    BY <2>5 DEF EndTick, business, delivery, memory
  <2>6. CASE TickFails(l)
    BY <2>6 DEF TickFails, RollBack, Release, NoDraft, business
  <2>7. CASE Crash(l)
    BY <2>7 DEF Crash, RollBack, Release, NoDraft, business
  <2>8. ASSUME NEW t \in Topic, Dispatch(l, t) \/ SkipTopic(l, t) PROVE TypeOK'
    <3>1. CASE Dispatch(l, t)
      BY <3>1 DEF Dispatch, Undispatched, Found, Visible, business, delivery, memory
    <3>2. CASE SkipTopic(l, t)
      BY <3>2 DEF SkipTopic, business, delivery, memory
    <3>3. QED
      BY <2>8, <3>1, <3>2
  <2>9. QED
    BY <1>4, <2>1, <2>2, <2>3, <2>4, <2>5, <2>6, <2>7, <2>8 DEF ListenerStep
<1>5. QED
  BY <1>1, <1>2, <1>3, <1>4 DEF Next, Tick, ListenerStep

THEOREM TypeCorrect == Spec => []TypeOK
  BY TypeInit, TypeNext, PTL DEF Spec
-----------------------------------------------------------------------------
(* The ledger: rows, tasks and what an open tick is about to add to them.   *)
LedgerInv ==
  /\ OneTaskPerFact
  /\ \A t \in Topic :
       /\ draft[t].facts \subseteq Wants[t] \cap Visible
       /\ draft[t].facts \cap ledger[t] = {}

LEMMA LedgerInit == Init => LedgerInv
  BY DEF Init, LedgerInv, OneTaskPerFact, NoDraft

(* A transaction that has committed stays committed: no step takes a fact   *)
(* out of the journal or redates it.                                        *)
LEMMA CommittedStays ==
  ASSUME TypeOK, [Next]_vars, NEW f \in Visible
  PROVE  f \in Visible' /\ mint'[f] = mint[f] /\ start'[f] = start[f]
<1> USE DEF TypeOK, Visible
<1>1. CASE UNCHANGED <<tx, mint, start>>
  BY <1>1
<1>2. ASSUME NEW g \in Fact, Open(g) \/ Emit(g) \/ CommitFact(g) \/ Abort(g)
      PROVE  f \in Visible' /\ mint'[f] = mint[f] /\ start'[f] = start[f]
  BY <1>2 DEF Open, Emit, CommitFact, Abort
<1>3. ASSUME NEW l \in Listener, ListenerStep(l)
      PROVE  UNCHANGED <<tx, mint, start>>
  BY <1>3 DEF ListenerStep, BeginTick, ReadSpread, CommitTick, ApplySpread, EndTick,
     TickFails, Crash, RollBack, Dispatch, SkipTopic, business
<1>4. QED
  BY <1>1, <1>2, <1>3 DEF Next, Tick, ListenerStep, Clock, vars, business

(* What one step may do to the durable tables. *)
LEMMA DeliveryFrame ==
  ASSUME [Next]_vars
  PROVE  \/ UNCHANGED delivery
         \/ \E l \in Listener, t \in Topic : Dispatch(l, t)
         \/ \E l \in Listener : CommitTick(l)
         \/ \E l \in Listener : TickFails(l) \/ Crash(l)
  BY DEF Next, Tick, vars, Clock, Open, Emit, CommitFact, Abort, BeginTick,
     SkipTopic, ReadSpread, ApplySpread, EndTick

LEMMA LedgerNext == TypeOK /\ LedgerInv /\ [Next]_vars => LedgerInv'
<1> SUFFICES ASSUME TypeOK, LedgerInv, [Next]_vars PROVE LedgerInv'
  OBVIOUS
<1>0. Visible \subseteq Visible'
  BY CommittedStays
<1>1. CASE UNCHANGED delivery
  BY <1>0, <1>1 DEF LedgerInv, OneTaskPerFact, delivery
<1>2. ASSUME NEW l \in Listener, NEW t \in Topic, Dispatch(l, t)
      PROVE  LedgerInv'
  BY <1>0, <1>2 DEF Dispatch, LedgerInv, OneTaskPerFact, TypeOK, Undispatched, Found
<1>3. ASSUME NEW l \in Listener, CommitTick(l) PROVE LedgerInv'
  <2>1. OneTaskPerFact'
    BY <1>3 DEF CommitTick, LedgerInv, OneTaskPerFact, TypeOK
  <2>2. QED
    BY <1>0, <1>3, <2>1 DEF CommitTick, Release, NoDraft, LedgerInv, TypeOK
<1>4. ASSUME NEW l \in Listener, TickFails(l) \/ Crash(l) PROVE LedgerInv'
  <2>1. RollBack(l)
    BY <1>4 DEF TickFails, Crash
  <2>2. UNCHANGED <<ledger, tasks>> /\ \A t \in Topic : draft'[t] \in {draft[t], NoDraft}
    BY <2>1 DEF RollBack, Release
  <2>3. QED
    BY <1>0, <2>2 DEF LedgerInv, OneTaskPerFact, NoDraft
<1>5. QED
  BY <1>1, <1>2, <1>3, <1>4, DeliveryFrame

(* Whatever instances, wirings and faults there are, a consumer never gets  *)
(* two tasks for one fact (dispatch_consumer under the cursor's row lock).  *)
THEOREM ExactlyOneTask == Spec => []OneTaskPerFact
<1>1. TypeOK /\ LedgerInv => OneTaskPerFact
  BY DEF LedgerInv
<1>2. QED
  BY <1>1, TypeCorrect, LedgerInit, LedgerNext, PTL DEF Spec

-----------------------------------------------------------------------------
(* The journal implements FactDelivery: a business commit records a fact,   *)
(* a listener's commit delivers, and every other step stutters.             *)
THEOREM JournalImplementsDelivery == Spec => ImplementsDelivery
<1>1. Init => Delivery!Init
  BY DEF Init, Delivery!Init, Visible
<1>2. TypeOK /\ LedgerInv /\ LedgerInv' /\ [Next]_vars => [Delivery!Next]_(Delivery!vars)
  <2> SUFFICES ASSUME TypeOK, LedgerInv, LedgerInv', [Next]_vars
               PROVE  Delivery!Next \/ (Visible' = Visible /\ tasks' = tasks)
    BY DEF Delivery!vars
  <2>1. ASSUME NEW f \in Fact, CommitFact(f) PROVE Delivery!Record(f)
    BY <2>1 DEF CommitFact, Delivery!Record, Visible, TypeOK, delivery
  <2>2. ASSUME NEW f \in Fact, Open(f) \/ Emit(f) \/ Abort(f)
        PROVE  Visible' = Visible /\ tasks' = tasks
    BY <2>2 DEF Open, Emit, Abort, Visible, TypeOK, delivery
  <2>3. ASSUME NEW l \in Listener, CommitTick(l) PROVE Delivery!Deliver
    <3>1. Visible' = Visible
      BY <2>3 DEF CommitTick, business, Visible
    <3>2. tasks' \in [Topic -> [Fact -> {0, 1}]]
      BY <2>3 DEF CommitTick, LedgerInv, OneTaskPerFact, TypeOK
    <3>3. ASSUME NEW t \in Topic, NEW f \in Fact, tasks'[t][f] # tasks[t][f]
          PROVE  f \in Visible \cap Wants[t] /\ tasks[t][f] = 0
      BY <2>3, <3>3 DEF CommitTick, LedgerInv, OneTaskPerFact, TypeOK
    <3>4. QED
      BY <3>1, <3>2, <3>3 DEF Delivery!Deliver
  <2>4. ASSUME NEW l \in Listener, ListenerStep(l), ~CommitTick(l)
        PROVE  Visible' = Visible /\ tasks' = tasks
    BY <2>4 DEF ListenerStep, BeginTick, ReadSpread, ApplySpread, EndTick,
       TickFails, Crash, RollBack, Dispatch, SkipTopic, business, delivery, Visible
  <2>5. CASE Clock \/ UNCHANGED vars
    BY <2>5 DEF Clock, vars, business, delivery, Visible
  <2>6. QED
    BY <2>1, <2>2, <2>3, <2>4, <2>5 DEF Next, Tick, ListenerStep, Delivery!Next
<1>3. QED
  BY <1>1, <1>2, TypeCorrect, LedgerInit, LedgerNext, PTL
  DEF Spec, ImplementsDelivery, Delivery!Spec
-----------------------------------------------------------------------------
(* The settle window.  A fact's key is minted at most MaxTx after its       *)
(* created_at, and an unseen fact's key at most MaxTx ago; a cursor stands  *)
(* at a fact created more than Settle ago.  So a cursor can only be below   *)
(* every unseen key when the window is twice the longest transaction.       *)
Dated ==
  \A f \in Fact :
    /\ tx[f] \in {"open", "emitted"} => start[f] <= now /\ now <= start[f] + MaxTx
    /\ tx[f] = "emitted" => start[f] <= mint[f] /\ mint[f] <= now
    /\ tx[f] = "committed" => start[f] <= mint[f] /\ mint[f] <= start[f] + MaxTx

IsSettled(c) == c # Nil => c \in Visible /\ start[c] + Settle < now

WindowInv ==
  /\ Dated
  /\ \A l \in Listener : began[l] <= now
  /\ \A t \in Topic :
       /\ IsSettled(cursor[t])
       /\ lock[t] # NoOne => IsSettled(draft[t].cursor)
  /\ CursorNeverSkips
  /\ \A t \in Topic : \A f \in Wants[t] :
       lock[t] # NoOne /\ tx[f] = "committed" /\ ~Above(f, draft[t].cursor)
         => f \in ledger[t] \cup draft[t].facts

LEMMA WindowInit == Init => WindowInv
  BY WiringAssumption, TimeAssumption
  DEF Init, WindowInv, Dated, IsSettled, CursorNeverSkips, Above, Nil

(* A fact about to commit lies above every cursor that has settled. *)
LEMMA CommitLandsAbove ==
  ASSUME TypeOK, Dated, 2 * MaxTx <= Settle,
         NEW f \in Fact, tx[f] = "emitted", NEW c \in Key, IsSettled(c)
  PROVE  Above(f, c)
<1>1. CASE c = Nil
  BY <1>1 DEF Above
<1>2. CASE c # Nil
  <2>1. c \in Fact /\ tx[c] = "committed" /\ start[c] + Settle < now
    BY <1>2 DEF IsSettled, Visible
  <2>2. mint[c] <= start[c] + MaxTx /\ start[f] <= mint[f] /\ now <= start[f] + MaxTx
    BY <2>1 DEF Dated
  <2>3. {start[c], mint[c], start[f], mint[f], now, MaxTx, Settle} \subseteq Nat
    BY <2>1, TimeAssumption DEF TypeOK
  <2>4. mint[f] > mint[c]
    BY <2>1, <2>2, <2>3
  <2>5. QED
    BY <2>4 DEF Above
<1>3. QED
  BY <1>1, <1>2

LEMMA DatedNext == TypeOK /\ Dated /\ [Next]_vars => Dated'
<1> SUFFICES ASSUME TypeOK, Dated, [Next]_vars PROVE Dated'
  OBVIOUS
<1> USE TimeAssumption DEF Dated, TypeOK
<1>1. CASE UNCHANGED <<now, tx, start, mint>>
  BY <1>1
<1>2. CASE Clock
  BY <1>2 DEF Clock, business
<1>3. ASSUME NEW f \in Fact, Open(f) PROVE Dated'
  BY <1>3 DEF Open
<1>4. ASSUME NEW f \in Fact, Emit(f) PROVE Dated'
  BY <1>4 DEF Emit
<1>5. ASSUME NEW f \in Fact, CommitFact(f) PROVE Dated'
  BY <1>5 DEF CommitFact
<1>6. ASSUME NEW f \in Fact, Abort(f) PROVE Dated'
  BY <1>6 DEF Abort
<1>7. ASSUME NEW l \in Listener, ListenerStep(l)
      PROVE  UNCHANGED <<now, tx, start, mint>>
  BY <1>7 DEF ListenerStep, BeginTick, ReadSpread, CommitTick, ApplySpread, EndTick,
     TickFails, Crash, RollBack, Dispatch, SkipTopic, business
<1>8. QED
  BY <1>1, <1>2, <1>3, <1>4, <1>5, <1>6, <1>7 DEF Next, Tick, ListenerStep, vars, business

LEMMA BeganNext ==
  ASSUME TypeOK, \A l \in Listener : began[l] <= now, [Next]_vars
  PROVE  now <= now' /\ \A l \in Listener : began'[l] <= now'
<1> USE DEF TypeOK
<1>1. CASE UNCHANGED <<now, began>>
  BY <1>1
<1>2. CASE Clock
  BY <1>2 DEF Clock, local
<1>3. ASSUME NEW l \in Listener, BeginTick(l) \/ CommitTick(l) \/ RollBack(l)
      PROVE  now <= now' /\ \A m \in Listener : began'[m] <= now'
  <2>1. now' = now /\ \A m \in Listener : began'[m] \in {began[m], now, 0}
    BY <1>3 DEF BeginTick, CommitTick, RollBack, Release
  <2>2. now \in Nat /\ 0 <= now /\ now <= now
    OBVIOUS
  <2>3. QED
    BY <2>1, <2>2
<1>4. ASSUME NEW f \in Fact, Open(f) \/ Emit(f) \/ CommitFact(f) \/ Abort(f)
      PROVE  UNCHANGED <<now, began>>
  BY <1>4 DEF Open, Emit, CommitFact, Abort, local
<1>5. ASSUME NEW l \in Listener, ListenerStep(l),
             ~(BeginTick(l) \/ CommitTick(l) \/ RollBack(l))
      PROVE  UNCHANGED <<now, began>>
  BY <1>5 DEF ListenerStep, ReadSpread, ApplySpread, EndTick, TickFails, Crash,
     Dispatch, SkipTopic, local
<1>6. QED
  BY <1>1, <1>2, <1>3, <1>4, <1>5 DEF Next, Tick, ListenerStep, vars, local

(* A settled cursor stays settled: facts are not redated, time goes on. *)
LEMMA SettledStays ==
  ASSUME TypeOK, [Next]_vars, now <= now', now' \in Nat, NEW c \in Key, IsSettled(c)
  PROVE  IsSettled(c)'
<1>1. CASE c = Nil
  BY <1>1 DEF IsSettled
<1>2. CASE c # Nil
  <2>1. c \in Visible /\ c \in Fact /\ start[c] + Settle < now
    BY <1>2 DEF IsSettled, Visible
  <2>2. c \in Visible' /\ start'[c] = start[c]
    BY <2>1, CommittedStays
  <2>3. start[c] \in Nat /\ Settle \in Nat /\ now \in Nat
    BY <2>1, TimeAssumption DEF TypeOK
  <2>4. QED
    BY <2>1, <2>2, <2>3 DEF IsSettled
<1>3. QED
  BY <1>1, <1>2

(* One step adds to what lies at or below a settled cursor nothing that was *)
(* not there: the facts that commit land above it.                          *)
LEMMA NothingSurfacesBelow ==
  ASSUME TypeOK, Dated, 2 * MaxTx <= Settle, [Next]_vars,
         NEW c \in Key, IsSettled(c), NEW f \in Fact,
         tx'[f] = "committed", ~Above(f, c)'
  PROVE  tx[f] = "committed" /\ ~Above(f, c)
<1>1. c = Nil \/ (c \in Fact /\ mint'[c] = mint[c])
  BY CommittedStays DEF IsSettled, Key, Visible
<1>2. CASE tx[f] = "committed"
  <2>1. mint'[f] = mint[f]
    BY <1>2, CommittedStays DEF Visible
  <2>2. QED
    BY <1>1, <1>2, <2>1 DEF Above
<1>3. CASE tx[f] # "committed"
  <2>1. CommitFact(f)
    BY <1>3 DEF Next, Tick, vars, business, Clock, Open, Emit, CommitFact, Abort,
       BeginTick, Dispatch, SkipTopic, ReadSpread, CommitTick, ApplySpread,
       EndTick, TickFails, Crash, RollBack, TypeOK
  <2>2. Above(f, c) /\ mint' = mint
    BY <2>1, CommitLandsAbove DEF CommitFact
  <2>3. QED
    BY <1>1, <2>2 DEF Above
<1>4. QED
  BY <1>2, <1>3

(* What a tick finds when it scans from a settled cursor, of a topic or its *)
(* own.                                                                      *)
LEMMA ScanIsSettled ==
  ASSUME TypeOK, \A l \in Listener : began[l] <= now,
         NEW l \in Listener, NEW c, NEW kinds, NEW k \in Key, IsSettled(c),
         IsLast(k, Settled(c, kinds, l), c)
  PROVE  IsSettled(k)
<1>1. CASE k = c
  BY <1>1
<1>2. CASE k # c
  <2>1. k \in Settled(c, kinds, l)
    BY <1>2 DEF IsLast
  <2>2. k \in Visible /\ k \in Fact /\ k \in Found(c, kinds)
    BY <2>1 DEF Settled, Found, Visible
  <2>3. ~Above(k, k)
    BY <2>2, FactAssumption DEF Above, TypeOK, Nil
  <2>4. start[k] + Settle < began[l]
    BY <2>1, <2>2, <2>3 DEF Settled
  <2>5. began[l] <= now /\ {start[k], Settle, began[l], now} \subseteq Nat
    BY <2>2, TimeAssumption DEF TypeOK
  <2>6. QED
    BY <2>2, <2>4, <2>5 DEF IsSettled
<1>3. QED
  BY <1>1, <1>2

LEMMA WindowNext ==
  ASSUME 2 * MaxTx <= Settle
  PROVE  TypeOK /\ WindowInv /\ [Next]_vars => WindowInv'
<1> SUFFICES ASSUME TypeOK, WindowInv, [Next]_vars PROVE WindowInv'
  OBVIOUS
<1>1. TypeOK'
  BY TypeNext
<1>2. Dated /\ Dated'
  BY DatedNext DEF WindowInv
<1>3. now <= now' /\ \A l \in Listener : began'[l] <= now'
  BY BeganNext DEF WindowInv
<1> DEFINE
  SettledNow(c) == c # Nil => c \in Visible' /\ start'[c] + Settle < now'
  Reaches(f, c) ==
    tx'[f] = "committed" /\ ~(c = Nil \/ mint'[f] > mint'[c] \/ (mint'[f] = mint'[c] /\ f > c))
  Covers(t, c, S) == \A f \in Wants[t] : tx[f] = "committed" /\ ~Above(f, c) => f \in S
  CoversNow(t, c, S) == \A f \in Wants[t] : Reaches(f, c) => f \in S
  Good(t, c, S) == IsSettled(c) /\ Covers(t, c, S)
  GoodNow(t, c, S) == SettledNow(c) /\ CoversNow(t, c, S)
<1>4. ASSUME NEW t \in Topic, NEW c \in Key, NEW S, Good(t, c, S) PROVE GoodNow(t, c, S)
  <2>1. IsSettled(c)'
    BY <1>1, <1>3, <1>4, SettledStays DEF TypeOK
  <2>2. SettledNow(c)
    BY <2>1 DEF IsSettled
  <2>3. ASSUME NEW f \in Wants[t], Reaches(f, c) PROVE f \in S
    <3>1. f \in Fact /\ tx'[f] = "committed" /\ ~Above(f, c)'
      BY <2>3, WiringAssumption DEF Above
    <3>2. tx[f] = "committed" /\ ~Above(f, c)
      BY <1>2, <1>4, <3>1, NothingSurfacesBelow
    <3>3. QED
      BY <1>4, <3>2
  <2>4. QED
    BY <2>2, <2>3
<1>5. \A t \in Topic :
        /\ cursor[t] \in Key /\ Good(t, cursor[t], ledger[t])
        /\ draft[t].cursor \in Key
        /\ lock[t] # NoOne => Good(t, draft[t].cursor, ledger[t] \cup draft[t].facts)
  BY DEF WindowInv, CursorNeverSkips, TypeOK
<1>6. ASSUME NEW t \in Topic
      PROVE  /\ GoodNow(t, cursor'[t], ledger'[t])
             /\ lock'[t] # NoOne =>
                  GoodNow(t, draft'[t].cursor, ledger'[t] \cup draft'[t].facts)
  <2> HIDE DEF Good, GoodNow
  <2>1. CASE UNCHANGED <<cursor[t], ledger[t], lock[t], draft[t]>>
    BY <1>4, <1>5, <2>1
  <2>2. ASSUME NEW l \in Listener, Dispatch(l, t)
        PROVE  /\ GoodNow(t, cursor'[t], ledger'[t])
               /\ GoodNow(t, draft'[t].cursor, ledger'[t] \cup draft'[t].facts)
    <3>1. PICK k \in Key :
            /\ IsLast(k, Settled(cursor[t], Wants[t], l), cursor[t])
            /\ draft'[t] = [cursor |-> k, facts |-> Undispatched(t)]
      BY <2>2 DEF Dispatch, TypeOK
    <3>2. cursor' = cursor /\ ledger' = ledger
      BY <2>2 DEF Dispatch
    <3>3. IsSettled(k)
      BY <3>1, ScanIsSettled DEF WindowInv
    <3>4. Covers(t, k, ledger[t] \cup Undispatched(t))
      BY <1>5, WiringAssumption DEF Undispatched, Found, Visible, Good
    <3>5. Good(t, k, ledger[t] \cup draft'[t].facts) /\ draft'[t].cursor = k
      BY <3>1, <3>3, <3>4 DEF Good
    <3>6. QED
      BY <1>4, <1>5, <3>2, <3>5
  <2>3. ASSUME NEW l \in Listener, CommitTick(l), lock[t] = l
        PROVE  GoodNow(t, cursor'[t], ledger'[t]) /\ lock'[t] = NoOne
    <3>1. /\ cursor'[t] = draft[t].cursor
          /\ ledger'[t] = ledger[t] \cup draft[t].facts
          /\ lock'[t] = NoOne
      BY <2>3 DEF CommitTick, Release
    <3>2. QED
      BY <1>4, <1>5, <2>3, <3>1, NoOneAssumption
  <2>4. ASSUME NEW l \in Listener, RollBack(l), lock[t] = l
        PROVE  GoodNow(t, cursor'[t], ledger'[t]) /\ lock'[t] = NoOne
    <3>1. cursor' = cursor /\ ledger' = ledger /\ lock'[t] = NoOne
      BY <2>4 DEF RollBack, Release
    <3>2. QED
      BY <1>4, <1>5, <3>1
  <2>5. ASSUME NEW l \in Listener, CommitTick(l) \/ RollBack(l), lock[t] # l
        PROVE  UNCHANGED <<cursor[t], ledger[t], lock[t], draft[t]>>
    BY <2>5 DEF CommitTick, RollBack, Release, TypeOK
  <2>6. ASSUME NEW l \in Listener, NEW u \in Topic, Dispatch(l, u), u # t
        PROVE  UNCHANGED <<cursor[t], ledger[t], lock[t], draft[t]>>
    BY <2>6 DEF Dispatch, TypeOK
  <2>7. QED
    BY <2>1, <2>2, <2>3, <2>4, <2>5, <2>6, DeliveryFrame
    DEF delivery, TickFails, Crash
<1>7. \A t \in Topic :
        /\ IsSettled(cursor[t])'
        /\ (lock[t] # NoOne => IsSettled(draft[t].cursor))'
  BY <1>6 DEF IsSettled
<1>8. \A t \in Topic : \A f \in Wants[t] :
        /\ (tx[f] = "committed" /\ ~Above(f, cursor[t]) => f \in ledger[t])'
        /\ (lock[t] # NoOne /\ tx[f] = "committed" /\ ~Above(f, draft[t].cursor)
              => f \in ledger[t] \cup draft[t].facts)'
  BY <1>6 DEF Above
<1>9. QED
  BY <1>2, <1>3, <1>7, <1>8 DEF WindowInv, CursorNeverSkips

(* The main result about the journal.  When no business transaction stays   *)
(* open longer than half the settle window, no cursor of any consumer ever  *)
(* passes a fact that was not dispatched: nothing recorded is lost, however *)
(* commits overtake each other.                                             *)
THEOREM NothingIsSkipped ==
  ASSUME 2 * MaxTx <= Settle
  PROVE  Spec => []CursorNeverSkips
<1>1. WindowInv => CursorNeverSkips
  BY DEF WindowInv
<1>2. TypeOK /\ WindowInv /\ [Next]_vars => WindowInv'
  BY WindowNext
<1>3. QED
  BY <1>1, <1>2, TypeCorrect, WindowInit, PTL DEF Spec

-----------------------------------------------------------------------------
(* The spread memory of a process.  A fact it has marked, below its cursor   *)
(* or remembered as applied, is never offered to it again.                   *)
Marked(l, f) == ~Above(f, seen[l].cursor) \/ f \in seen[l].applied

Taken(l, f) == spread[l][f] = 1 \/ f \in fresh[l]

MemoryInv ==
  \A l \in Listener :
    /\ seen[l].cursor # Nil => seen[l].cursor \in Visible
    /\ seen[l].applied \subseteq Visible
    /\ phase[l] \in {"idle", "dispatch"} => fresh[l] = {}
    /\ \A f \in Fact :
         /\ spread[l][f] <= 1
         /\ f \in fresh[l] => spread[l][f] = 0
         /\ Taken(l, f) => f \in Visible \cap SpreadFact /\ Marked(l, f)

LEMMA MemoryInit == Init => MemoryInv
  BY DEF Init, MemoryInv, Taken

(* Keys are ordered by the moment they were minted, then by their own bits.  *)
LEMMA AboveIsTransitive ==
  ASSUME TypeOK, NEW f \in Fact, NEW c \in Key, NEW k \in Fact, Above(k, c), ~Above(f, c)
  PROVE  ~Above(f, k)
<1>1. c \in Fact /\ c # Nil /\ k # Nil
  BY FactAssumption DEF Above, Key, Nil
<1>2. {f, c, k} \subseteq Nat /\ {mint[f], mint[c], mint[k]} \subseteq Nat
  BY <1>1, FactAssumption DEF TypeOK
<1>3. QED
  BY <1>1, <1>2 DEF Above

(* A mark on a visible fact outlives every step that leaves the memory alone.*)
LEMMA MarksStay ==
  ASSUME TypeOK, MemoryInv, [Next]_vars, NEW l \in Listener, seen'[l] = seen[l],
         NEW f \in Visible
  PROVE  f \in Visible' /\ (Marked(l, f)' <=> Marked(l, f))
<1>1. f \in Visible' /\ mint'[f] = mint[f]
  BY CommittedStays
<1>2. seen[l].cursor = Nil \/ mint'[seen[l].cursor] = mint[seen[l].cursor]
  BY CommittedStays DEF MemoryInv
<1>3. QED
  BY <1>1, <1>2 DEF Marked, Above

(* Reading the spread: what is fresh was not marked, and from now on every   *)
(* visible fact is.                                                          *)
LEMMA ReadMarks ==
  ASSUME TypeOK, TypeOK', MemoryInv, NEW l \in Listener, ReadSpread(l)
  PROVE  /\ \A f \in Fact : f \in fresh'[l] <=> f \in Visible \cap SpreadFact /\ ~Marked(l, f)
         /\ \A f \in Visible \cap SpreadFact : Marked(l, f)'
         /\ seen'[l].cursor # Nil => seen'[l].cursor \in Visible
         /\ seen'[l].applied \subseteq Visible
         /\ \E k \in Key :
              /\ IsLast(k, Settled(seen[l].cursor, SpreadFact, l), seen[l].cursor)
              /\ seen'[l].cursor = k
<1> DEFINE c == seen[l].cursor
<1>1. PICK k \in Key :
        /\ IsLast(k, Settled(c, SpreadFact, l), c)
        /\ seen'[l] = [cursor |-> k, applied |-> {f \in FoundToSpread(l) : Above(f, k)}]
  BY DEF ReadSpread, TypeOK
<1>2. fresh'[l] = Fresh(l) /\ UNCHANGED <<tx, mint>> /\ c \in Key /\ seen[l].applied \subseteq Fact
  BY DEF ReadSpread, TypeOK, business
<1>3. \A f \in Fact : f \in fresh'[l] <=> f \in Visible \cap SpreadFact /\ ~Marked(l, f)
  BY <1>2 DEF Fresh, FoundToSpread, Found, Marked, Visible
<1>4. k = c \/ (k \in Fact /\ k \in Visible /\ Above(k, c))
  BY <1>1 DEF IsLast, Settled, Found, Visible
<1>5. \A f \in Fact : ~Above(f, c) => ~Above(f, k)
  BY <1>2, <1>4, AboveIsTransitive
<1>6. \A f \in Visible \cap SpreadFact :
        Marked(l, f)' <=> ~Above(f, k) \/ f \in FoundToSpread(l)
  BY <1>1, <1>2 DEF Marked, Above, FoundToSpread, Found
<1>7. \A f \in Visible \cap SpreadFact : f \in FoundToSpread(l) <=> Above(f, c)
  BY DEF FoundToSpread, Found
<1>8. ASSUME NEW f \in Visible \cap SpreadFact PROVE Marked(l, f)'
  <2>1. CASE Above(f, c)
    BY <1>6, <1>7, <2>1
  <2>2. CASE ~Above(f, c)
    BY <1>5, <1>6, <2>2 DEF Visible
  <2>3. QED
    BY <2>1, <2>2
<1>9. (k # Nil => k \in Visible) /\ FoundToSpread(l) \subseteq Visible
  BY <1>4 DEF MemoryInv, FoundToSpread, Found
<1>10. QED
  BY <1>1, <1>3, <1>8, <1>9

(* What one listener's step does to the memory of a process.                 *)
LEMMA MemoryFrame ==
  ASSUME TypeOK, MemoryInv, [Next]_vars, NEW l \in Listener
  PROVE  \/ /\ UNCHANGED <<seen[l], fresh[l], spread[l], missed[l]>>
            /\ phase'[l] \in {"idle", "dispatch"} => fresh[l] = {}
         \/ ReadSpread(l)
         \/ ApplySpread(l)
         \/ /\ seen'[l] = seen[l] /\ spread'[l] = spread[l]
            /\ fresh'[l] = {} /\ missed'[l] = missed[l] \cup fresh[l]
         \/ /\ seen'[l] = [cursor |-> Nil, applied |-> {}]
            /\ spread'[l] = [f \in Fact |-> 0] /\ fresh'[l] = {}
<1> USE DEF TypeOK, MemoryInv
<1>1. CASE UNCHANGED <<memory, phase>>
  BY <1>1 DEF memory
<1>2. CASE Clock \/ UNCHANGED vars \/ \E f \in Fact : Open(f) \/ Emit(f) \/ CommitFact(f) \/ Abort(f)
  BY <1>1, <1>2 DEF Clock, Open, Emit, CommitFact, Abort, vars, local
<1>3. ASSUME NEW m \in Listener, \E t \in Topic : Dispatch(m, t) \/ SkipTopic(m, t)
      PROVE  UNCHANGED <<memory, phase>>
  BY <1>3 DEF Dispatch, SkipTopic
<1>4. ASSUME NEW m \in Listener, BeginTick(m) \/ CommitTick(m) \/ EndTick(m)
      PROVE  /\ UNCHANGED <<seen[l], fresh[l], spread[l], missed[l]>>
             /\ phase'[l] \in {"idle", "dispatch"} => fresh[l] = {}
  BY <1>4 DEF BeginTick, CommitTick, EndTick, memory
<1>5. ASSUME NEW m \in Listener, m # l,
             ReadSpread(m) \/ ApplySpread(m) \/ TickFails(m) \/ Crash(m)
      PROVE  /\ UNCHANGED <<seen[l], fresh[l], spread[l], missed[l]>>
             /\ phase'[l] \in {"idle", "dispatch"} => fresh[l] = {}
  BY <1>5 DEF ReadSpread, ApplySpread, TickFails, Crash, RollBack, local
<1>6. CASE TickFails(l) \/ Crash(l)
  BY <1>6 DEF TickFails, Crash, RollBack
<1>7. QED
  BY <1>1, <1>2, <1>3, <1>4, <1>5, <1>6 DEF Next, Tick

(* The process runs the first fresh fact: it is taken all the same.          *)
LEMMA ApplyTakes ==
  ASSUME TypeOK, MemoryInv, NEW l \in Listener, ApplySpread(l)
  PROVE  /\ UNCHANGED <<seen[l], missed[l], phase[l], tx, mint>>
         /\ phase[l] = "apply" /\ fresh'[l] \subseteq fresh[l]
         /\ \A f \in Fact : /\ Taken(l, f)' <=> Taken(l, f)
                            /\ spread'[l][f] <= 1
                            /\ f \in fresh'[l] => spread'[l][f] = 0
<1>1. PICK g \in fresh[l] : /\ fresh' = [fresh EXCEPT ![l] = @ \ {g}]
                            /\ spread' = [spread EXCEPT ![l][g] = @ + 1]
  BY DEF ApplySpread
<1>2. g \in Fact /\ spread[l][g] = 0
  BY DEF TypeOK, MemoryInv
<1>3. /\ spread'[l][g] = 1 /\ g \notin fresh'[l] /\ fresh'[l] = fresh[l] \ {g}
      /\ \A f \in Fact \ {g} : spread'[l][f] = spread[l][f]
  BY <1>1, <1>2 DEF TypeOK
<1>4. QED
  BY <1>2, <1>3 DEF ApplySpread, MemoryInv, Taken, local, business

LEMMA MemoryNext == TypeOK /\ MemoryInv /\ [Next]_vars => MemoryInv'
<1> SUFFICES ASSUME TypeOK, MemoryInv, [Next]_vars, NEW l \in Listener
             PROVE  /\ seen'[l].cursor # Nil => seen'[l].cursor \in Visible'
                    /\ seen'[l].applied \subseteq Visible'
                    /\ phase'[l] \in {"idle", "dispatch"} => fresh'[l] = {}
                    /\ \A f \in Fact :
                         /\ spread'[l][f] <= 1
                         /\ f \in fresh'[l] => spread'[l][f] = 0
                         /\ Taken(l, f)' => f \in Visible' \cap SpreadFact /\ Marked(l, f)'
  BY DEF MemoryInv
<1>0. TypeOK' /\ Visible \subseteq Visible'
  BY TypeNext, CommittedStays
<1>1. CASE /\ UNCHANGED <<seen[l], fresh[l], spread[l]>>
           /\ phase'[l] \in {"idle", "dispatch"} => fresh[l] = {}
  BY <1>0, <1>1, MarksStay DEF MemoryInv, Taken
<1>2. CASE ReadSpread(l)
  <2>1. UNCHANGED spread /\ phase'[l] = "commit" /\ Visible' = Visible
    BY <1>2 DEF ReadSpread, TypeOK, business, Visible
  <2>2. \A f \in Fact : f \in fresh'[l] <=> f \in Visible \cap SpreadFact /\ ~Marked(l, f)
    BY <1>0, <1>2, ReadMarks
  <2>3. \A f \in Visible \cap SpreadFact : Marked(l, f)'
    BY <1>0, <1>2, ReadMarks
  <2>4. /\ seen'[l].cursor # Nil => seen'[l].cursor \in Visible
        /\ seen'[l].applied \subseteq Visible
    BY <1>0, <1>2, ReadMarks
  <2>5. ASSUME NEW f \in Fact
        PROVE  /\ f \in fresh'[l] => spread'[l][f] = 0
               /\ Taken(l, f)' => f \in Visible' \cap SpreadFact /\ Marked(l, f)'
    <3>1. spread[l][f] = 1 => f \in Visible \cap SpreadFact /\ Marked(l, f)
      BY DEF MemoryInv, Taken
    <3>2. spread[l][f] \in Nat /\ spread[l][f] <= 1
      BY DEF MemoryInv, TypeOK
    <3>3. QED
      BY <2>1, <2>2, <2>3, <3>1, <3>2 DEF Taken
  <2>6. QED
    BY <2>1, <2>4, <2>5 DEF MemoryInv
<1>3. CASE ApplySpread(l)
  BY <1>0, <1>3, ApplyTakes, MarksStay DEF MemoryInv
<1>4. CASE seen'[l] = seen[l] /\ spread'[l] = spread[l] /\ fresh'[l] = {}
  BY <1>0, <1>4, MarksStay DEF MemoryInv, Taken
<1>5. CASE /\ seen'[l] = [cursor |-> Nil, applied |-> {}]
           /\ spread'[l] = [f \in Fact |-> 0] /\ fresh'[l] = {}
  BY <1>5 DEF Taken
<1>6. QED
  BY <1>1, <1>2, <1>3, <1>4, <1>5, MemoryFrame

(* Whatever the process has marked it has taken, or missed by a failed tick. *)
MarksAreTrue ==
  \A l \in Listener : \A f \in Visible \cap SpreadFact :
    Marked(l, f) => Taken(l, f) \/ f \in missed[l]

SpreadInv ==
  /\ Dated /\ \A l \in Listener : began[l] <= now /\ IsSettled(seen[l].cursor)
  /\ MarksAreTrue

LEMMA SpreadInit == Init => SpreadInv
  BY TimeAssumption DEF Init, SpreadInv, Dated, IsSettled, MarksAreTrue, Visible

LEMMA SpreadNext ==
  ASSUME 2 * MaxTx <= Settle
  PROVE  TypeOK /\ MemoryInv /\ SpreadInv /\ [Next]_vars => SpreadInv'
<1> SUFFICES ASSUME TypeOK, MemoryInv, SpreadInv, [Next]_vars PROVE SpreadInv'
  OBVIOUS
<1>1. TypeOK' /\ Dated' /\ now <= now' /\ \A l \in Listener : began'[l] <= now'
  BY TypeNext, DatedNext, BeganNext DEF SpreadInv
<1>2. now' \in Nat /\ \A l \in Listener : seen[l].cursor \in Key
  BY <1>1 DEF TypeOK
<1>3. \A c \in Key : IsSettled(c) => IsSettled(c)'
  BY <1>1, <1>2, SettledStays
<1>4. ASSUME NEW l \in Listener PROVE IsSettled(seen[l].cursor)'
  <2>1. CASE seen'[l] = seen[l]
    BY <1>2, <1>3, <2>1 DEF SpreadInv, IsSettled
  <2>2. CASE seen'[l] = [cursor |-> Nil, applied |-> {}]
    BY <2>2 DEF IsSettled
  <2>3. CASE ReadSpread(l)
    <3>1. PICK k \in Key : /\ IsLast(k, Settled(seen[l].cursor, SpreadFact, l), seen[l].cursor)
                           /\ seen'[l].cursor = k
      BY <1>1, <2>3, ReadMarks
    <3>2. IsSettled(k)
      BY <3>1, ScanIsSettled DEF SpreadInv
    <3>3. QED
      BY <1>3, <3>1, <3>2 DEF IsSettled
  <2>4. QED
    BY <2>1, <2>2, <2>3, MemoryFrame, ApplyTakes
<1>5. ASSUME NEW l \in Listener, NEW f \in Visible' \cap SpreadFact, Marked(l, f)'
      PROVE  Taken(l, f)' \/ f \in missed'[l]
  <2>1. f \in Fact
    BY DEF Visible
  <2>2. ASSUME seen'[l] = seen[l] PROVE Taken(l, f) \/ f \in missed[l]
    <3>1. CASE f \in seen[l].applied
      BY <3>1 DEF MemoryInv, Marked, SpreadInv, MarksAreTrue
    <3>2. CASE ~Above(f, seen[l].cursor)'
      <4>1. ~Above(f, seen[l].cursor)' <=> (~Above(f, seen[l].cursor))'
        OBVIOUS
      <4>2. f \in Fact /\ tx'[f] = "committed" /\ IsSettled(seen[l].cursor)
        BY <1>5 DEF Visible, SpreadInv
      <4>3. f \in Visible /\ Marked(l, f)
        BY <1>2, <2>2, <3>2, <4>2, NothingSurfacesBelow DEF Marked, Visible, SpreadInv, Above
      <4>4. QED
        BY <4>3 DEF SpreadInv, MarksAreTrue
    <3>3. QED
      BY <1>5, <2>2, <3>1, <3>2 DEF Marked
  <2>3. CASE UNCHANGED <<seen[l], fresh[l], spread[l], missed[l]>>
    BY <2>2, <2>3 DEF Taken
  <2>4. CASE ApplySpread(l)
    BY <2>1, <2>2, <2>4, ApplyTakes
  <2>5. CASE ReadSpread(l)
    <3>1. f \in Visible /\ UNCHANGED <<spread, missed>> /\ fresh[l] = {}
      BY <2>5 DEF ReadSpread, Visible, business, MemoryInv
    <3>2. f \in fresh'[l] <=> ~Marked(l, f)
      BY <1>1, <2>5, <3>1, ReadMarks DEF Visible
    <3>3. Marked(l, f) => Taken(l, f) \/ f \in missed[l]
      BY <3>1 DEF SpreadInv, MarksAreTrue
    <3>4. QED
      BY <3>1, <3>2, <3>3 DEF Taken
  <2>6. CASE /\ seen'[l] = seen[l] /\ spread'[l] = spread[l]
             /\ fresh'[l] = {} /\ missed'[l] = missed[l] \cup fresh[l]
    BY <2>2, <2>6 DEF Taken
  <2>7. CASE seen'[l] = [cursor |-> Nil, applied |-> {}]
    BY <1>5, <2>7 DEF Marked, Above
  <2>8. QED
    BY <2>3, <2>4, <2>5, <2>6, <2>7, MemoryFrame
<1>6. QED
  BY <1>1, <1>4, <1>5 DEF SpreadInv, MarksAreTrue

(* With the same window as above, rollbacks and crashes included: a process  *)
(* runs a fact's handlers at most once in its life, and a fact it will never *)
(* be offered again it has run, is about to run, or had read in a tick that  *)
(* failed.                                                                   *)
THEOREM SpreadIsNotRepeated ==
  ASSUME 2 * MaxTx <= Settle
  PROVE  Spec => []SpreadOnce
<1>1. MemoryInv /\ SpreadInv => SpreadOnce
  BY DEF MemoryInv, SpreadInv, MarksAreTrue, SpreadOnce, Marked, Taken, Visible
<1>2. TypeOK /\ MemoryInv /\ SpreadInv /\ [Next]_vars => SpreadInv'
  BY SpreadNext
<1>3. QED
  BY <1>1, <1>2, TypeCorrect, MemoryInit, MemoryNext, SpreadInit, PTL DEF Spec
=============================================================================
