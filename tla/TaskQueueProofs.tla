--------------------------- MODULE TaskQueueProofs ---------------------------
(* Proofs about TaskQueue, for any rows, workers, handlers, leases, backoffs *)
(* and crashes, and about TaskScreen, the page made while the queue runs.    *)
EXTENDS TaskScreen, FiniteSetTheorems, TLAPS

LEMMA AtMostBounds ==
  ASSUME NEW n \in Nat, NEW m \in Nat
  PROVE  AtMost(n, m) \in 0 .. m /\ (n <= m => AtMost(n, m) = n)
  BY DEF AtMost

(* The type invariant, with the row a worker processes being one it holds.  *)
Busy == {"running", "succeeded", "raised", "unhandled"}
WorkerInv ==
  \A w \in Worker :
    /\ phase[w] \in Busy => current[w] \in Row /\ claim[w][current[w]] > 0
    /\ \A r \in Row : claim[w][r] > 0 => r \in exists
QInv == TypeOK /\ WorkerInv

LEMMA QInit == Init => QInv
  BY NumberAssumption, WorkerAssumption
  DEF Init, QInv, TypeOK, WorkerInv, NoClaim, Unlocked, Expired, Busy, Off

LEMMA QNext == QInv /\ [Next]_vars => QInv'
<1> SUFFICES ASSUME QInv, [Next]_vars PROVE QInv'
  OBVIOUS
<1> USE RowAssumption, NumberAssumption DEF QInv, TypeOK, WorkerInv, Busy, Off
<1>0. Expired \in Nat /\ Unlocked \in Nat /\ Expired <= Unlocked /\ 0 <= Expired
  BY DEF Expired, Unlocked
<1>1. CASE UNCHANGED vars
  BY <1>1 DEF vars, table, ledger, worker
<1>2. CASE Clock
  <2>0. ASSUME NEW r \in Row PROVE (IF dueIn[r] = 0 THEN 0 ELSE dueIn[r] - 1) \in Nat
    OBVIOUS
  <2>1. dueIn' \in [Row -> Nat]
    BY <1>2, <2>0 DEF Clock
  <2>2. lockAge' \in [Row -> 0 .. Unlocked]
    BY <1>0, <1>2 DEF Clock, AtMost
  <2>3. claimAge' \in [Worker -> 0 .. Expired]
    BY <1>0, <1>2 DEF Clock, AtMost
  <2>4. QED
    BY <1>2, <2>1, <2>2, <2>3 DEF Clock, ledger
<1>3. CASE Purge
  BY <1>3 DEF Purge, Held, ledger, worker
<1>4. ASSUME NEW r \in Row, Enqueue(r) PROVE QInv'
  BY <1>4 DEF Enqueue, Insert, Unused, ledger, worker
<1>5. ASSUME NEW w \in Worker, Boot(w) PROVE QInv'
  BY <1>5 DEF Boot, Insert, Unused, ledger
<1>6. ASSUME NEW w \in Worker, Claim(w) PROVE QInv'
  <2>1. attempts' \in [Row -> 0 .. MaxAttempts]
    BY <1>6 DEF Claim, AtMost
  <2>2. lockAge' \in [Row -> 0 .. Unlocked] /\ claimAge' \in [Worker -> 0 .. Expired]
    BY <1>0, <1>6 DEF Claim
  <2>3. claim' \in [Worker -> [Row -> 0 .. MaxAttempts]]
    BY <1>6, <2>1 DEF Claim
  <2>4. WorkerInv'
    BY <1>6, <2>3 DEF Claim, Claimable, OpenRow
  <2>5. QED
    BY <1>6, <2>1, <2>2, <2>3, <2>4 DEF Claim, ledger
<1>7. ASSUME NEW w \in Worker, EndRow(w), phase[w] \in Busy, exists \subseteq exists'
      PROVE  /\ claim' \in [Worker -> [Row -> 0 .. MaxAttempts]]
             /\ claimAge' \in [Worker -> 0 .. Expired]
             /\ current' \in [Worker -> Row \cup {NoRow}]
             /\ phase' \in [Worker -> Off \cup {"idle", "ready", "running", "succeeded",
                                               "raised", "unhandled"}]
             /\ WorkerInv'
  <2>1. claim' = [claim EXCEPT ![w] = [claim[w] EXCEPT ![current[w]] = 0]]
    BY <1>7 DEF EndRow
  <2>0. current[w] \in Row /\ claim[w] \in [Row -> 0 .. MaxAttempts] /\ 0 \in 0 .. MaxAttempts
    BY <1>7
  <2>2. claim' \in [Worker -> [Row -> 0 .. MaxAttempts]]
    BY <2>0, <2>1
  <2>3. \A v \in Worker : v # w => claim'[v] = claim[v] /\ phase'[v] = phase[v]
                                   /\ current'[v] = current[v]
    BY <1>7, <2>1 DEF EndRow
  <2>4. phase'[w] \in {"idle", "ready"} /\ \A r \in Row : claim'[w][r] \in {claim[w][r], 0}
    BY <1>7, <2>1 DEF EndRow
  <2>5. WorkerInv'
    <3>1. ASSUME NEW v \in Worker, NEW r \in Row, claim'[v][r] > 0 PROVE r \in exists'
      BY <1>7, <2>3, <2>4, <3>1
    <3>2. ASSUME NEW v \in Worker, phase'[v] \in Busy
          PROVE  current'[v] \in Row /\ claim'[v][current'[v]] > 0
      BY <2>3, <2>4, <3>2
    <3>3. QED
      BY <3>1, <3>2
  <2>6. QED
    BY <1>7, <2>2, <2>5 DEF EndRow
<1>8. ASSUME NEW w \in Worker, Take(w) \/ HandlerRaises(w) PROVE QInv'
  BY <1>8 DEF Take, HandlerRaises, Held, table, ledger
<1>9. ASSUME NEW w \in Worker, HandlerCommits(w) PROVE QInv'
  <2>1. effects' \in [Row -> 0 .. 2]
    BY <1>9 DEF HandlerCommits, AtMost
  <2>2. consumed' \subseteq Ledgered
    BY <1>9 DEF HandlerCommits
  <2>3. QED
    BY <1>9, <2>1, <2>2 DEF HandlerCommits, table
<1>10. ASSUME NEW w \in Worker, Complete(w) PROVE QInv'
  <2>1. current[w] \in exists
    BY <1>10 DEF Complete
  <2>2. exists \subseteq exists' /\ exists' \subseteq Row /\ dueIn' \in [Row -> Nat]
    BY <1>10 DEF Complete, Insert, Unused
  <2>3. lockAge' \in [Row -> 0 .. Unlocked]
    BY <1>0, <1>10 DEF Complete, Unlock
  <2>4. QED
    BY <1>7, <1>10, <2>1, <2>2, <2>3 DEF Complete, ledger
<1>11. ASSUME NEW w \in Worker, Retry(w) PROVE QInv'
  <2>1. lockAge' \in [Row -> 0 .. Unlocked] /\ dueIn' \in [Row -> Nat]
    BY <1>0, <1>11 DEF Retry, Unlock
  <2>2. QED
    BY <1>7, <1>11, <2>1 DEF Retry, ledger
<1>12. ASSUME NEW w \in Worker, Fail(w) PROVE QInv'
  <2>1. lockAge' \in [Row -> 0 .. Unlocked] /\ current[w] \in exists
    BY <1>0, <1>12 DEF Fail, Unlock
  <2>2. QED
    BY <1>7, <1>12, <2>1 DEF Fail, ledger
<1>13. ASSUME NEW w \in Worker, EndingFails(w) \/ Stop(w) \/ Crash(w) PROVE QInv'
  <2>1. /\ claim' = [claim EXCEPT ![w] = NoClaim] /\ current' = [current EXCEPT ![w] = NoRow]
        /\ \E p \in {"idle", "down", "stopped"} : phase' = [phase EXCEPT ![w] = p]
        /\ UNCHANGED <<table, ledger, claimAge>> /\ crashes' \in Nat
    BY <1>13 DEF EndingFails, Stop, Crash, Ends, Off
  <2>2. NoClaim \in [Row -> 0 .. MaxAttempts] /\ \A r \in Row : NoClaim[r] = 0
    BY DEF NoClaim
  <2>3. claim' \in [Worker -> [Row -> 0 .. MaxAttempts]]
    BY <2>1, <2>2
  <2>4. WorkerInv'
    BY <2>1, <2>2 DEF table
  <2>5. QED
    BY <2>1, <2>3, <2>4 DEF table, ledger
<1>14. QED
  BY <1>1, <1>2, <1>3, <1>4, <1>5, <1>6, <1>8, <1>9, <1>10, <1>11, <1>12, <1>13
  DEF Next, Work

(* Every column and every worker keeps its type. *)
THEOREM TypeCorrect == Spec => []TypeOK
<1>1. QInv => TypeOK
  BY DEF QInv
<1>2. QED
  BY <1>1, QInit, QNext, PTL DEF Spec
-----------------------------------------------------------------------------
(* Effects.  The consumed mark commits with the handler's writes, so it     *)
(* counts them; a worker that reports success has seen one committed run.   *)
EffectInv ==
  /\ \A r \in Ledgered : effects[r] = IF r \in consumed THEN 1 ELSE 0
  /\ \A w \in Worker : phase[w] = "succeeded" => effects[current[w]] >= 1
  /\ DoneMeansRan

LEMMA EffectInit == Init => EffectInv
  BY RowAssumption DEF Init, EffectInv, DoneMeansRan

LEMMA EffectNext == QInv /\ EffectInv /\ [Next]_vars => EffectInv'
<1> SUFFICES ASSUME QInv, EffectInv, [Next]_vars PROVE EffectInv'
  OBVIOUS
<1> USE RowAssumption DEF QInv, TypeOK, EffectInv, DoneMeansRan
<1>1. CASE UNCHANGED vars
  BY <1>1 DEF vars, table, ledger, worker
<1>2. CASE Clock \/ Purge \/ \E r \in Row : Enqueue(r)
  <2>1. UNCHANGED <<ledger, phase, current>> /\ done' \subseteq done
    BY <1>2 DEF Clock, Purge, Enqueue, ledger, worker
  <2>2. QED
    BY <2>1 DEF ledger
<1>3. ASSUME NEW w \in Worker, HandlerCommits(w) PROVE EffectInv'
  <2>1. current[w] \in Row
    BY <1>3 DEF HandlerCommits, WorkerInv, Busy
  <2>2. \A r \in Row : effects'[r] =
          IF r = current[w] /\ r \notin consumed THEN AtMost(effects[r] + 1, 2) ELSE effects[r]
    BY <1>3 DEF HandlerCommits, FirstDelivery
  <2>3. \A n \in 0 .. 2 : AtMost(n + 1, 2) >= 1 /\ AtMost(n + 1, 2) >= n /\ AtMost(0 + 1, 2) = 1
    BY DEF AtMost
  <2>4. consumed' = consumed \cup ({current[w]} \cap Ledgered)
    BY <1>3 DEF HandlerCommits
  <2>5. \A r \in Ledgered : effects'[r] = IF r \in consumed' THEN 1 ELSE 0
    BY <2>2, <2>3, <2>4
  <2>6. \A r \in Row : effects'[r] >= effects[r]
    BY <2>2, <2>3
  <2>7. effects'[current[w]] >= 1
    BY <2>1, <2>2, <2>3
  <2>8. \A v \in Worker : phase'[v] = "succeeded" => effects'[current'[v]] >= 1
    BY <1>3, <2>6, <2>7 DEF HandlerCommits, WorkerInv, Busy
  <2>9. done' = done
    BY <1>3 DEF HandlerCommits, table
  <2>10. DoneMeansRan'
    <3>1. ASSUME NEW r \in done, TopicOf[r] \notin Recurring PROVE effects'[r] >= 1
      <4>1. r \in Row /\ effects[r] >= 1 /\ effects[r] \in 0 .. 2
        BY <3>1
      <4>2. QED
        BY <2>2, <2>3, <4>1
    <3>2. QED
      BY <2>9, <3>1
  <2>11. QED
    BY <2>5, <2>8, <2>10
<1>4. ASSUME NEW w \in Worker, Complete(w) PROVE EffectInv'
  <2>1. /\ UNCHANGED ledger /\ done' = done \cup {current[w]}
        /\ effects[current[w]] >= 1
    BY <1>4 DEF Complete
  <2>2. \A v \in Worker : phase'[v] = "succeeded" =>
          phase[v] = "succeeded" /\ current'[v] = current[v]
    BY <1>4 DEF Complete, EndRow
  <2>3. QED
    BY <2>1, <2>2 DEF ledger
<1>5. ASSUME NEW w \in Worker,
             \/ Boot(w) \/ Claim(w) \/ Take(w) \/ HandlerRaises(w) \/ EndingFails(w)
             \/ Retry(w) \/ Fail(w) \/ Stop(w) \/ Crash(w)
      PROVE  EffectInv'
  <2>1. UNCHANGED ledger /\ done' = done
    BY <1>5 DEF Boot, Claim, Take, HandlerRaises, EndingFails, Retry, Fail, Stop, Crash, Ends, Off, table
  <2>2. \A v \in Worker : phase'[v] = "succeeded" =>
          phase[v] = "succeeded" /\ current'[v] = current[v]
    BY <1>5 DEF Boot, Claim, Take, HandlerRaises, EndingFails, Retry, Fail, Stop, Crash, Ends, Off, EndRow
  <2>3. QED
    BY <2>1, <2>2 DEF ledger
<1>6. QED
  BY <1>1, <1>2, <1>3, <1>4, <1>5 DEF Next, Work

(* However often the queue runs a task again (an expired lease, a crash     *)
(* before _complete, a retry), an idempotent reaction takes effect at most  *)
(* once.                                                                    *)
THEOREM AtMostOneEffect == Spec => []EffectAtMostOnce
<1>1. EffectInv => EffectAtMostOnce
  BY DEF EffectInv, EffectAtMostOnce
<1>2. QED
  BY <1>1, QInit, QNext, EffectInit, EffectNext, PTL DEF Spec

(* No row carries done_at without a committed run of its handler.           *)
LEMMA DoneIsHonest == Spec => []DoneMeansRan
<1>1. EffectInv => DoneMeansRan
  BY DEF EffectInv
<1>2. QED
  BY <1>1, QInit, QNext, EffectInit, EffectNext, PTL DEF Spec

-----------------------------------------------------------------------------
(* Parking.  A claimed copy never counts more attempts than its row.        *)
ParkInv ==
  /\ ParkedGaveUp
  /\ \A w \in Worker, r \in Row : claim[w][r] <= attempts[r]
  /\ \A w \in Worker : phase[w] = "unhandled" => TopicOf[current[w]] \notin Handled[w]

LEMMA ParkInit == Init => ParkInv
  BY DEF Init, ParkInv, ParkedGaveUp, NoClaim

LEMMA ParkNext == QInv /\ QInv' /\ ParkInv /\ [Next]_vars => ParkInv'
<1> SUFFICES ASSUME QInv, QInv', ParkInv, [Next]_vars PROVE ParkInv'
  OBVIOUS
<1> USE NumberAssumption DEF QInv, TypeOK, ParkInv, ParkedGaveUp
<1>0. \A w \in Worker, r \in Row : 0 <= attempts[r] /\ claim[w][r] <= attempts[r]
  OBVIOUS
<1>1. CASE UNCHANGED vars
  BY <1>1 DEF vars, table, ledger, worker
<1>2. CASE Clock \/ \E r \in Row : Enqueue(r)
  BY <1>2 DEF Clock, Enqueue, worker
<1>3. CASE Purge
  <2>1. PICK S \in SUBSET {r \in exists \cap done : \A w \in Worker : r \notin Held(w)} :
          failed' = failed \ S
          /\ attempts' = [r \in Row |-> IF r \in S THEN 0 ELSE attempts[r]]
    BY <1>3 DEF Purge
  <2>2. \A w \in Worker, r \in S : ~(claim[w][r] > 0)
    BY <2>1 DEF Held
  <2>3. UNCHANGED <<phase, current, claim>>
    BY <1>3 DEF Purge, worker
  <2>4. QED
    BY <2>1, <2>2, <2>3
<1>4. ASSUME NEW w \in Worker, Claim(w) PROVE ParkInv'
  <2>1. \A r \in Row : attempts[r] <= attempts'[r]
    BY <1>4 DEF Claim, AtMost
  <2>2. \A r \in Row : claim'[w][r] <= attempts'[r]
    BY <1>4 DEF Claim
  <2>3. \A v \in Worker : v # w => claim'[v] = claim[v]
    BY <1>4 DEF Claim
  <2>4. \A v \in Worker, r \in Row : claim'[v][r] <= attempts'[r]
    BY <2>1, <2>2, <2>3
  <2>5. ParkedGaveUp'
    <3>1. \A r \in Row : attempts[r] = MaxAttempts => attempts'[r] = MaxAttempts
      BY <1>4 DEF Claim, AtMost
    <3>2. failed' = failed /\ failed \subseteq Row
      BY <1>4 DEF Claim
    <3>3. QED
      BY <3>1, <3>2
  <2>6. \A v \in Worker : phase'[v] = "unhandled" => phase[v] = "unhandled" /\ current'[v] = current[v]
    BY <1>4 DEF Claim
  <2>7. QED
    BY <2>4, <2>5, <2>6
<1>5. ASSUME NEW w \in Worker, Fail(w) PROVE ParkInv'
  <2>1. current[w] \in Row
    BY <1>5 DEF Fail, WorkerInv, Busy
  <2>2. attempts[current[w]] = MaxAttempts \/ TopicOf[current[w]] \notin Handled[w]
    <3>1. CASE phase[w] = "unhandled"
      BY <3>1
    <3>2. CASE LastAttempt(w)
      <4>1. claim[w][current[w]] <= attempts[current[w]]
        BY <1>0, <2>1
      <4>2. attempts[current[w]] \in 0 .. MaxAttempts
        BY <2>1
      <4>3. claim[w][current[w]] \in 0 .. MaxAttempts
        BY <2>1
      <4>0. MaxAttempts \in Nat
        BY NumberAssumption
      <4>4. \A n, m \in 0 .. MaxAttempts : n <= m /\ n >= MaxAttempts => m = MaxAttempts
        BY <4>0
      <4>5. claim[w][current[w]] >= MaxAttempts
        BY <3>2 DEF LastAttempt
      <4>6. QED
        BY <4>1, <4>2, <4>3, <4>4, <4>5
    <3>3. QED
      BY <1>5, <3>1, <3>2 DEF Fail
  <2>3. ParkedGaveUp'
    BY <1>5, <2>2 DEF Fail
  <2>4. \A v \in Worker, r \in Row : claim'[v][r] \in {claim[v][r], 0}
    BY <1>5, <2>1 DEF Fail, EndRow
  <2>5. \A v \in Worker : phase'[v] = "unhandled" => phase[v] = "unhandled" /\ current'[v] = current[v]
    BY <1>5 DEF Fail, EndRow
  <2>6. \A v \in Worker, r \in Row : claim'[v][r] <= attempts'[r]
    BY <1>0, <1>5, <2>4 DEF Fail
  <2>7. QED
    BY <2>3, <2>5, <2>6
<1>6. ASSUME NEW w \in Worker, Complete(w) \/ Retry(w) PROVE ParkInv'
  <2>1. current[w] \in Row
    BY <1>6 DEF Complete, Retry, WorkerInv, Busy
  <2>2. EndRow(w) /\ UNCHANGED <<failed, attempts>>
    BY <1>6 DEF Complete, Retry
  <2>3. \A v \in Worker, r \in Row : claim'[v][r] \in {claim[v][r], 0}
    BY <2>1, <2>2 DEF EndRow
  <2>4. \A v \in Worker : phase'[v] = "unhandled" => phase[v] = "unhandled" /\ current'[v] = current[v]
    BY <2>2 DEF EndRow
  <2>5. \A v \in Worker, r \in Row : claim'[v][r] <= attempts'[r]
    BY <1>0, <2>2, <2>3
  <2>6. QED
    BY <2>2, <2>4, <2>5
<1>7. ASSUME NEW w \in Worker,
             Boot(w) \/ Take(w) \/ HandlerCommits(w) \/ HandlerRaises(w)
      PROVE  ParkInv'
  BY <1>7 DEF Boot, Take, HandlerCommits, HandlerRaises, table
<1>8. ASSUME NEW w \in Worker, EndingFails(w) \/ Stop(w) \/ Crash(w) PROVE ParkInv'
  <2>1. /\ claim' = [claim EXCEPT ![w] = NoClaim] /\ UNCHANGED <<failed, attempts>>
        /\ \A v \in Worker : phase'[v] = "unhandled" => phase[v] = "unhandled" /\ current'[v] = current[v]
    BY <1>8 DEF EndingFails, Stop, Crash, Ends, Off, table
  <2>2. \A v \in Worker, r \in Row : claim'[v][r] \in {claim[v][r], 0}
    BY <2>1 DEF NoClaim
  <2>3. QED
    BY <2>1, <2>2
<1>9. QED
  BY <1>1, <1>2, <1>3, <1>4, <1>5, <1>6, <1>7, <1>8 DEF Next, Work

(* A row is parked only when its last attempt has failed, or by a worker    *)
(* that has no handler for its topic, stale workers included.               *)
LEMMA ParkingIsHonest == Spec => []ParkedGaveUp
<1>1. ParkInv => ParkedGaveUp
  BY DEF ParkInv
<1>2. QED
  BY <1>1, QInit, QNext, ParkInit, ParkNext, PTL DEF Spec

(* The receipts are true: done means that a handler run committed, parked   *)
(* that the last attempt failed or that some worker had no handler.         *)
THEOREM TheReceiptsAreTrue == Spec => []ReceiptsAreTrue
<1>1. DoneMeansRan /\ ParkedGaveUp => ReceiptsAreTrue
  BY DEF ReceiptsAreTrue
<1>2. QED
  BY <1>1, DoneIsHonest, ParkingIsHonest, PTL
-----------------------------------------------------------------------------
(* Recurring topics.  The unique index keeps one open row at most, and only  *)
(* parking a row takes the last one away without a successor.                *)
Parked(t) == \E r \in failed \ done : TopicOf[r] = t

RecurInv ==
  \A t \in Recurring :
    /\ \A r, s \in OpenOf(t) : r = s
    /\ Planted(t) => OpenOf(t) # {} \/ Parked(t)

LEMMA RecurInit == Init => RecurInv
  BY DEF Init, RecurInv, OpenOf, OpenRow, Planted

(* Steps that insert no row of a recurring topic and end no open one.        *)
LEMMA RecurFrame ==
  ASSUME QInv, RecurInv, NEW t \in Recurring, OpenOf(t)' = OpenOf(t),
         Parked(t) => Parked(t)', Planted(t)' => Planted(t)
  PROVE  /\ \A r, s \in OpenOf(t)' : r = s
         /\ Planted(t)' => OpenOf(t)' # {} \/ Parked(t)'
  BY DEF RecurInv

(* A boot plants a row where no row is open, and one only.                   *)
LEMMA RecurBoot ==
  ASSUME QInv, RecurInv, NEW w \in Worker, Boot(w), NEW t \in Recurring
  PROVE  /\ \A r, s \in OpenOf(t)' : r = s
         /\ Planted(t)' => OpenOf(t)' # {} \/ Parked(t)'
<1>0. t \in Topic
  BY WorkerAssumption
<1>1. PICK S \in SUBSET Unused :
        /\ Cardinality({r \in S : TopicOf[r] = t})
             = IF t \in Recurring \cap Handled[w] /\ OpenOf(t) = {} THEN 1 ELSE 0
        /\ exists' = exists \cup S /\ done' = done /\ failed' = failed
  BY <1>0 DEF Boot, Insert
<1> DEFINE T == {r \in S : TopicOf[r] = t}
<1>2. IsFiniteSet(T)
  BY RowAssumption, FS_Subset DEF Unused
<1>3. OpenOf(t)' = OpenOf(t) \cup T /\ (Parked(t)' <=> Parked(t))
  BY <1>1 DEF OpenOf, OpenRow, Parked, Unused, QInv, TypeOK
<1>4. CASE T = {}
  <2>1. Planted(t)' => Planted(t)
    BY <1>1, <1>4 DEF Planted
  <2>2. QED
    BY <1>3, <1>4, <2>1, RecurFrame
<1>5. CASE T # {}
  <2>1. Cardinality(T) # 0
    BY <1>2, <1>5, FS_EmptySet
  <2>2. Cardinality(T) = 1 /\ OpenOf(t) = {}
    BY <1>1, <2>1
  <2>3. PICK r : T = {r}
    BY <1>2, <2>2, FS_Singleton
  <2>4. QED
    BY <1>3, <2>2, <2>3
<1>6. QED
  BY <1>4, <1>5

(* A recurring row completes only with its successor, next to which no row   *)
(* of the topic is open.                                                     *)
LEMMA RecurComplete ==
  ASSUME QInv, RecurInv, NEW w \in Worker, Complete(w), NEW t \in Recurring
  PROVE  /\ \A r, s \in OpenOf(t)' : r = s
         /\ Planted(t)' => OpenOf(t)' # {} \/ Parked(t)'
<1> DEFINE r == current[w]
<1>1. r \in Row /\ done' = done \cup {r} /\ failed' = failed
  BY DEF Complete, QInv, WorkerInv, Busy
<1>2. CASE TopicOf[r] = t
  <2>1. PICK s \in Unused : /\ TopicOf[s] = t /\ exists' = exists \cup {s}
                            /\ OpenOf(t) \subseteq {r}
    BY <1>2 DEF Complete, Recurs, Insert, Free
  <2>2. s \in Row /\ s \notin done \cup failed /\ s # r
    BY <2>1 DEF Unused, QInv, TypeOK, WorkerInv, Complete, Busy
  <2>3. OpenOf(t)' = {s}
    BY <1>1, <2>1, <2>2 DEF OpenOf, OpenRow
  <2>4. QED
    BY <2>3
<1>3. CASE TopicOf[r] # t
  <2>1. \/ exists' = exists
        \/ \E s \in Unused : TopicOf[s] = TopicOf[r] /\ exists' = exists \cup {s}
    BY DEF Complete, Insert
  <2>2. OpenOf(t)' = OpenOf(t) /\ (Parked(t)' <=> Parked(t)) /\ (Planted(t)' => Planted(t))
    BY <1>1, <1>3, <2>1 DEF OpenOf, OpenRow, Parked, Planted
  <2>3. QED
    BY <2>2, RecurFrame
<1>4. QED
  BY <1>2, <1>3

(* A row that is given up is open no more, or never was, and it is parked.   *)
LEMMA RecurFail ==
  ASSUME QInv, RecurInv, NEW w \in Worker, Fail(w), NEW t \in Recurring
  PROVE  /\ \A r, s \in OpenOf(t)' : r = s
         /\ Planted(t)' => OpenOf(t)' # {} \/ Parked(t)'
<1> DEFINE r == current[w]
<1>1. /\ r \in Row /\ r \in exists /\ failed' = failed \cup {r}
      /\ UNCHANGED <<exists, done>>
  BY DEF Fail, QInv, WorkerInv, Busy, TypeOK
<1>2. CASE OpenOf(t)' = OpenOf(t)
  BY <1>1, <1>2, RecurFrame DEF Parked, Planted
<1>3. CASE OpenOf(t)' # OpenOf(t)
  <2>1. r \in OpenOf(t) /\ OpenOf(t)' \subseteq OpenOf(t)
    BY <1>1, <1>3 DEF OpenOf, OpenRow
  <2>2. r \in failed' \ done' /\ TopicOf[r] = t
    BY <1>1, <2>1 DEF OpenOf, OpenRow
  <2>3. QED
    BY <2>1, <2>2 DEF RecurInv, Parked
<1>4. QED
  BY <1>2, <1>3

LEMMA RecurNext == QInv /\ RecurInv /\ [Next]_vars => RecurInv'
<1> SUFFICES ASSUME QInv, RecurInv, [Next]_vars, NEW t \in Recurring
             PROVE  /\ \A r, s \in OpenOf(t)' : r = s
                    /\ Planted(t)' => OpenOf(t)' # {} \/ Parked(t)'
  BY DEF RecurInv
<1>1. CASE UNCHANGED <<exists, done, failed>>
  BY <1>1, RecurFrame DEF OpenOf, OpenRow, Parked, Planted
<1>2. ASSUME NEW r \in Row, Enqueue(r) PROVE OpenOf(t)' = OpenOf(t) /\ Parked(t)' = Parked(t)
                                            /\ Planted(t)' = Planted(t)
  BY <1>2 DEF Enqueue, Insert, OpenOf, OpenRow, Parked, Planted
<1>3. CASE Purge
  <2>1. OpenOf(t)' = OpenOf(t) /\ (Parked(t) => Parked(t)') /\ (Planted(t)' => Planted(t))
    BY <1>3 DEF Purge, OpenOf, OpenRow, Parked, Planted
  <2>2. QED
    BY <2>1, RecurFrame
<1>4. QED
  BY <1>1, <1>2, <1>3, RecurFrame, RecurBoot, RecurComplete, RecurFail
  DEF Next, Work, Clock, Claim, Take, HandlerCommits, HandlerRaises, EndingFails, Retry, Stop,
      Crash, Ends, vars, table

(* A recurring topic never fades out: once planted it has exactly one open   *)
(* row, or none and a parked one, through leases that expire under slow      *)
(* workers, two completions of one row, boots, crashes and purges.           *)
THEOREM RecurringGoesOn == Spec => []RecurringNeverStops
<1>1. QInv /\ RecurInv => RecurringNeverStops
  <2> SUFFICES ASSUME QInv, RecurInv, NEW t \in Recurring, Planted(t)
               PROVE  Cardinality(OpenOf(t)) = 1 \/ (OpenOf(t) = {} /\ Parked(t))
    BY DEF RecurringNeverStops, Parked
  <2>1. CASE OpenOf(t) # {}
    <3>1. PICK r : OpenOf(t) = {r}
      BY <2>1 DEF RecurInv
    <3>2. QED
      BY <3>1, FS_Singleton
  <2>2. QED
    BY <2>1 DEF RecurInv
<1>2. QED
  BY <1>1, QInit, QNext, RecurInit, RecurNext, PTL DEF Spec
-----------------------------------------------------------------------------
(* The Tasks screen.  It only reads: a step of the screen's specification is *)
(* one of the queue's or leaves the queue alone.                             *)
LEMMA ScreenReads == [ScreenNext]_screenVars => [Next]_vars
<1> SUFFICES ASSUME ScreenNext PROVE [Next]_vars
  BY DEF screenVars
<1>1. CASE QueueStep
  BY <1>1 DEF QueueStep, PurgeOld, Tried, EndUntried, Next, Work
<1>2. CASE ScreenStep
  BY <1>2 DEF ScreenStep
<1>3. QED
  BY <1>1, <1>2 DEF ScreenNext

LEMMA ScreenQueue == ScreenSpec => [](QInv /\ RecurInv)
<1>1. ScreenInit => QInv /\ RecurInv
  BY QInit, RecurInit DEF ScreenInit
<1>2. QInv /\ RecurInv /\ [ScreenNext]_screenVars => (QInv /\ RecurInv)'
  BY ScreenReads, QNext, RecurNext
<1>3. QED
  BY <1>1, <1>2, PTL DEF ScreenSpec

States == {"parked", "retrying", "pending", "done"}

Page ==
  [step : {"closed", "listed", "clocked", "tried", "drawn"}, during : SUBSET Row,
   planted : SUBSET Recurring, owed : SUBSET (Topic \X States), clocks : SUBSET Recurring,
   tries : SUBSET Topic, recurring : [Topic -> SUBSET States], oneshot : [Topic -> SUBSET States]]

OwedParked(t) == <<t, "parked">> \in page.owed

(* A page in the making: what landed meanwhile is still there, a row parked  *)
(* was listed as parked or landed meanwhile, and a topic that had a row was  *)
(* listed, with its open row open yet or landed; without a clock it has had  *)
(* its last row parked.                                                      *)
PageInv ==
  /\ page \in Page /\ lines \subseteq Topic
  /\ page.step # "closed" =>
       /\ page.during \subseteq exists
       /\ \A r \in failed \ done : r \in page.during \/ OwedParked(TopicOf[r])
       /\ \A t \in page.planted :
            /\ \E o \in page.owed : o[1] = t
            /\ OwedParked(t) \/ \E r \in Row : TopicOf[r] = t /\ (OpenRow(r) \/ r \in page.during)
  /\ page.step \in {"clocked", "tried", "drawn"} =>
       \A t \in page.planted \ page.clocks :
         OwedParked(t) \/ \E r \in page.during \cap failed : TopicOf[r] = t
  /\ page.step = "drawn" => \A t \in Recurring : page.oneshot[t] = {}

LEMMA StateIsKnown == \A r : StateOf(r) \in States
  BY DEF StateOf, States

LEMMA ClosedPage == Closed \in Page /\ Closed.step = "closed" /\ Closed.during = {}
  BY DEF Page, Closed, NoRuns

(* The queue goes on under the page.                                         *)
LEMMA PageMeanwhile ==
  ASSUME QInv, QInv', PageInv, QueueStep
  PROVE  PageInv'
<1> USE DEF PageInv
<1>1. /\ page' \in Page /\ page'.step = page.step /\ page'.planted = page.planted
      /\ page'.owed = page.owed /\ page'.clocks = page.clocks /\ page.step # "drawn"
      /\ page'.during = IF page.step = "closed" THEN {} ELSE page.during \cup JustLanded
  <2>1. JustLanded \subseteq Row
    BY DEF JustLanded, QInv, TypeOK
  <2>2. page' = [page EXCEPT !.during = IF page.step = "closed" THEN {} ELSE @ \cup JustLanded]
        /\ page.step # "drawn"
    BY DEF QueueStep, Meanwhile
  <2>3. QED
    BY <2>1, <2>2 DEF Page
<1>2. lines' \subseteq Topic
  <2>1. \A w \in Worker : phase[w] = "raised" => TopicOf[current[w]] \in Topic
    BY RowAssumption DEF QInv, WorkerInv, Busy
  <2>2. QED
    BY <2>1 DEF QueueStep, Tried
<1>3. CASE page.step = "closed"
  BY <1>1, <1>2, <1>3
<1>4. CASE page.step # "closed"
  <2>1. /\ exists \subseteq exists' /\ done \subseteq done' /\ failed \subseteq failed'
        \/ PurgeOld
    BY DEF QueueStep, Clock, Enqueue, Boot, Claim, Take, HandlerCommits, HandlerRaises, Complete,
       EndUntried, Tried, Retry, Fail, EndingFails, Stop, Crash, Ends, Insert, table
  <2>2. CASE PurgeOld
    <3>1. PICK S \in SUBSET (exists \cap done) :
            exists' = exists \ S /\ done' = done \ S /\ failed' = failed \ S
      BY <2>2 DEF PurgeOld, Purge
    <3>2. JustLanded = {} /\ page'.during = page.during /\ page.during \cap S = {}
      BY <1>1, <1>4, <2>2, <3>1 DEF JustLanded, PurgeOld
    <3>3. \A r \in Row : OpenRow(r) => OpenRow(r)'
      BY <3>1 DEF OpenRow
    <3>4. QED
      BY <1>1, <1>2, <1>4, <3>1, <3>2, <3>3 DEF OwedParked
  <2>3. CASE exists \subseteq exists' /\ done \subseteq done' /\ failed \subseteq failed'
    <3>1. page'.during = page.during \cup JustLanded
      BY <1>1, <1>4
    <3>2. JustLanded \subseteq exists'
      BY DEF JustLanded, QInv, TypeOK
    <3>3. \A r \in Row : OpenRow(r) => OpenRow(r)' \/ r \in page'.during
      BY <2>3, <3>1 DEF OpenRow, JustLanded
    <3>4. \A r \in failed' \ done' : r \in failed \ done \/ r \in page'.during
      BY <2>3, <3>1 DEF JustLanded
    <3>5. QED
      BY <1>1, <1>2, <1>4, <2>3, <3>1, <3>2, <3>3, <3>4 DEF OwedParked
  <2>4. QED
    BY <2>1, <2>2, <2>3
<1>5. QED
  BY <1>3, <1>4

(* The first query, in one snapshot: a topic that had a row has it listed.   *)
LEMMA PageListed ==
  ASSUME QInv, RecurInv, PageInv, ListBacklog, UNCHANGED <<vars, lines>>
  PROVE  PageInv'
<1> DEFINE had == {t \in Recurring : Planted(t)}
           owed == {<<TopicOf[r], StateOf(r)>> : r \in Owed}
<1>1. had \subseteq Recurring /\ owed \subseteq Topic \X States
  <2>1. \A r \in Owed : TopicOf[r] \in Topic
    BY RowAssumption DEF Owed, QInv, TypeOK
  <2>2. QED
    BY <2>1, StateIsKnown
<1>2. page' = [Closed EXCEPT !.step = "listed", !.planted = had, !.owed = owed]
  BY DEF ListBacklog
<1>3. /\ page' \in Page /\ page'.step = "listed" /\ page'.planted = had /\ page'.owed = owed
      /\ page'.during = {}
  <2> HIDE DEF had, owed
  <2>1. QED
    BY <1>1, <1>2 DEF Closed, NoRuns, Page
<1>4. \A r \in failed \ done : <<TopicOf[r], "parked">> \in owed
  BY DEF Owed, StateOf, QInv, TypeOK
<1>5. ASSUME NEW t \in had
      PROVE  /\ \E o \in owed : o[1] = t
             /\ <<t, "parked">> \in owed \/ \E r \in Row : TopicOf[r] = t /\ OpenRow(r)
  <2>1. OpenOf(t) # {} \/ Parked(t)
    BY DEF RecurInv
  <2>2. CASE OpenOf(t) # {}
    <3>1. PICK r \in Row : OpenRow(r) /\ TopicOf[r] = t
      BY <2>2 DEF OpenOf
    <3>2. <<TopicOf[r], StateOf(r)>> \in owed
      BY <3>1 DEF Owed, OpenRow
    <3>3. QED
      BY <3>1, <3>2
  <2>3. CASE Parked(t)
    BY <1>4, <2>3 DEF Parked
  <2>4. QED
    BY <2>1, <2>2, <2>3
<1>6. UNCHANGED <<exists, done, failed, lines>>
  BY DEF vars, table
<1> HIDE DEF had, owed
<1>7. QED
  BY <1>3, <1>4, <1>5, <1>6 DEF PageInv, OwedParked, OpenRow

(* The clocks: a planted topic without an open row has a parked one, which   *)
(* was listed as parked or landed since.                                     *)
LEMMA PageClocked ==
  ASSUME QInv, RecurInv, PageInv, ReadClocks, UNCHANGED <<vars, lines>>
  PROVE  PageInv'
<1> USE DEF PageInv
<1> DEFINE live == {t \in Recurring : Live(t)}
<1>1. page' = [page EXCEPT !.step = "clocked", !.clocks = live] /\ page.step = "listed"
  BY DEF ReadClocks
<1>2. /\ page' \in Page /\ page'.step = "clocked" /\ page'.clocks = live
      /\ page'.planted = page.planted /\ page'.owed = page.owed /\ page'.during = page.during
  <2>1. live \subseteq Recurring
    OBVIOUS
  <2> HIDE DEF live
  <2>2. QED
    BY <1>1, <2>1 DEF Page
<1>3. ASSUME NEW t \in page.planted \ live
      PROVE  OwedParked(t) \/ \E r \in page.during \cap failed : TopicOf[r] = t
  <2>1. t \in Recurring /\ OpenOf(t) = {}
    BY DEF Live, Page
  <2>2. SUFFICES ASSUME ~ OwedParked(t)
                 PROVE  \E r \in page.during \cap failed : TopicOf[r] = t
    OBVIOUS
  <2>3. PICK r \in Row : TopicOf[r] = t /\ (OpenRow(r) \/ r \in page.during)
    BY <1>1, <2>2
  <2>4. r \in exists
    BY <1>1, <2>1, <2>3 DEF OpenOf
  <2>5. Parked(t)
    BY <2>1, <2>3, <2>4 DEF RecurInv, Planted
  <2>6. QED
    BY <1>1, <2>2, <2>5 DEF Parked
<1>4. UNCHANGED <<exists, done, failed, lines>>
  BY DEF vars, table
<1> HIDE DEF live
<1>5. QED
  BY <1>1, <1>2, <1>3, <1>4 DEF OwedParked, OpenRow

LEMMA PageRead ==
  ASSUME QInv, PageInv, ReadTries \/ ReadRuns \/ ClosePage, UNCHANGED <<vars, lines>>
  PROVE  PageInv'
<1> USE DEF PageInv
<1>0. UNCHANGED <<exists, done, failed, lines>>
  BY DEF vars, table
<1>1. CASE ClosePage
  BY <1>0, <1>1, ClosedPage DEF ClosePage
<1>2. CASE ReadTries
  <2>1. PICK tries \in SUBSET lines : page' = [page EXCEPT !.step = "tried", !.tries = tries]
    BY <1>2 DEF ReadTries
  <2>2. /\ page' \in Page /\ page'.step = "tried" /\ page'.clocks = page.clocks
        /\ page'.planted = page.planted /\ page'.owed = page.owed /\ page'.during = page.during
    BY <2>1 DEF Page
  <2>3. page.step = "clocked"
    BY <1>2 DEF ReadTries
  <2>4. QED
    BY <1>0, <2>2, <2>3 DEF OwedParked, OpenRow
<1>3. CASE ReadRuns
  <2>1. PICK within \in SUBSET InTime :
          page' = [page EXCEPT !.step = "drawn", !.recurring = Runs(Recurring, within),
                               !.oneshot = Runs(Topic \ Recurring, within)]
    BY <1>3 DEF ReadRuns
  <2> DEFINE mine == Runs(Recurring, within)
             others == Runs(Topic \ Recurring, within)
  <2>2. mine \in [Topic -> SUBSET States] /\ others \in [Topic -> SUBSET States]
    <3>1. \A family, t : {StateOf(r) : r \in {q \in within : TopicOf[q] = t /\ t \in family}}
                            \subseteq States
      BY StateIsKnown
    <3>2. QED
      BY <3>1 DEF Runs
  <2>3. \A t \in Recurring : others[t] = {}
    BY WorkerAssumption DEF Runs
  <2> HIDE DEF mine, others
  <2>4. page' = [page EXCEPT !.step = "drawn", !.recurring = mine, !.oneshot = others]
    BY <2>1 DEF mine, others
  <2>5. /\ page' \in Page /\ page'.step = "drawn" /\ page'.clocks = page.clocks
        /\ page'.planted = page.planted /\ page'.owed = page.owed /\ page'.during = page.during
        /\ page'.oneshot = others
    BY <2>2, <2>4 DEF Page
  <2>6. page.step = "tried"
    BY <1>3 DEF ReadRuns
  <2>7. QED
    BY <1>0, <2>3, <2>5, <2>6 DEF OwedParked, OpenRow
<1>4. QED
  BY <1>1, <1>2, <1>3

LEMMA PageNext ==
  QInv /\ QInv' /\ RecurInv /\ PageInv /\ [ScreenNext]_screenVars => PageInv'
<1> SUFFICES ASSUME QInv, QInv', RecurInv, PageInv, [ScreenNext]_screenVars PROVE PageInv'
  OBVIOUS
<1>1. CASE UNCHANGED screenVars
  BY <1>1 DEF screenVars, vars, table, PageInv, OwedParked, OpenRow
<1>2. CASE ScreenNext
  BY <1>2, PageMeanwhile, PageListed, PageClocked, PageRead DEF ScreenNext, ScreenStep
<1>3. QED
  BY <1>1, <1>2

(* The screen loses no recurring topic: one that had a row when the page was *)
(* asked for is owed, and its failed tries stand among the one-shots only    *)
(* when a row of it was parked, whatever ran between the page's queries.     *)
THEOREM TopicsKeepTheirPlace == ScreenSpec => []NoTopicMisplaced
<1>1. ScreenInit => PageInv
  BY ClosedPage DEF ScreenInit, PageInv
<1>2. PageInv => NoTopicMisplaced
  <2> SUFFICES ASSUME PageInv, page.step = "drawn", NEW t \in page.planted
               PROVE  /\ \E o \in page.owed : o[1] = t
                      /\ t \in DOMAIN OneShotLanes =>
                           OwedParked(t) \/ \E r \in failed : TopicOf[r] = t
    BY DEF NoTopicMisplaced, OwedParked
  <2>1. t \in Recurring /\ page.oneshot[t] = {}
    BY DEF PageInv, Page
  <2>2. t \in DOMAIN OneShotLanes => t \notin page.clocks
    BY <2>1 DEF OneShotLanes, Lanes
  <2>3. QED
    BY <2>2 DEF PageInv
<1>3. QED
  BY <1>1, <1>2, ScreenQueue, PageNext, PTL DEF ScreenSpec
=============================================================================
