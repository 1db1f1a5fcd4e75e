------------------------------- MODULE Settings -------------------------------
(* The live settings of one app (apps/shared/settings, the console's        *)
(* update_setting).  The database stores values; every instance serves a    *)
(* copy it reads at mount and then replaces, whole, by the values carried   *)
(* by each SettingsChanged fact its listener spreads to it.                 *)
(* An edit is one request, one READ COMMITTED transaction: it reads the     *)
(* row, writes it under the optimistic lock, reads every value of the app,  *)
(* records the fact and commits.  The listener's cursor is abstracted to    *)
(* what EventJournal promises: it reads the committed facts not applied     *)
(* yet, and applies what one read returned in the order of their keys (a    *)
(* tick that fails between the read and its commit is EventJournal's).      *)
EXTENDS Naturals, FiniteSets

CONSTANTS
  Setting,     \* the keys the app declares
  Value,       \* what may be stored
  Default,     \* the default every key declares
  NoValue,     \* no row
  Edit,        \* edits: requests to update_setting
  Instance,    \* processes that serve the app
  MaxOpen,     \* how many edits may be open at once
  MaxFaults    \* bound: failed edits, failed boots and exits of instances

ASSUME ValueAssumption == Default \in Value /\ NoValue \notin Value
ASSUME BoundAssumption ==
  /\ IsFiniteSet(Edit)
  /\ MaxOpen \in Nat \ {0}
  /\ MaxFaults \in Nat

VARIABLES
  stored,      \* stored[k]: [value, version], the row of app_settings
  phase,       \* phase[e]: where the request of e stands
  change,      \* change[e]: [key, value, version], what e writes and the version it read
  writes,      \* edits that hold the lock of their row
  image,       \* image[e]: the values the fact of e carries
  mint,        \* mint[e]: the rank of the fact's key, 0 before it is recorded
  up,          \* instances that run
  raw,         \* raw[i]: AppSettings._raw
  applied,     \* applied[i]: facts this process has applied
  todo,        \* todo[i]: facts one tick has read and not applied yet
  overlapped,  \* whether two edits were ever open at once
  faults       \* faults so far

requests == <<phase, change, writes, image, mint, overlapped>>
copies == <<up, raw, applied, todo>>
vars == <<stored, requests, copies, faults>>

Row == [value : Value \cup {NoValue}, version : Nat]
Image == [Setting -> Value \cup {NoValue}]
Empty == [k \in Setting |-> NoValue]
Phases == {"none", "read", "flushed", "imaged", "recorded", "committed", "refused"}

Flushed == {e \in Edit : phase[e] \in {"flushed", "imaged", "recorded"}}
Open == Flushed \cup {e \in Edit : phase[e] = "read"}
Facts == {e \in Edit : phase[e] = "committed"}     \* what other transactions see
Committed == [k \in Setting |-> stored[k].value]

(* A missing value is read as the declared default.                         *)
Typed(values) == [k \in Setting |-> IF values[k] = NoValue THEN Default ELSE values[k]]

Init ==
  /\ stored = [k \in Setting |-> [value |-> NoValue, version |-> 0]]
  /\ phase = [e \in Edit |-> "none"]
  /\ change \in [Edit -> [key : Setting, value : Value, version : {0}]]
  /\ writes = {}
  /\ image = [e \in Edit |-> Empty]
  /\ mint = [e \in Edit |-> 0]
  /\ up = {}
  /\ raw = [i \in Instance |-> Empty]
  /\ applied = [i \in Instance |-> {}]
  /\ todo = [i \in Instance |-> {}]
  /\ overlapped = FALSE
  /\ faults = 0

-----------------------------------------------------------------------------
(* An edit.                                                                 *)

Locked(k) == \E e \in writes : change[e].key = k

(* AppSettingRepository.set: read the row, assign its value.  Assigning the *)
(* value the row already has writes nothing: no UPDATE, no lock, no check.  *)
Read(e) ==
  LET row == stored[change[e].key] IN
  /\ phase[e] = "none"
  /\ Cardinality(Open) < MaxOpen
  /\ phase' = [phase EXCEPT ![e] =
                 IF row.value = change[e].value THEN "flushed" ELSE "read"]
  /\ change' = [change EXCEPT ![e].version = row.version]
  /\ overlapped' = (overlapped \/ Open # {})
  /\ UNCHANGED <<stored, writes, image, mint, copies, faults>>

NeverStale(e) == FALSE                 \* mutant: a raw upsert
IsStale(e) == stored[change[e].key].version # change[e].version

(* The autoflush of the next SELECT: the UPDATE waits for the row, and is   *)
(* refused when its version moved (StaleDataError, answered 409).           *)
Flush(e) ==
  /\ phase[e] = "read"
  /\ ~Locked(change[e].key)
  /\ phase' = [phase EXCEPT ![e] = IF IsStale(e) THEN "refused" ELSE "flushed"]
  /\ writes' = IF IsStale(e) THEN writes ELSE writes \cup {e}
  /\ UNCHANGED <<stored, change, image, mint, overlapped, copies, faults>>

(* AppSettingRepository.values: the request's own row, and the committed    *)
(* value of every other.                                                    *)
ImageOf(e) == [Committed EXCEPT ![change[e].key] = change[e].value]

ReadValues(e) ==
  /\ phase[e] = "flushed"
  /\ phase' = [phase EXCEPT ![e] = "imaged"]
  /\ image' = [image EXCEPT ![e] = ImageOf(e)]
  /\ UNCHANGED <<stored, change, writes, mint, overlapped, copies, faults>>

(* events.emit: the fact's key is minted at its INSERT.                     *)
Record(e) ==
  /\ phase[e] = "imaged"
  /\ phase' = [phase EXCEPT ![e] = "recorded"]
  /\ mint' = [mint EXCEPT ![e] = 1 + Cardinality({f \in Edit : mint[f] > 0})]
  /\ UNCHANGED <<stored, change, writes, image, overlapped, copies, faults>>

Without(e) == writes \ {e}

Commit(e) ==
  /\ phase[e] = "recorded"
  /\ phase' = [phase EXCEPT ![e] = "committed"]
  /\ stored' = [k \in Setting |->
                  IF e \in writes /\ k = change[e].key
                  THEN [value |-> change[e].value, version |-> stored[k].version + 1]
                  ELSE stored[k]]
  /\ writes' = Without(e)
  /\ UNCHANGED <<change, image, mint, overlapped, copies, faults>>

(* Any statement may fail before the commit: the transaction rolls back.    *)
Rollback(e) ==
  /\ e \in Open
  /\ faults < MaxFaults
  /\ faults' = faults + 1
  /\ phase' = [phase EXCEPT ![e] = "refused"]
  /\ writes' = Without(e)
  /\ UNCHANGED <<stored, change, image, mint, overlapped, copies>>

-----------------------------------------------------------------------------
(* An instance.                                                             *)

(* seed_values: the keys with no row get their default; the INSERT waits    *)
(* for an edit that is inserting the same key.                              *)
Seeded ==
  [k \in Setting |->
     IF stored[k].version = 0 THEN [value |-> Default, version |-> 1] ELSE stored[k]]

(* bind_settings: seed, then read.  Either may find the database            *)
(* unreachable, and then the app starts all the same, on its defaults.      *)
Boot(i) ==
  \E seeds \in BOOLEAN, reads \in BOOLEAN :
    /\ i \notin up
    /\ faults + (IF seeds /\ reads THEN 0 ELSE 1) <= MaxFaults
    /\ faults' = faults + (IF seeds /\ reads THEN 0 ELSE 1)
    /\ seeds => \A k \in Setting : stored[k].version = 0 => ~Locked(k)
    /\ stored' = IF seeds THEN Seeded ELSE stored
    /\ raw' = [raw EXCEPT ![i] =
                 IF reads THEN [k \in Setting |-> stored'[k].value] ELSE Empty]
    /\ up' = up \cup {i}
    /\ UNCHANGED <<requests, applied, todo>>

(* The process ends: its copy and its cursor were in memory.                *)
Exit(i) ==
  /\ i \in up
  /\ faults < MaxFaults
  /\ faults' = faults + 1
  /\ up' = up \ {i}
  /\ raw' = [raw EXCEPT ![i] = Empty]
  /\ applied' = [applied EXCEPT ![i] = {}]
  /\ todo' = [todo EXCEPT ![i] = {}]
  /\ UNCHANGED <<stored, requests>>

(* EventListener._read_spread: the committed facts not applied yet.         *)
UnappliedOnce(i) == IF applied[i] = {} THEN Facts ELSE {}   \* mutant: read once
Unapplied(i) == Facts \ applied[i]

Fetch(i) ==
  /\ i \in up /\ todo[i] = {}
  /\ Unapplied(i) # {}
  /\ todo' = [todo EXCEPT ![i] = Unapplied(i)]
  /\ UNCHANGED <<stored, requests, up, raw, applied, faults>>

FirstOf(S) == {e \in S : \A f \in S : mint[e] <= mint[f]}

(* AppSettings.reload, in the order of the keys.                            *)
Reload(i) ==
  \E e \in FirstOf(todo[i]) :
    /\ i \in up
    /\ raw' = [raw EXCEPT ![i] = image[e]]
    /\ todo' = [todo EXCEPT ![i] = @ \ {e}]
    /\ applied' = [applied EXCEPT ![i] = @ \cup {e}]
    /\ UNCHANGED <<stored, requests, up, faults>>

Request(e) == Read(e) \/ Flush(e) \/ ReadValues(e) \/ Record(e) \/ Commit(e) \/ Rollback(e)
Process(i) == Boot(i) \/ Exit(i) \/ Fetch(i) \/ Reload(i)
Next == (\E e \in Edit : Request(e)) \/ (\E i \in Instance : Process(i))

(* An open request ends, and the listener of a running process ticks.       *)
Spec ==
  /\ Init /\ [][Next]_vars
  /\ \A e \in Edit : WF_vars(Flush(e) \/ ReadValues(e) \/ Record(e) \/ Commit(e))
  /\ \A i \in Instance : WF_vars(Fetch(i)) /\ WF_vars(Reload(i))

-----------------------------------------------------------------------------
(* Every variable has its type.                                             *)
TypeOK ==
  /\ stored \in [Setting -> Row]
  /\ phase \in [Edit -> Phases]
  /\ change \in [Edit -> [key : Setting, value : Value, version : Nat]]
  /\ writes \subseteq Flushed
  /\ image \in [Edit -> Image]
  /\ mint \in [Edit -> Nat]
  /\ up \subseteq Instance
  /\ raw \in [Instance -> Image]
  /\ applied \in [Instance -> SUBSET Edit]
  /\ todo \in [Instance -> SUBSET Edit]
  /\ overlapped \in BOOLEAN
  /\ faults \in 0..MaxFaults

(* Two requests never overwrite each other's value of one key unseen: the   *)
(* one that holds the row read the version it is about to replace, and no   *)
(* two hold one row.                                                        *)
NoLostUpdate ==
  \A e \in writes :
    /\ stored[change[e].key].version = change[e].version
    /\ \A f \in writes : change[f].key = change[e].key => f = e

CaughtUp(i) == i \in up /\ Facts \subseteq applied[i]
Serves(i) == Typed(raw[i]) = Typed(Committed)

(* Until two edits are open at once, an instance that stays up ends by       *)
(* serving what is stored, and keeps to it, though a boot replays every fact *)
(* there ever was.                                                           *)
EndsFresh == \A i \in Instance : <>[](i \in up /\ ~overlapped => Serves(i))
===============================================================================
