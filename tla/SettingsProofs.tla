---------------------------- MODULE SettingsProofs ----------------------------
(* What is proved of Settings and OrgSettings, for every set of keys, edits *)
(* instances and organizations: no edit overwrites what its request has not *)
(* read; and, until two edits are open at once, an instance that applied    *)
(* every fact serves what is stored, and each organization gets the         *)
(* overrides that were told.                                                *)
(*                                                                          *)
(* The argument for the copies: edits that come one at a time commit their  *)
(* facts in the order of their keys (InTurn), so the fact of the highest    *)
(* key carries what is stored (Imaged), and it is the last one an instance  *)
(* applies (InOrder), whatever the boots replay.                            *)
EXTENDS OrgSettings, FiniteSetTheorems, TLAPS

LEMMA DefaultIsValue == Default \in Value /\ NoValue \notin Value
BY ValueAssumption

(* Every variable keeps its type, whatever the requests and the instances.  *)
LEMMA TypeInductive == TypeOK /\ [Next]_vars => TypeOK'
<1> SUFFICES ASSUME TypeOK, [Next]_vars PROVE TypeOK'
  OBVIOUS
<1> USE DEF TypeOK, Row, Image, Phases, Flushed, Open, Without, requests, copies
<1>0. Empty \in Image
  BY DEF Empty
<1>1. ASSUME NEW e \in Edit, Read(e) PROVE TypeOK'
  <2> USE <1>1 DEF Read
  <2>1. change' \in [Edit -> [key : Setting, value : Value, version : Nat]]
    <3> DEFINE seen == [change[e] EXCEPT !.version = stored[change[e].key].version]
    <3>1. change[e] \in [key : Setting, value : Value, version : Nat]
      OBVIOUS
    <3>2. stored[change[e].key].version \in Nat
      BY <3>1
    <3>3. seen \in [key : Setting, value : Value, version : Nat]
      BY <3>1, <3>2
    <3>4. change' = [change EXCEPT ![e] = seen]
      OBVIOUS
    <3> HIDE DEF seen
    <3> QED BY <3>3, <3>4
  <2>2. phase' \in [Edit -> Phases] /\ writes' \subseteq Flushed'
    OBVIOUS
  <2> QED BY <2>1, <2>2
<1>2. ASSUME NEW e \in Edit, Flush(e) PROVE TypeOK'
  <2>1. writes' \subseteq Flushed'
    <3>1. CASE IsStale(e)
      BY <1>2, <3>1 DEF Flush
    <3>2. CASE ~IsStale(e)
      BY <1>2, <3>2 DEF Flush
    <3> QED BY <3>1, <3>2
  <2>2. phase' \in [Edit -> Phases]
    BY <1>2 DEF Flush
  <2> QED BY <1>2, <2>1, <2>2 DEF Flush
<1>3. ASSUME NEW e \in Edit, ReadValues(e) PROVE TypeOK'
  <2>1. ImageOf(e) \in Image
    BY DEF ImageOf, Committed
  <2> QED BY <1>3, <2>1 DEF ReadValues
<1>4. ASSUME NEW e \in Edit, Record(e) PROVE TypeOK'
  <2>1. IsFiniteSet({f \in Edit : mint[f] > 0})
    BY BoundAssumption, FS_Subset
  <2>2. Cardinality({f \in Edit : mint[f] > 0}) \in Nat
    BY <2>1, FS_CardinalityType
  <2>3. mint' \in [Edit -> Nat]
    BY <1>4, <2>2 DEF Record
  <2> QED BY <1>4, <2>3 DEF Record
<1>5. ASSUME NEW e \in Edit, Commit(e) PROVE TypeOK'
  <2>1. stored' \in [Setting -> Row]
    BY <1>5 DEF Commit
  <2> QED BY <1>5, <2>1 DEF Commit
<1>6. ASSUME NEW e \in Edit, Rollback(e) PROVE TypeOK'
  BY <1>6, BoundAssumption DEF Rollback
<1>7. ASSUME NEW i \in Instance, Boot(i) PROVE TypeOK'
  <2> PICK seeds \in BOOLEAN, reads \in BOOLEAN : Boot(i)!(seeds, reads)
    BY <1>7 DEF Boot
  <2>1. stored' \in [Setting -> Row]
    BY DefaultIsValue DEF Seeded
  <2>2. raw' \in [Instance -> Image]
    BY <2>1, <1>0
  <2>3. faults' \in 0..MaxFaults
    BY BoundAssumption
  <2> QED BY <2>1, <2>2, <2>3
<1>8. ASSUME NEW i \in Instance, Exit(i) PROVE TypeOK'
  BY <1>8, <1>0, BoundAssumption DEF Exit
<1>9. ASSUME NEW i \in Instance, Fetch(i) PROVE TypeOK'
  BY <1>9 DEF Fetch, Unapplied, Facts
<1>10. ASSUME NEW i \in Instance, Reload(i) PROVE TypeOK'
  <2>1. PICK e \in FirstOf(todo[i]) : Reload(i)!(e)
    BY <1>10 DEF Reload
  <2>2. e \in todo[i] /\ e \in Edit
    BY DEF FirstOf
  <2> QED BY <2>1, <2>2
<1>11. CASE UNCHANGED vars
  BY <1>11 DEF vars
<1> QED
  BY <1>1, <1>2, <1>3, <1>4, <1>5, <1>6, <1>7, <1>8, <1>9, <1>10, <1>11
  DEF Next, Request, Process

LEMMA InitTyped == Init => TypeOK
<1> SUFFICES ASSUME Init PROVE TypeOK
  OBVIOUS
<1> USE DEF Init
<1>1. change \in [Edit -> [key : Setting, value : Value, version : Nat]]
  OBVIOUS
<1>2. stored \in [Setting -> Row] /\ phase \in [Edit -> Phases]
  BY DEF Row, Phases
<1>3. image \in [Edit -> Image] /\ raw \in [Instance -> Image]
  BY DEF Image, Empty
<1>4. overlapped \in BOOLEAN
  BY Zenon
<1>5. faults \in 0..MaxFaults
  BY BoundAssumption
<1> QED
  BY <1>1, <1>2, <1>3, <1>4, <1>5 DEF TypeOK, Flushed

(* Every variable of Settings has its type, in every behaviour.             *)
THEOREM TypeCorrect == Spec => []TypeOK
BY InitTyped, TypeInductive, PTL DEF Spec

-----------------------------------------------------------------------------
(* The lock is taken at the version the request read, by one request at a   *)
(* time; only its holder, or the seed of a row nobody inserts, moves the    *)
(* version.                                                                 *)
LEMMA LockInductive == TypeOK /\ NoLostUpdate /\ [Next]_vars => NoLostUpdate'
<1> SUFFICES ASSUME TypeOK, NoLostUpdate, [Next]_vars,
                    NEW e \in writes', NEW f \in writes'
             PROVE  /\ stored'[change'[e].key].version = change'[e].version
                    /\ change'[f].key = change'[e].key => f = e
  BY DEF NoLostUpdate
<1> USE DEF requests, copies, Without
<1>0. TypeOK'
  BY TypeInductive
<1>k. /\ e \in Edit /\ f \in Edit
      /\ change[e].key \in Setting /\ change[f].key \in Setting
  BY <1>0 DEF TypeOK, Flushed
<1>s. CASE /\ stored' = stored /\ change' = change
           /\ writes' \subseteq writes
  BY <1>s DEF NoLostUpdate
<1>1. ASSUME NEW g \in Edit, Read(g)
      PROVE  /\ stored' = stored /\ writes' = writes
             /\ change'[e] = change[e] /\ change'[f] = change[f]
  <2>1. g \notin writes
    BY <1>1 DEF Read, TypeOK, Flushed
  <2> QED BY <1>1, <2>1, <1>k DEF Read, TypeOK
<1>2. ASSUME NEW g \in Edit, Flush(g)
      PROVE  /\ stored'[change'[e].key].version = change'[e].version
             /\ change'[f].key = change'[e].key => f = e
  <2>1. CASE IsStale(g)
    BY <1>2, <2>1, <1>s DEF Flush
  <2>2. CASE ~IsStale(g)
    BY <1>2, <2>2 DEF Flush, IsStale, Locked, NoLostUpdate
  <2> QED BY <2>1, <2>2
<1>3. ASSUME NEW g \in Edit, Commit(g)
      PROVE  /\ stored'[change'[e].key].version = change'[e].version
             /\ change'[f].key = change'[e].key => f = e
  <2>1. e \in writes /\ e # g /\ f \in writes /\ change' = change
    BY <1>3 DEF Commit
  <2>2. ~(g \in writes /\ change[e].key = change[g].key)
    BY <2>1 DEF NoLostUpdate
  <2>3. stored'[change[e].key] = stored[change[e].key]
    BY <1>3, <2>2, <1>k DEF Commit
  <2> QED BY <2>1, <2>3 DEF NoLostUpdate
<1>4. ASSUME NEW i \in Instance, Boot(i)
      PROVE  /\ stored'[change'[e].key].version = change'[e].version
             /\ change'[f].key = change'[e].key => f = e
  <2>1. writes' = writes /\ change' = change
    BY <1>4 DEF Boot
  <2>2. Locked(change[e].key)
    BY <2>1 DEF Locked
  <2>3. stored'[change[e].key] = stored[change[e].key]
    BY <1>4, <2>2, <1>k DEF Boot, Seeded
  <2> QED BY <2>1, <2>3 DEF NoLostUpdate
<1> QED
  BY <1>s, <1>1, <1>2, <1>3, <1>4
  DEF Next, Request, Process, ReadValues, Record, Rollback, Exit, Fetch,
      Reload, vars, NoLostUpdate

(* No edit overwrites a value its request has not read, however many edits  *)
(* are open and whatever fails.                                             *)
THEOREM NoUpdateIsLost == Spec => []NoLostUpdate
<1>1. Init => NoLostUpdate
  BY DEF Init, NoLostUpdate
<1> QED BY <1>1, TypeCorrect, LockInductive, PTL DEF Spec

-----------------------------------------------------------------------------
(* What makes an instance that applied all there is serve what is stored.   *)

(* A row has a value from its first version on.                             *)
VersionsTell == \A k \in Setting : stored[k].version = 0 <=> stored[k].value = NoValue

Minted == {f \in Edit : mint[f] > 0}

(* A fact's key is minted once, after those of all the earlier ones.        *)
Ranked ==
  /\ \A e \in Edit : phase[e] \in {"none", "read", "flushed", "imaged"} => mint[e] = 0
  /\ \A e \in Edit : phase[e] \in {"recorded", "committed"} => mint[e] > 0
  /\ \A e \in Edit : mint[e] <= Cardinality(Minted)
  /\ \A e \in Minted, f \in Minted : mint[e] = mint[f] => e = f

(* While edits come one at a time, their facts are committed in the order   *)
(* of their keys.                                                           *)
InTurn ==
  ~overlapped =>
    /\ \A e \in Open, f \in Open : e = f
    /\ \A e \in Edit, f \in Facts : phase[e] = "recorded" => mint[f] < mint[e]

Latest(e) == e \in Facts /\ \A f \in Facts : mint[f] <= mint[e]

(* And then a fact carries what its commit leaves, but for rows that a boot *)
(* gives the default they are read as.                                      *)
Imaged ==
  ~overlapped =>
    /\ \A e \in Flushed \ writes : stored[change[e].key].value = change[e].value
    /\ \A e \in Edit : phase[e] \in {"imaged", "recorded"} => Typed(image[e]) = Typed(ImageOf(e))
    /\ \A e \in Edit : Latest(e) => Typed(image[e]) = Typed(Committed)
    /\ Facts = {} => Typed(Committed) = Typed(Empty)

(* An instance applies the facts in the order of their keys.                *)
InOrder(i) ==
  /\ applied[i] \subseteq Facts /\ todo[i] \subseteq Facts \ applied[i]
  /\ i \notin up => applied[i] = {} /\ todo[i] = {}
  /\ ~overlapped =>
       /\ \A a \in applied[i], u \in Facts \ applied[i] : mint[a] < mint[u]
       /\ \A t \in todo[i], u \in (Facts \ applied[i]) \ todo[i] : mint[t] < mint[u]
       /\ CaughtUp(i) => Serves(i)

FreshInv == VersionsTell /\ Ranked /\ InTurn /\ Imaged /\ \A i \in Instance : InOrder(i)

LEMMA FreshInit == Init => FreshInv
<1> SUFFICES ASSUME Init PROVE FreshInv
  OBVIOUS
<1> USE DEF Init
<1>1. VersionsTell /\ Facts = {} /\ Open = {} /\ Flushed = {} /\ Committed = Empty
  BY DEF VersionsTell, Facts, Open, Flushed, Committed, Empty
<1>2. Ranked
  <2>1. Minted = {} /\ Cardinality({}) = 0
    BY FS_EmptySet DEF Minted
  <2> QED
    BY <2>1 DEF Ranked
<1>3. InTurn /\ Imaged
  BY <1>1 DEF InTurn, Imaged, Latest
<1>4. \A i \in Instance : InOrder(i)
  BY <1>1 DEF InOrder, CaughtUp, Serves
<1> QED
  BY <1>1, <1>2, <1>3, <1>4 DEF FreshInv

(* A request that reads is alone, or edits overlap from now on.              *)
LEMMA ReadFresh ==
  ASSUME TypeOK, FreshInv, NEW e \in Edit, Read(e)
  PROVE  FreshInv'
<1>1. /\ phase[e] = "none" /\ phase'[e] \in {"flushed", "read"}
      /\ \A f \in Edit \ {e} : phase'[f] = phase[f] /\ change'[f] = change[f]
      /\ change'[e].key = change[e].key /\ change'[e].value = change[e].value
      /\ change[e].key \in Setting
      /\ phase'[e] = "flushed" => stored[change[e].key].value = change[e].value
      /\ UNCHANGED <<stored, writes, image, mint, up, raw, applied, todo>>
      /\ ~overlapped' => ~overlapped /\ Open = {}
  BY DEF Read, TypeOK, copies
<1>2. Facts' = Facts /\ Open' \subseteq Open \cup {e} /\ Flushed' \subseteq Flushed \cup {e}
  BY <1>1 DEF Facts, Open, Flushed
<1>3. VersionsTell' /\ Ranked'
  BY <1>1 DEF FreshInv, VersionsTell, Ranked, Minted
<1>4. InTurn'
  BY <1>1, <1>2 DEF FreshInv, InTurn, Facts
<1>5. Imaged'
  <2> SUFFICES ASSUME ~overlapped'
               PROVE  Imaged!2'
    BY DEF Imaged
  <2>1. Committed' = Committed
    BY <1>1 DEF Committed
  <2>2. \A f \in Edit : change'[f].key = change[f].key /\ change'[f].value = change[f].value
    BY <1>1
  <2>3. \A f \in Edit : ImageOf(f)' = ImageOf(f)
    BY <2>1, <2>2 DEF ImageOf
  <2>4. \A f \in Flushed' \ writes' : stored'[change'[f].key].value = change'[f].value
    BY <1>1, <1>2, <2>2 DEF FreshInv, Imaged, Flushed
  <2>5. \A f \in Edit : phase'[f] \in {"imaged", "recorded"} => Typed(image'[f]) = Typed(ImageOf(f)')
    BY <1>1, <2>3 DEF FreshInv, Imaged
  <2> QED
    BY <1>1, <1>2, <2>1, <2>4, <2>5 DEF FreshInv, Imaged, Latest
<1>6. \A i \in Instance : InOrder(i)'
  BY <1>1, <1>2 DEF FreshInv, InOrder, CaughtUp, Serves, Committed
<1> QED
  BY <1>3, <1>4, <1>5, <1>6 DEF FreshInv

(* What a step leaves to an instance when it commits nothing and stores       *)
(* nothing.                                                                  *)
LEMMA QuietOrder ==
  ASSUME FreshInv, UNCHANGED <<stored, mint, overlapped, up, raw, applied, todo>>, Facts' = Facts
  PROVE  \A i \in Instance : InOrder(i)'
BY DEF FreshInv, InOrder, CaughtUp, Serves, Committed

LEMMA FlushFresh ==
  ASSUME TypeOK, FreshInv, NEW e \in Edit, Flush(e)
  PROVE  FreshInv'
<1>1. /\ phase[e] = "read" /\ phase'[e] \in {"refused", "flushed"}
      /\ \A f \in Edit \ {e} : phase'[f] = phase[f]
      /\ writes \subseteq writes' /\ (phase'[e] = "flushed" => e \in writes')
      /\ UNCHANGED <<stored, change, image, mint, overlapped, up, raw, applied, todo>>
  BY DEF Flush, TypeOK, copies
<1>2. Facts' = Facts /\ Open' \subseteq Open /\ Flushed' \ writes' \subseteq Flushed \ writes
  BY <1>1 DEF Facts, Open, Flushed
<1>3. VersionsTell' /\ Ranked'
  BY <1>1 DEF FreshInv, VersionsTell, Ranked, Minted
<1>4. InTurn'
  BY <1>1, <1>2 DEF FreshInv, InTurn
<1>5. Imaged'
  BY <1>1, <1>2 DEF FreshInv, Imaged, Latest, Committed, ImageOf
<1> QED
  BY <1>1, <1>2, <1>3, <1>4, <1>5, QuietOrder DEF FreshInv

LEMMA ReadValuesFresh ==
  ASSUME TypeOK, FreshInv, NEW e \in Edit, ReadValues(e)
  PROVE  FreshInv'
<1>1. /\ phase[e] = "flushed" /\ phase'[e] = "imaged" /\ image'[e] = ImageOf(e)
      /\ \A f \in Edit \ {e} : phase'[f] = phase[f] /\ image'[f] = image[f]
      /\ UNCHANGED <<stored, change, writes, mint, overlapped, up, raw, applied, todo>>
  BY DEF ReadValues, TypeOK, copies
<1>2. Facts' = Facts /\ Open' = Open /\ Flushed' = Flushed
  BY <1>1 DEF Facts, Open, Flushed
<1>3. VersionsTell' /\ Ranked'
  BY <1>1 DEF FreshInv, VersionsTell, Ranked, Minted
<1>4. InTurn'
  BY <1>1, <1>2 DEF FreshInv, InTurn
<1>5. Committed' = Committed /\ \A f : ImageOf(f)' = ImageOf(f)
  BY <1>1 DEF Committed, ImageOf
<1>6. Imaged'
  <2>1. \A f \in Facts : f # e
    BY <1>1 DEF Facts
  <2> QED
    BY <1>1, <1>2, <1>5, <2>1 DEF FreshInv, Imaged, Latest
<1> QED
  BY <1>1, <1>2, <1>3, <1>4, <1>6, QuietOrder DEF FreshInv

LEMMA MintedFinite == IsFiniteSet(Minted) /\ Cardinality(Minted) \in Nat
BY BoundAssumption, FS_Subset, FS_CardinalityType DEF Minted

LEMMA RecordFresh ==
  ASSUME TypeOK, FreshInv, NEW e \in Edit, Record(e)
  PROVE  FreshInv'
<1> DEFINE n == 1 + Cardinality(Minted)
<1>1. /\ phase[e] = "imaged" /\ phase'[e] = "recorded" /\ mint[e] = 0
      /\ mint \in [Edit -> Nat] /\ mint' = [mint EXCEPT ![e] = n]
      /\ \A f \in Edit \ {e} : phase'[f] = phase[f]
      /\ UNCHANGED <<stored, change, writes, image, overlapped, up, raw, applied, todo>>
  BY DEF Record, Minted, TypeOK, copies, FreshInv, Ranked
<1>2. Facts' = Facts /\ Open' = Open /\ Flushed' = Flushed /\ e \notin Facts
  BY <1>1 DEF Facts, Open, Flushed
<1>3. n \in Nat /\ n > 0 /\ \A f \in Edit : mint[f] < n
  BY <1>1, MintedFinite DEF FreshInv, Ranked
<1>4. Minted' = Minted \cup {e} /\ e \notin Minted
  BY <1>1, <1>3 DEF Minted
<1>5. Cardinality(Minted') = n
  BY <1>4, MintedFinite, FS_AddElement
<1> HIDE DEF n
<1>6. mint'[e] = n /\ \A f \in Edit \ {e} : mint'[f] = mint[f]
  BY <1>1
<1>7. VersionsTell' /\ Ranked'
  <2>1. \A f \in Edit : mint'[f] <= Cardinality(Minted')
    BY <1>1, <1>3, <1>5, <1>6
  <2>2. \A f \in Minted', g \in Minted' : mint'[f] = mint'[g] => f = g
    <3>1. \A f \in Minted : mint'[f] = mint[f] /\ mint'[f] # n
      <4>1. \A f \in Minted : f \in Edit \ {e} /\ mint[f] \in Nat
        BY <1>1, <1>4 DEF Minted
      <4> QED
        BY <1>3, <1>6, <4>1
    <3>2. \A f \in Minted, g \in Minted : mint[f] = mint[g] => f = g
      BY DEF FreshInv, Ranked
    <3> QED
      BY <1>4, <1>6, <3>1, <3>2
  <2> QED
    BY <1>1, <1>3, <1>6, <2>1, <2>2 DEF FreshInv, VersionsTell, Ranked
<1>8. \A f \in Facts : f \in Edit /\ mint'[f] = mint[f] /\ mint[f] < n
  BY <1>2, <1>3, <1>6 DEF Facts
<1>9. InTurn'
  BY <1>1, <1>2, <1>6, <1>8 DEF FreshInv, InTurn
<1>10. Imaged'
  <2>1. Committed' = Committed /\ \A f : ImageOf(f)' = ImageOf(f)
    BY <1>1 DEF Committed, ImageOf
  <2>2. \A f \in Edit : Latest(f)' => Latest(f)
    BY <1>2, <1>8 DEF Latest
  <2> QED
    BY <1>1, <1>2, <2>1, <2>2 DEF FreshInv, Imaged
<1>11. \A i \in Instance : InOrder(i)'
  BY <1>1, <1>2, <1>8 DEF FreshInv, InOrder, CaughtUp, Serves, Committed
<1> QED
  BY <1>7, <1>9, <1>10, <1>11 DEF FreshInv

(* A commit leaves what its fact carries, and its fact is the latest.        *)
LEMMA CommitFresh ==
  ASSUME TypeOK, FreshInv, NEW e \in Edit, Commit(e)
  PROVE  FreshInv'
<1> DEFINE k == change[e].key
<1>1. /\ phase[e] = "recorded" /\ phase'[e] = "committed"
      /\ \A f \in Edit \ {e} : phase'[f] = phase[f]
      /\ writes' = writes \ {e}
      /\ UNCHANGED <<change, image, mint, overlapped, up, raw, applied, todo>>
      /\ k \in Setting /\ change[e].value \in Value /\ e \in Flushed /\ e \in Open
  BY DEF Commit, Without, TypeOK, copies, Flushed, Open
<1>2. Facts' = Facts \cup {e} /\ e \notin Facts /\ Open' = Open \ {e} /\ Flushed' = Flushed \ {e}
  BY <1>1 DEF Facts, Open, Flushed
<1>3. stored' = [j \in Setting |->
                   IF e \in writes /\ j = k
                   THEN [value |-> change[e].value, version |-> stored[j].version + 1]
                   ELSE stored[j]]
  BY DEF Commit
<1>4. \A j \in Setting : stored[j].version \in Nat
  BY DEF TypeOK, Row
<1> HIDE DEF k
<1>5. VersionsTell'
  <2> SUFFICES ASSUME NEW j \in Setting
               PROVE  stored'[j].version = 0 <=> stored'[j].value = NoValue
    BY DEF VersionsTell
  <2>1. CASE e \in writes /\ j = k
    BY <1>1, <1>3, <1>4, <2>1, ValueAssumption
  <2>2. CASE ~(e \in writes /\ j = k)
    BY <1>3, <2>2 DEF FreshInv, VersionsTell
  <2> QED
    BY <2>1, <2>2
<1>6. Ranked'
  BY <1>1 DEF FreshInv, Ranked, Minted
<1>7. InTurn'
  BY <1>1, <1>2 DEF FreshInv, InTurn, Open, Flushed
<1>8. ASSUME ~overlapped
      PROVE  Committed' = ImageOf(e) /\ Typed(image[e]) = Typed(Committed')
  <2>1. e \notin writes => stored[k].value = change[e].value
    BY <1>1, <1>8 DEF FreshInv, Imaged, k
  <2>2. \A j \in Setting : stored'[j].value = IF j = k THEN change[e].value ELSE stored[j].value
    BY <1>3, <2>1
  <2>3. Committed' = ImageOf(e)
    BY <2>2 DEF Committed, ImageOf, k
  <2> QED
    BY <1>1, <1>8, <2>3 DEF FreshInv, Imaged
<1>9. ASSUME ~overlapped PROVE Open' = {} /\ \A f \in Facts : mint[f] < mint[e]
  BY <1>1, <1>2, <1>9 DEF FreshInv, InTurn
<1>10. \A f \in Facts' : f \in Edit /\ mint[f] \in Nat
  BY DEF Facts, TypeOK
<1>11. Imaged'
  <2> SUFFICES ASSUME ~overlapped PROVE Imaged!2'
    BY <1>1 DEF Imaged
  <2>1. Flushed' = {} /\ \A f \in Edit : phase'[f] \notin {"imaged", "recorded"}
    BY <1>9 DEF Open, Flushed
  <2>2. \A f \in Edit : Latest(f)' => f = e
    BY <1>1, <1>2, <1>9, <1>10 DEF Latest
  <2> QED
    BY <1>1, <1>2, <1>8, <2>1, <2>2
<1>12. \A i \in Instance : InOrder(i)'
  <2> SUFFICES ASSUME NEW i \in Instance PROVE InOrder(i)'
    OBVIOUS
  <2>1. /\ applied[i] \subseteq Facts /\ todo[i] \subseteq Facts \ applied[i]
        /\ i \notin up => applied[i] = {} /\ todo[i] = {}
    BY DEF FreshInv, InOrder
  <2>2. e \notin applied[i] /\ ~ CaughtUp(i)'
    BY <1>1, <1>2, <2>1 DEF CaughtUp
  <2>3. ASSUME ~overlapped
        PROVE  /\ \A a \in applied[i], u \in Facts' \ applied[i] : mint[a] < mint[u]
               /\ \A t \in todo[i], u \in (Facts' \ applied[i]) \ todo[i] : mint[t] < mint[u]
    BY <1>2, <1>9, <2>1, <2>3 DEF FreshInv, InOrder
  <2> QED
    BY <1>1, <1>2, <2>1, <2>2, <2>3 DEF InOrder
<1> QED
  BY <1>5, <1>6, <1>7, <1>11, <1>12 DEF FreshInv

LEMMA RollbackFresh ==
  ASSUME TypeOK, FreshInv, NEW e \in Edit, Rollback(e)
  PROVE  FreshInv'
<1>1. /\ e \in Open /\ phase'[e] = "refused"
      /\ \A f \in Edit \ {e} : phase'[f] = phase[f]
      /\ writes' = writes \ {e}
      /\ UNCHANGED <<stored, change, image, mint, overlapped, up, raw, applied, todo>>
  BY DEF Rollback, Without, TypeOK, copies
<1>2. Facts' = Facts /\ Open' \subseteq Open /\ Flushed' \ writes' \subseteq Flushed \ writes
  BY <1>1 DEF Facts, Open, Flushed
<1>3. VersionsTell' /\ Ranked'
  BY <1>1 DEF FreshInv, VersionsTell, Ranked, Minted
<1>4. InTurn'
  BY <1>1, <1>2 DEF FreshInv, InTurn
<1>5. Imaged'
  BY <1>1, <1>2 DEF FreshInv, Imaged, Latest, Committed, ImageOf
<1> QED
  BY <1>1, <1>2, <1>3, <1>4, <1>5, QuietOrder DEF FreshInv

(* The default a boot gives a row is what the row was read as.               *)
LEMMA BootFresh ==
  ASSUME TypeOK, FreshInv, NEW i \in Instance, Boot(i)
  PROVE  FreshInv'
<1> PICK seeds \in BOOLEAN, reads \in BOOLEAN : Boot(i)!(seeds, reads)
  BY DEF Boot
<1>1. /\ i \notin up /\ up' = up \cup {i}
      /\ UNCHANGED <<phase, change, writes, image, mint, overlapped, applied, todo>>
      /\ raw'[i] = IF reads THEN Committed' ELSE Empty
      /\ \A j \in Instance \ {i} : raw'[j] = raw[j]
      /\ stored' = stored \/ stored' = Seeded
  BY DEF TypeOK, requests, Committed
<1>2. VersionsTell /\ \A j \in Setting : stored[j].version \in Nat
  BY DEF FreshInv, TypeOK, Row
<1>3. \A k \in Setting : \/ stored'[k] = stored[k]
                         \/ /\ stored[k].value = NoValue
                            /\ stored'[k] = [value |-> Default, version |-> 1]
  BY <1>1, <1>2 DEF Seeded, VersionsTell
<1>4. Default # NoValue /\ \A e \in Edit : change[e].value # NoValue /\ change[e].key \in Setting
  BY ValueAssumption DEF TypeOK
<1>5. VersionsTell'
  BY <1>2, <1>3, <1>4 DEF VersionsTell
<1>6. Facts' = Facts /\ Open' = Open /\ Flushed' = Flushed
  BY <1>1 DEF Facts, Open, Flushed
<1>7. Typed(Committed') = Typed(Committed)
  BY <1>3 DEF Typed, Committed
<1>8. \A e \in Edit : Typed(ImageOf(e)') = Typed(ImageOf(e))
  <2> SUFFICES ASSUME NEW e \in Edit, NEW k \in Setting
               PROVE  (IF ImageOf(e)'[k] = NoValue THEN Default ELSE ImageOf(e)'[k])
                        = (IF ImageOf(e)[k] = NoValue THEN Default ELSE ImageOf(e)[k])
    BY DEF Typed
  <2>1. /\ ImageOf(e)[k] = IF k = change[e].key THEN change[e].value ELSE stored[k].value
        /\ ImageOf(e)'[k] = IF k = change[e].key THEN change[e].value ELSE stored'[k].value
    BY <1>1 DEF ImageOf, Committed
  <2> QED
    BY <1>3, <2>1
<1>9. Ranked' /\ InTurn'
  BY <1>1, <1>6 DEF FreshInv, Ranked, Minted, InTurn
<1>10. Imaged'
  <2>1. ~overlapped =>
          \A e \in Flushed' \ writes' : stored'[change'[e].key].value = change'[e].value
    <3> SUFFICES ASSUME ~overlapped, NEW e \in Flushed \ writes
                 PROVE  stored'[change[e].key].value = change[e].value
      BY <1>1, <1>6
    <3>1. e \in Edit /\ stored[change[e].key].value = change[e].value
      BY DEF FreshInv, Imaged, Flushed
    <3> QED
      BY <1>3, <1>4, <3>1
  <2> QED
    BY <1>1, <1>6, <1>7, <1>8, <2>1 DEF FreshInv, Imaged, Latest
<1>11. \A j \in Instance : InOrder(j)'
  <2>1. ASSUME NEW j \in Instance \ {i} PROVE InOrder(j)'
    BY <1>1, <1>6, <1>7 DEF FreshInv, InOrder, CaughtUp, Serves
  <2>2. InOrder(i)'
    <3>1. applied[i] = {} /\ todo[i] = {}
      BY <1>1 DEF FreshInv, InOrder
    <3>2. ~overlapped /\ Facts = {} => Typed(raw'[i]) = Typed(Committed')
      BY <1>1, <1>7 DEF FreshInv, Imaged
    <3> QED
      BY <1>1, <1>6, <3>1, <3>2 DEF InOrder, CaughtUp, Serves
  <2> QED
    BY <2>1, <2>2
<1> QED
  BY <1>5, <1>9, <1>10, <1>11 DEF FreshInv

(* A step of one instance that touches neither the rows nor the edits.       *)
LEMMA InstanceQuiet ==
  ASSUME FreshInv, NEW i \in Instance, UNCHANGED <<stored, requests>>,
         \A j \in Instance \ {i} :
           /\ raw'[j] = raw[j] /\ applied'[j] = applied[j] /\ todo'[j] = todo[j]
           /\ j \in up' <=> j \in up,
         InOrder(i)'
  PROVE  FreshInv'
<1>1. UNCHANGED <<phase, change, writes, image, mint, overlapped>>
  BY DEF requests
<1>2. Facts' = Facts /\ Open' = Open /\ Flushed' = Flushed /\ Committed' = Committed
      /\ \A e : ImageOf(e)' = ImageOf(e)
  BY <1>1 DEF Facts, Open, Flushed, Committed, ImageOf
<1>3. VersionsTell' /\ Ranked' /\ InTurn' /\ Imaged'
  BY <1>1, <1>2 DEF FreshInv, VersionsTell, Ranked, Minted, InTurn, Imaged, Latest
<1>4. \A j \in Instance \ {i} : InOrder(j)'
  BY <1>1, <1>2 DEF FreshInv, InOrder, CaughtUp, Serves
<1> QED
  BY <1>3, <1>4 DEF FreshInv

LEMMA ExitFresh ==
  ASSUME TypeOK, FreshInv, NEW i \in Instance, Exit(i)
  PROVE  FreshInv'
<1>1. /\ applied'[i] = {} /\ todo'[i] = {} /\ i \notin up'
      /\ \A j \in Instance \ {i} :
           /\ raw'[j] = raw[j] /\ applied'[j] = applied[j] /\ todo'[j] = todo[j]
           /\ j \in up' <=> j \in up
      /\ UNCHANGED <<stored, requests>>
  BY DEF Exit, TypeOK
<1>2. InOrder(i)'
  BY <1>1 DEF InOrder, CaughtUp
<1> QED
  BY <1>1, <1>2, InstanceQuiet

LEMMA FetchFresh ==
  ASSUME TypeOK, FreshInv, NEW i \in Instance, Fetch(i)
  PROVE  FreshInv'
<1>1. /\ i \in up /\ todo'[i] = Facts \ applied[i]
      /\ \A j \in Instance \ {i} :
           /\ raw'[j] = raw[j] /\ applied'[j] = applied[j] /\ todo'[j] = todo[j]
           /\ j \in up' <=> j \in up
      /\ UNCHANGED <<stored, requests, up, raw, applied>>
  BY DEF Fetch, Unapplied, TypeOK
<1>2. Facts' = Facts /\ Committed' = Committed /\ UNCHANGED <<mint, overlapped>>
  BY <1>1 DEF requests, Facts, Committed
<1>3. InOrder(i)'
  BY <1>1, <1>2 DEF FreshInv, InOrder, CaughtUp, Serves
<1> QED
  BY <1>1, <1>3, InstanceQuiet

(* The last fact applied is the latest there is.                             *)
LEMMA ReloadFresh ==
  ASSUME TypeOK, FreshInv, NEW i \in Instance, Reload(i)
  PROVE  FreshInv'
<1>1. PICK e \in FirstOf(todo[i]) : Reload(i)!(e)
  BY DEF Reload
<1>2. /\ i \in up /\ raw'[i] = image[e] /\ todo'[i] = todo[i] \ {e}
      /\ applied'[i] = applied[i] \cup {e}
      /\ \A j \in Instance \ {i} :
           /\ raw'[j] = raw[j] /\ applied'[j] = applied[j] /\ todo'[j] = todo[j]
           /\ j \in up' <=> j \in up
      /\ UNCHANGED <<stored, requests, up>>
  BY <1>1 DEF TypeOK
<1>3. Facts' = Facts /\ Committed' = Committed /\ UNCHANGED <<mint, overlapped>>
  BY <1>2 DEF requests, Facts, Committed
<1>4. /\ e \in todo[i] /\ e \in Facts \ applied[i] /\ \A f \in todo[i] : mint[e] <= mint[f]
      /\ applied[i] \subseteq Facts /\ todo[i] \subseteq Facts \ applied[i]
  BY DEF FreshInv, InOrder, FirstOf
<1>5. \A f \in Facts : f \in Minted /\ mint[f] \in Nat
  BY DEF Facts, Minted, FreshInv, Ranked, TypeOK
<1>6. \A f \in todo[i] \ {e} : mint[e] < mint[f]
  <2> SUFFICES ASSUME NEW f \in todo[i], f # e PROVE mint[e] < mint[f]
    OBVIOUS
  <2>1. e \in Minted /\ f \in Minted /\ mint[e] \in Nat /\ mint[f] \in Nat /\ mint[e] <= mint[f]
    BY <1>4, <1>5
  <2>2. mint[e] # mint[f]
    BY <2>1 DEF FreshInv, Ranked
  <2> QED
    BY <2>1, <2>2
<1>7. ASSUME ~overlapped
      PROVE  /\ \A u \in Facts \ (applied[i] \cup {e}) : mint[e] < mint[u]
             /\ \A a \in applied[i], u \in Facts \ applied[i] : mint[a] < mint[u]
             /\ \A t \in todo[i], u \in (Facts \ applied[i]) \ todo[i] : mint[t] < mint[u]
  <2>1. /\ \A a \in applied[i], u \in Facts \ applied[i] : mint[a] < mint[u]
        /\ \A t \in todo[i], u \in (Facts \ applied[i]) \ todo[i] : mint[t] < mint[u]
    BY <1>7 DEF FreshInv, InOrder
  <2> QED
    BY <1>4, <1>6, <2>1
<1>8. ASSUME ~overlapped, Facts \subseteq applied[i] \cup {e}
      PROVE  Typed(raw'[i]) = Typed(Committed)
  <2>1. \A f \in Facts : mint[f] <= mint[e]
    BY <1>4, <1>5, <1>7, <1>8
  <2>2. Latest(e) /\ e \in Edit
    BY <1>4, <2>1 DEF Latest, Facts
  <2> QED
    BY <1>2, <1>8, <2>2 DEF FreshInv, Imaged
<1>9. InOrder(i)'
  BY <1>2, <1>3, <1>4, <1>7, <1>8 DEF InOrder, CaughtUp, Serves
<1> QED
  BY <1>2, <1>9, InstanceQuiet

LEMMA FreshInductive == TypeOK /\ FreshInv /\ [Next]_vars => FreshInv'
<1> SUFFICES ASSUME TypeOK, FreshInv, [Next]_vars PROVE FreshInv'
  OBVIOUS
<1>1. CASE UNCHANGED vars
  <2>1. UNCHANGED <<stored, phase, change, writes, image, mint, overlapped, up, raw, applied, todo>>
    BY <1>1 DEF vars, requests, copies
  <2>2. Facts' = Facts /\ Open' = Open /\ Flushed' = Flushed /\ Committed' = Committed
        /\ \A e : ImageOf(e)' = ImageOf(e)
    BY <2>1 DEF Facts, Open, Flushed, Committed, ImageOf
  <2> QED
    BY <2>1, <2>2, QuietOrder
       DEF FreshInv, VersionsTell, Ranked, Minted, InTurn, Imaged, Latest
<1>2. ASSUME NEW e \in Edit, Request(e) PROVE FreshInv'
  BY <1>2, ReadFresh, FlushFresh, ReadValuesFresh, RecordFresh, CommitFresh, RollbackFresh
     DEF Request
<1>3. ASSUME NEW i \in Instance, Process(i) PROVE FreshInv'
  BY <1>3, BootFresh, ExitFresh, FetchFresh, ReloadFresh DEF Process
<1> QED
  BY <1>1, <1>2, <1>3 DEF Next

(* Until two edits are open at once, an instance that has applied every fact *)
(* serves what is stored, whatever booted, failed or replayed meanwhile.     *)
THEOREM CaughtUpIsFresh ==
  Spec => [](\A i \in Instance : CaughtUp(i) /\ ~overlapped => Serves(i))
<1>1. TypeOK /\ FreshInv => \A i \in Instance : CaughtUp(i) /\ ~overlapped => Serves(i)
  BY DEF FreshInv, InOrder
<1> QED
  BY <1>1, InitTyped, FreshInit, TypeInductive, FreshInductive, PTL DEF Spec

-----------------------------------------------------------------------------
(* The overrides.                                                            *)

Stored == Value \cup {NoValue}

OrgTypes ==
  /\ override \in [Slots -> Row]
  /\ visit \in [OrgRequest -> [slot : Slots, value : Stored, row : Row] \cup {NoValue}]
  /\ said \in [Slots -> [value : Stored, idle : BOOLEAN]]
  /\ standing \subseteq Org

OverridesTold == \A s \in Slots : s[2] \in standing => Told(s, override[s].value)

LEMMA OrgInitTyped == OrgInit => OrgTypes /\ OverridesTold
BY DEF OrgInit, OrgTypes, OverridesTold, Told, NoRow, Unsaid, Row, Stored

LEMMA OrgStepTyped ==
  ASSUME OrgTypes, OverridesTold, OrgStep
  PROVE  OrgTypes' /\ OverridesTold' /\ UNCHANGED vars
<1> USE DEF OrgTypes
<1>1. ASSUME NEW r \in OrgRequest, CommitOverride(r)
      PROVE  OrgTypes' /\ OverridesTold' /\ UNCHANGED vars
  <2> DEFINE v == visit[r]
             fact == [value |-> v.value, idle |-> ~Writes(r)]
  <2>1. /\ visit[r] # NoValue
        /\ override' = IF Writes(r) THEN [override EXCEPT ![v.slot] = NextRow(r)] ELSE override
        /\ said' = [said EXCEPT ![v.slot] = fact]
        /\ visit' = [visit EXCEPT ![r] = NoValue]
        /\ UNCHANGED <<vars, standing, visits>>
    BY <1>1 DEF CommitOverride
  <2>2. v.slot \in Slots /\ v.value \in Stored /\ fact.value = v.value /\ fact.idle = ~Writes(r)
        /\ fact \in [value : Stored, idle : BOOLEAN]
    BY <2>1 DEF Writes
  <2>3. NextRow(r) \in Row /\ NextRow(r).value = v.value
    <3>1. override[v.slot].version \in Nat
      BY <2>2 DEF Row
    <3> QED
      BY <2>2, <3>1 DEF NextRow, NoRow, Row, Stored
  <2> HIDE DEF v, fact
  <2>4. OrgTypes'
    BY <2>1, <2>2, <2>3
  <2>5. OverridesTold'
    <3> SUFFICES ASSUME NEW s \in Slots, s[2] \in standing
                 PROVE  said'[s].idle \/ said'[s].value = override'[s].value
      BY <2>1 DEF OverridesTold, Told
    <3>1. CASE s = v.slot
      BY <2>1, <2>2, <2>3, <3>1
    <3>2. CASE s # v.slot
      BY <2>1, <2>2, <3>2 DEF OverridesTold, Told
    <3> QED
      BY <3>1, <3>2
  <2> QED
    BY <2>1, <2>4, <2>5
<1>2. ASSUME NEW r \in OrgRequest, AbandonOverride(r)
      PROVE  OrgTypes' /\ OverridesTold' /\ UNCHANGED vars
  BY <1>2 DEF AbandonOverride, OverridesTold, Told
<1>3. ASSUME NEW r \in OrgRequest, NEW s \in Slots, NEW v \in Stored, Begin(r, s, v)
      PROVE  OrgTypes' /\ OverridesTold' /\ UNCHANGED vars
  <2> DEFINE new == [slot |-> s, value |-> v, row |-> override[s]]
  <2>1. new \in [slot : Slots, value : Stored, row : Row]
    OBVIOUS
  <2>2. visit' = [visit EXCEPT ![r] = new] /\ UNCHANGED <<vars, override, said, standing>>
    BY <1>3 DEF Begin
  <2> HIDE DEF new
  <2> QED
    BY <2>1, <2>2 DEF OverridesTold, Told
<1>4. ASSUME NEW r \in OrgRequest, NEW s \in Slots,
             RemoveOverride(r, s) \/ \E v \in Value : SetOverride(r, s, v)
      PROVE  \E v \in Stored : Begin(r, s, v)
  BY <1>4 DEF RemoveOverride, SetOverride, Stored
<1>5. ASSUME NEW o \in Org, DeleteOrg(o)
      PROVE  OrgTypes' /\ OverridesTold' /\ UNCHANGED vars
  <2>1. NoRow \in Row
    BY DEF NoRow, Row
  <2> QED
    BY <1>5, <2>1 DEF DeleteOrg, OverridesTold, Told
<1> QED
  BY <1>1, <1>2, <1>3, <1>4, <1>5 DEF OrgStep

(* What a request is given, where the copy of its process is what is stored. *)
LEMMA GivenWhatWasTold ==
  ASSUME OrgTypes, OverridesTold, TypeOK, FreshInv
  PROVE  OrgsGetWhatWasTold
<1> SUFFICES ASSUME NEW i \in Instance, NEW o \in standing, CaughtUp(i), ~overlapped
             PROVE  /\ Given(i, o, FALSE) = Page
                    /\ \A k \in Setting :
                         Given(i, o, TRUE)[k]
                           = IF <<k, o>> \in Listed THEN override[k, o].value ELSE Page[k]
  BY DEF OrgsGetWhatWasTold, OverridesTold
<1>1. Typed(raw[i]) = Page
  BY DEF FreshInv, InOrder, Serves, Page
<1>2. Given(i, o, FALSE) = Page
  BY <1>1 DEF Given
<1>3. ASSUME NEW k \in Setting
      PROVE  Given(i, o, TRUE)[k] = IF <<k, o>> \in Listed THEN override[k, o].value ELSE Page[k]
  <2>1. <<k, o>> \in Slots /\ (<<k, o>> \in Listed <=> override[k, o].value # NoValue)
    BY DEF OrgTypes, Slots, Listed
  <2>2. Given(i, o, TRUE)[k]
          = IF override[k, o].value = NoValue
            THEN Typed(raw[i])[k] ELSE override[k, o].value
    BY DEF Given, Merged, Typed
  <2> QED
    BY <1>1, <2>1, <2>2
<1> QED
  BY <1>2, <1>3

(* A member of an organization gets what was last told of its overrides, and *)
(* else what the console's page shows, on every instance that applied all    *)
(* there is; anyone else gets the page's values.                             *)
THEOREM OrgsAreServed == OrgSpec => []OrgsGetWhatWasTold
<1> DEFINE Inv == TypeOK /\ FreshInv /\ OrgTypes /\ OverridesTold
<1>1. OrgInit => Inv
  <2>1. Init => TypeOK
    BY InitTyped
  <2> QED
    BY <2>1, FreshInit, OrgInitTyped DEF OrgInit
<1>2. Inv /\ [OrgNext]_<<vars, orgVars>> => Inv'
  <2> SUFFICES ASSUME Inv, [OrgNext]_<<vars, orgVars>> PROVE Inv'
    OBVIOUS
  <2>1. CASE [Next]_vars /\ UNCHANGED orgVars
    <3>1. TypeOK' /\ FreshInv'
      BY <2>1, TypeInductive, FreshInductive
    <3>2. OrgTypes' /\ OverridesTold'
      BY <2>1 DEF orgVars, OrgTypes, OverridesTold, Told
    <3> QED
      BY <3>1, <3>2
  <2>2. CASE OrgStep
    <3>1. OrgTypes' /\ OverridesTold' /\ UNCHANGED vars
      BY <2>2, OrgStepTyped
    <3>2. TypeOK' /\ FreshInv'
      BY <3>1, TypeInductive, FreshInductive
    <3> QED
      BY <3>1, <3>2
  <2> QED
    BY <2>1, <2>2 DEF OrgNext
<1>3. Inv => OrgsGetWhatWasTold
  BY GivenWhatWasTold
<1> QED
  BY <1>1, <1>2, <1>3, PTL DEF OrgSpec

(* Nor does an override disturb the lock of an edit.                         *)
THEOREM NoUpdateIsLostWithOverrides == OrgSpec => []NoLostUpdate
<1>1. OrgInit => Init
  BY DEF OrgInit
<1>2. [OrgNext]_<<vars, orgVars>> => [Next]_vars
  BY DEF OrgNext, OrgStep, CommitOverride, AbandonOverride, RemoveOverride, SetOverride, Begin,
         DeleteOrg
<1>3. Init => TypeOK /\ NoLostUpdate
  BY InitTyped DEF Init, NoLostUpdate
<1>4. TypeOK /\ NoLostUpdate /\ [Next]_vars => TypeOK' /\ NoLostUpdate'
  BY TypeInductive, LockInductive
<1> QED
  BY <1>1, <1>2, <1>3, <1>4, PTL DEF OrgSpec
===============================================================================
