------------------------------ MODULE LogsProofs ------------------------------
(* The two halves of apps/shared/logs, for any processes, kinds, releases,   *)
(* requests and bounds: the six invariants of ExceptionCapture and           *)
(* IssueTracker, then the four of Telemetry.                                 *)
(*                                                                           *)
(* Of the issues, the argument is the version lock.  Whoever has loaded a    *)
(* row holds the committed one or an older version of it (AsOf); a version   *)
(* is never used for two rows, since every write moves it.  So a write that  *)
(* finds the version it loaded was computed from the row it replaces.        *)
(*                                                                           *)
(* Of a process that captures, it is its books (Accounted): every step moves *)
(* a capture from one place to another.  Among them the shedding: with fewer *)
(* keys than the queue has room some key repeats in a full queue, so the     *)
(* victim does.                                                              *)
(*                                                                           *)
(* Of one that logs, it is the numbering (SinkInv): the lines said are       *)
(* numbered from 1, each number that of one line wherever it stands, and a   *)
(* report adds to its sum what leaves the count it tells.  Of the load, a    *)
(* label's exchanges are added up over the rows and over its own tallies     *)
(* (Balanced).  Of the pages, a row that a full page passes over had one of  *)
(* its own source at the cursor (PassedOver).                                *)
EXTENDS ExceptionCapture, Telemetry, SequenceTheorems, FiniteSetTheorems, WellFoundedInduction, TLAPS

(* What was loaded is the row, or an older one.                              *)
AsOf(f, row) ==
  /\ row \in Rows
  /\ row.version <= issue[f].version
  /\ row.version = issue[f].version => row = issue[f]

Phases == {"asleep", "draining", "tracking", "looked", "keeping"}

TrackerTypes ==
  /\ issue \in [Fingerprint -> Rows]
  /\ told \in [Fingerprint -> Lifecycle \cup {"absent"}]
  /\ since \in [Fingerprint -> SUBSET Release]
  /\ echoed \subseteq Fingerprint

TickTypes ==
  /\ phase \in [Process -> Phases]
  /\ held = [p \in Process |-> held[p]]
  /\ look = [p \in Process |-> look[p]]

VerdictTypes == verdict \in [Admin -> Verdicts \cup {NoVerdict}]

Versioned == \A f \in Fingerprint : issue[f].status = "absent" => issue[f] = Absent

TrackersLoaded ==
  \A p \in Process : phase[p] = "looked" /\ PrintOf[held[p]] \in Fingerprint =>
    AsOf(PrintOf[held[p]], look[p])

VerdictsLoaded ==
  \A a \in Admin : verdict[a].on => AsOf(verdict[a].f, verdict[a].row)

IInv ==
  /\ TrackerTypes /\ TickTypes /\ VerdictTypes
  /\ Versioned /\ TrackersLoaded /\ VerdictsLoaded
  /\ ResolvedMeansQuiet /\ JournalTellsStatus

(* A write moves the version of what it writes.                              *)
Advances ==
  \A f \in Fingerprint : issue'[f] = issue[f] \/ issue[f].version < issue'[f].version

(* A tracker that has a row keeps it; only Look loads one.                   *)
KeepsLook(p) ==
  phase'[p] = "looked" => phase[p] = "looked" /\ held'[p] = held[p] /\ look'[p] = look[p]

LoadsRow(p) == held'[p] = held[p] /\ look'[p] = issue[PrintOf[held[p]]]

-----------------------------------------------------------------------------
(* The rows.                                                                 *)

LEMMA AbsentIsARow == Absent \in Rows
BY DEF Absent, Rows

(* A row loaded before a write is still the row, or an older one.            *)
LEMMA AsOfKept ==
  ASSUME issue \in [Fingerprint -> Rows], issue' \in [Fingerprint -> Rows], Advances,
         NEW f \in Fingerprint, NEW row, AsOf(f, row)
  PROVE  /\ row \in Rows
         /\ row.version <= issue'[f].version
         /\ row.version = issue'[f].version => row = issue'[f]
<1>1. issue[f] \in Rows /\ issue'[f] \in Rows
  OBVIOUS
<1>2. row \in Rows /\ row.version \in Nat /\ issue[f].version \in Nat /\ issue'[f].version \in Nat
  BY <1>1 DEF AsOf, Rows
<1>3. CASE issue'[f] = issue[f]
  BY <1>2, <1>3 DEF AsOf
<1>4. CASE issue[f].version < issue'[f].version
  BY <1>2, <1>4 DEF AsOf
<1> QED
  BY <1>3, <1>4 DEF Advances

(* One more occurrence: the row it gives.                                    *)
LEMMA OccurrenceRow ==
  ASSUME NEW row \in Rows, NEW release \in Release, row.status = "absent" => row = Absent
  PROVE  LET new == SeeOccurrence(row, release) IN
         /\ new \in Rows
         /\ new.status # "absent"
         /\ row.version < new.version
         /\ new.status = "resolved" =>
              row.status = "resolved" /\ row.resolvedIn = release /\ new.resolvedIn = release
<1>1. CASE row = Absent
  BY <1>1, Z3 DEF SeeOccurrence, Absent, Rows, Lifecycle
<1>2. CASE row # Absent
  <2>1. row.status \in Lifecycle /\ row.version \in Nat /\ row.count \in Nat
        /\ row.resolvedIn \in Release \cup {NoRelease}
    BY <1>2 DEF Rows
  <2>2. StatusAfter(row, release) \in Lifecycle
    BY <2>1 DEF StatusAfter, Lifecycle
  <2>3. SeeOccurrence(row, release)
          = [row EXCEPT !.status = StatusAfter(row, release), !.count = @ + 1, !.version = @ + 1]
    BY <1>2 DEF SeeOccurrence
  <2>4. SeeOccurrence(row, release)
          = [status |-> StatusAfter(row, release), resolvedIn |-> row.resolvedIn,
             count |-> row.count + 1, version |-> row.version + 1]
    BY <2>3 DEF Rows
  <2>5. SeeOccurrence(row, release) \in Rows
    BY <2>1, <2>2, <2>4 DEF Rows
  <2>6. StatusAfter(row, release) = "resolved" =>
          row.status = "resolved" /\ row.resolvedIn = release
    BY DEF StatusAfter
  <2> QED
    BY <2>1, <2>2, <2>4, <2>5, <2>6 DEF Lifecycle
<1> QED
  BY <1>1, <1>2

(* A verdict: the row it gives.                                              *)
LEMMA VerdictRow ==
  ASSUME NEW row \in Rows, NEW status \in Triageable, NEW release \in Release
  PROVE  LET new == [SetStatus(row, status, release) EXCEPT !.version = @ + 1] IN
         /\ new \in Rows
         /\ new.status = status
         /\ row.version < new.version
<1>1. SetStatus(row, status, release)
        = [status |-> status,
           resolvedIn |-> IF status = "resolved" THEN release ELSE NoRelease,
           count |-> row.count, version |-> row.version]
  <2> DEFINE fixedIn == IF status = "resolved" THEN release ELSE NoRelease
  <2>1. SetStatus(row, status, release) = [row EXCEPT !.status = status, !.resolvedIn = fixedIn]
    BY DEF SetStatus
  <2> HIDE DEF fixedIn
  <2>2. SetStatus(row, status, release)
          = [status |-> status, resolvedIn |-> fixedIn,
             count |-> row.count, version |-> row.version]
    BY <2>1 DEF Rows
  <2> QED
    BY <2>2 DEF fixedIn
<1>2. [SetStatus(row, status, release) EXCEPT !.version = @ + 1]
        = [status |-> status,
           resolvedIn |-> IF status = "resolved" THEN release ELSE NoRelease,
           count |-> row.count, version |-> row.version + 1]
  BY <1>1
<1>3. row.version \in Nat /\ row.count \in Nat /\ status \in Lifecycle
  BY DEF Rows, Triageable, Lifecycle
<1> QED
  BY <1>2, <1>3 DEF Rows

-----------------------------------------------------------------------------
(* What a step does to the invariant.                                        *)

(* A step that leaves the issues alone, and loads a row or none.             *)
LEMMA QuietStep ==
  ASSUME IInv, UNCHANGED trackerVars, TickTypes',
         \A p \in Process : KeepsLook(p) \/ LoadsRow(p)
  PROVE  IInv'
<1>1. UNCHANGED <<issue, told, since, echoed, verdict>>
  BY DEF trackerVars, issues
<1>2. TrackerTypes' /\ VerdictTypes' /\ Versioned' /\ ResolvedMeansQuiet' /\ JournalTellsStatus'
  BY <1>1 DEF IInv, TrackerTypes, VerdictTypes, Versioned, ResolvedMeansQuiet, JournalTellsStatus
<1>3. VerdictsLoaded'
  BY <1>1 DEF IInv, VerdictsLoaded, AsOf
<1>4. TrackersLoaded'
  <2> SUFFICES ASSUME NEW p \in Process, phase'[p] = "looked", PrintOf[held'[p]] \in Fingerprint
               PROVE  AsOf(PrintOf[held[p]], look[p])'
    BY DEF TrackersLoaded
  <2>1. CASE KeepsLook(p)
    BY <1>1, <2>1 DEF IInv, TrackersLoaded, KeepsLook, AsOf
  <2>2. CASE LoadsRow(p)
    <3>1. look'[p] = issue'[PrintOf[held'[p]]]
      BY <1>1, <2>2 DEF LoadsRow
    <3>2. look'[p] \in Rows /\ look'[p].version \in Nat
      BY <1>2, <3>1 DEF TrackerTypes, Rows
    <3> QED
      BY <3>1, <3>2 DEF AsOf
  <2> QED
    BY <2>1, <2>2
<1> QED
  BY <1>2, <1>3, <1>4 DEF IInv

(* A step that writes issues keeps what everybody else has loaded.           *)
LEMMA LoadedKept ==
  ASSUME IInv, issue' \in [Fingerprint -> Rows], Advances,
         \A p \in Process : KeepsLook(p),
         \A a \in Admin : verdict'[a] = verdict[a] \/ ~verdict'[a].on
  PROVE  TrackersLoaded' /\ VerdictsLoaded'
<1>1. TrackersLoaded'
  <2> SUFFICES ASSUME NEW p \in Process, phase'[p] = "looked", PrintOf[held'[p]] \in Fingerprint
               PROVE  AsOf(PrintOf[held[p]], look[p])'
    BY DEF TrackersLoaded
  <2>1. phase[p] = "looked" /\ held'[p] = held[p] /\ look'[p] = look[p]
    BY DEF KeepsLook
  <2>2. AsOf(PrintOf[held[p]], look[p])
    BY <2>1 DEF IInv, TrackersLoaded
  <2> QED
    BY <2>1, <2>2, AsOfKept DEF IInv, TrackerTypes, AsOf
<1>2. VerdictsLoaded'
  <2> SUFFICES ASSUME NEW a \in Admin, verdict'[a].on
               PROVE  AsOf(verdict[a].f, verdict[a].row)'
    BY DEF VerdictsLoaded
  <2>1. verdict'[a] = verdict[a]
    OBVIOUS
  <2>2. AsOf(verdict[a].f, verdict[a].row)
    BY <2>1 DEF IInv, VerdictsLoaded
  <2>3. verdict[a] \in Verdicts
    BY <2>1 DEF IInv, VerdictTypes, NoVerdict
  <2>4. verdict[a].f \in Fingerprint
    BY <2>3 DEF Verdicts
  <2> QED
    BY <2>1, <2>2, <2>4, AsOfKept DEF IInv, TrackerTypes, AsOf
<1> QED
  BY <1>1, <1>2

(* A tracker's commit.                                                       *)
LEMMA FoldStep ==
  ASSUME IInv, NEW p \in Process, Fold(p), TickTypes', \A q \in Process : KeepsLook(q)
  PROVE  IInv'
<1> DEFINE f == PrintOf[held[p]]
           new == SeeOccurrence(look[p], ReleaseOf[p])
<1>1. /\ phase[p] = "looked" /\ Unmoved(f, look[p])
      /\ issue' = [issue EXCEPT ![f] = new]
      /\ since' = [since EXCEPT ![f] = @ \cup {ReleaseOf[p]}]
      /\ IF new.status = look[p].status
         THEN UNCHANGED <<told, echoed>>
         ELSE told' = [told EXCEPT ![f] = new.status] /\ echoed' = echoed \ {f}
      /\ verdict' = verdict
  BY DEF Fold, Track
<1>2. TrackerTypes /\ VerdictTypes /\ Versioned /\ ResolvedMeansQuiet /\ JournalTellsStatus
  BY DEF IInv
<1>3. ReleaseOf[p] \in Release
  BY PrintAssumption
<1>4. CASE f \in Fingerprint
  <2>1. look[p] = issue[f]
    BY <1>1, <1>4 DEF IInv, TrackersLoaded, AsOf, Unmoved
  <2>2. look[p] \in Rows /\ (look[p].status = "absent" => look[p] = Absent)
    BY <1>2, <1>4, <2>1 DEF TrackerTypes, Versioned
  <2>3. /\ new \in Rows /\ new.status # "absent"
        /\ look[p].version < new.version
        /\ new.status = "resolved" =>
             look[p].status = "resolved" /\ look[p].resolvedIn = ReleaseOf[p]
             /\ new.resolvedIn = ReleaseOf[p]
    BY <1>3, <2>2, OccurrenceRow
  <2>4. new.status \in Lifecycle \cup {"absent"}
    BY <2>3 DEF Rows
  <2> HIDE DEF new
  <2>5. issue'[f] = new /\ \A g \in Fingerprint \ {f} : issue'[g] = issue[g]
    BY <1>1, <1>2, <1>4 DEF TrackerTypes
  <2>6. TrackerTypes'
    <3>1. issue' \in [Fingerprint -> Rows]
      BY <1>1, <1>2, <2>3 DEF TrackerTypes
    <3>2. since' \in [Fingerprint -> SUBSET Release]
      BY <1>1, <1>2, <1>3, <1>4 DEF TrackerTypes
    <3>3. told' \in [Fingerprint -> Lifecycle \cup {"absent"}] /\ echoed' \subseteq Fingerprint
      BY <1>1, <1>2, <2>4 DEF TrackerTypes
    <3> QED
      BY <3>1, <3>2, <3>3 DEF TrackerTypes
  <2>7. Advances
    BY <2>1, <2>3, <2>5 DEF Advances
  <2>8. TrackersLoaded' /\ VerdictsLoaded'
    BY <1>1, <2>6, <2>7, LoadedKept DEF TrackerTypes
  <2>9. VerdictTypes' /\ Versioned'
    BY <1>1, <1>2, <2>3, <2>5 DEF VerdictTypes, Versioned
  <2>10. ResolvedMeansQuiet'
    <3> SUFFICES ASSUME NEW g \in Fingerprint, issue'[g].status = "resolved"
                 PROVE  since'[g] \subseteq {issue'[g].resolvedIn}
      BY DEF ResolvedMeansQuiet
    <3>1. CASE g = f
      <4>1. since'[f] = since[f] \cup {ReleaseOf[p]}
        BY <1>1, <1>2, <1>4 DEF TrackerTypes
      <4>2. since[f] \subseteq {ReleaseOf[p]} /\ issue'[f].resolvedIn = ReleaseOf[p]
        BY <1>2, <1>4, <2>1, <2>3, <2>5, <3>1 DEF ResolvedMeansQuiet
      <4> QED
        BY <3>1, <4>1, <4>2
    <3>2. CASE g # f
      BY <1>1, <1>2, <2>5, <3>2 DEF ResolvedMeansQuiet, TrackerTypes
    <3> QED
      BY <3>1, <3>2
  <2>11. JournalTellsStatus'
    <3> SUFFICES ASSUME NEW g \in Fingerprint
                 PROVE  told'[g] = issue'[g].status \/ g \in echoed'
      BY DEF JournalTellsStatus
    <3>1. CASE new.status = look[p].status
      BY <1>1, <1>2, <2>1, <2>5, <3>1 DEF JournalTellsStatus
    <3>2. CASE new.status # look[p].status
      BY <1>1, <1>2, <2>5, <3>2 DEF JournalTellsStatus, TrackerTypes
    <3> QED
      BY <3>1, <3>2
  <2> QED
    BY <2>6, <2>8, <2>9, <2>10, <2>11 DEF IInv
<1>5. CASE f \notin Fingerprint
  <2> HIDE DEF new
  <2>1. UNCHANGED <<issue, since, told, echoed>>
    BY <1>1, <1>2, <1>5 DEF TrackerTypes
  <2>2. TrackerTypes' /\ VerdictTypes' /\ Versioned' /\ ResolvedMeansQuiet' /\ JournalTellsStatus'
    BY <1>1, <1>2, <2>1 DEF TrackerTypes, VerdictTypes, Versioned, ResolvedMeansQuiet, JournalTellsStatus
  <2>3. TrackersLoaded' /\ VerdictsLoaded'
    BY <1>1, <2>1, <2>2, LoadedKept DEF Advances, TrackerTypes
  <2> QED
    BY <2>2, <2>3 DEF IInv
<1> QED
  BY <1>4, <1>5

(* An administrator's step.                                                  *)
LEMMA TriageStep ==
  ASSUME IInv, Triage, UNCHANGED tick
  PROVE  IInv'
<1>1. UNCHANGED <<phase, held, look>>
  BY DEF tick
<1>2. TickTypes' /\ \A p \in Process : KeepsLook(p)
  BY <1>1 DEF IInv, TickTypes, KeepsLook
<1>3. TrackerTypes /\ VerdictTypes /\ Versioned /\ ResolvedMeansQuiet /\ JournalTellsStatus
  BY DEF IInv
<1>4. ASSUME NEW a \in Admin, LoadIssue(a)
      PROVE  IInv'
  <2>1. UNCHANGED <<issue, told, since, echoed>>
    BY <1>4 DEF LoadIssue, issues
  <2>2. TrackerTypes' /\ Versioned' /\ ResolvedMeansQuiet' /\ JournalTellsStatus'
    BY <1>3, <2>1 DEF TrackerTypes, Versioned, ResolvedMeansQuiet, JournalTellsStatus
  <2>3. TrackersLoaded'
    BY <1>1, <2>1 DEF IInv, TrackersLoaded, AsOf
  <2>4. PICK f \in Fingerprint, status \in Triageable, release \in Release :
          verdict' = [verdict EXCEPT ![a] =
            [on |-> TRUE, f |-> f, row |-> issue[f], status |-> status, release |-> release]]
    BY <1>4 DEF LoadIssue
  <2> DEFINE v == [on |-> TRUE, f |-> f, row |-> issue[f], status |-> status, release |-> release]
  <2>5. v \in Verdicts /\ v.f = f /\ v.row = issue[f]
    BY <1>3 DEF Verdicts, TrackerTypes
  <2> HIDE DEF v
  <2>6. verdict'[a] = v /\ \A b \in Admin \ {a} : verdict'[b] = verdict[b]
    BY <1>3, <2>4 DEF VerdictTypes, v
  <2>7. VerdictTypes'
    BY <1>3, <2>4, <2>5 DEF VerdictTypes, v
  <2>8. VerdictsLoaded'
    <3> SUFFICES ASSUME NEW b \in Admin, verdict'[b].on
                 PROVE  AsOf(verdict[b].f, verdict[b].row)'
      BY DEF VerdictsLoaded
    <3>1. CASE b = a
      BY <1>3, <2>1, <2>5, <2>6, <3>1 DEF AsOf, TrackerTypes, Rows
    <3>2. CASE b # a
      BY <2>1, <2>6, <3>2 DEF IInv, VerdictsLoaded, AsOf
    <3> QED
      BY <3>1, <3>2
  <2> QED
    BY <1>2, <2>2, <2>3, <2>7, <2>8 DEF IInv
<1>5. ASSUME NEW a \in Admin, TriageFails(a)
      PROVE  IInv'
  <2>1. UNCHANGED <<issue, told, since, echoed>> /\ verdict' = [verdict EXCEPT ![a] = NoVerdict]
    BY <1>5 DEF TriageFails, issues
  <2>2. TrackerTypes' /\ Versioned' /\ ResolvedMeansQuiet' /\ JournalTellsStatus' /\ VerdictTypes'
    BY <1>3, <2>1
    DEF TrackerTypes, Versioned, ResolvedMeansQuiet, JournalTellsStatus, VerdictTypes
  <2>3. \A b \in Admin : verdict'[b] = verdict[b] \/ ~verdict'[b].on
    BY <1>3, <2>1 DEF VerdictTypes, NoVerdict
  <2>4. TrackersLoaded' /\ VerdictsLoaded'
    BY <1>2, <2>1, <2>2, <2>3, LoadedKept DEF Advances, TrackerTypes
  <2> QED
    BY <1>2, <2>2, <2>4 DEF IInv
<1>6. ASSUME NEW a \in Admin, SetIssueStatus(a)
      PROVE  IInv'
  <2> DEFINE v == verdict[a]
             new == [SetStatus(v.row, v.status, v.release) EXCEPT !.version = @ + 1]
  <2>1. /\ v.on
        /\ told' = [told EXCEPT ![v.f] = v.status]
        /\ verdict' = [verdict EXCEPT ![a] = NoVerdict]
    BY <1>6 DEF SetIssueStatus
  <2>2. v \in Verdicts
    BY <1>3, <2>1 DEF VerdictTypes, NoVerdict
  <2>3. v.f \in Fingerprint /\ v.status \in Triageable /\ v.release \in Release
    BY <2>2 DEF Verdicts
  <2>4. AsOf(v.f, v.row)
    BY <2>1 DEF IInv, VerdictsLoaded
  <2>5. VerdictTypes' /\ \A b \in Admin : verdict'[b] = verdict[b] \/ ~verdict'[b].on
    BY <1>3, <2>1 DEF VerdictTypes, NoVerdict
  <2>6. told' \in [Fingerprint -> Lifecycle \cup {"absent"}]
    BY <1>3, <2>1, <2>3 DEF TrackerTypes, Triageable, Lifecycle
  <2>7. CASE Repeats(v) /\ echoed' = echoed \cup {v.f} /\ UNCHANGED <<issue, since>>
    <3>1. TrackerTypes' /\ Versioned' /\ ResolvedMeansQuiet'
      BY <1>3, <2>3, <2>6, <2>7 DEF TrackerTypes, Versioned, ResolvedMeansQuiet
    <3>2. JournalTellsStatus'
      BY <1>3, <2>1, <2>3, <2>7 DEF JournalTellsStatus, TrackerTypes
    <3>3. TrackersLoaded' /\ VerdictsLoaded'
      BY <1>2, <2>5, <2>7, <3>1, LoadedKept DEF Advances, TrackerTypes
    <3> QED
      BY <1>2, <2>5, <3>1, <3>2, <3>3 DEF IInv
  <2>8. CASE /\ Unmoved(v.f, v.row)
             /\ issue' = [issue EXCEPT ![v.f] = new]
             /\ since' = [since EXCEPT ![v.f] = {}]
             /\ echoed' = echoed \ {v.f}
    <3>1. v.row = issue[v.f]
      BY <2>4, <2>8 DEF AsOf, Unmoved
    <3>2. new \in Rows /\ new.status = v.status /\ v.row.version < new.version
      BY <2>3, <2>4, VerdictRow DEF AsOf
    <3> HIDE DEF v, new
    <3>3. issue'[v.f] = new /\ \A g \in Fingerprint \ {v.f} : issue'[g] = issue[g]
      BY <1>3, <2>3, <2>8 DEF TrackerTypes
    <3>4. TrackerTypes'
      BY <1>3, <2>3, <2>6, <2>8, <3>2 DEF TrackerTypes
    <3>5. Advances
      BY <3>1, <3>2, <3>3 DEF Advances
    <3>6. TrackersLoaded' /\ VerdictsLoaded'
      BY <1>2, <2>5, <3>4, <3>5, LoadedKept DEF TrackerTypes
    <3>7. Versioned'
      BY <1>3, <2>3, <3>2, <3>3 DEF Versioned, Triageable
    <3>8. ResolvedMeansQuiet'
      BY <1>3, <2>3, <2>8, <3>3 DEF ResolvedMeansQuiet, TrackerTypes
    <3>9. JournalTellsStatus'
      BY <1>3, <2>1, <2>3, <2>8, <3>2, <3>3 DEF JournalTellsStatus, TrackerTypes, v
    <3> QED
      BY <1>2, <2>5, <3>4, <3>6, <3>7, <3>8, <3>9 DEF IInv
  <2> QED
    BY <1>6, <2>7, <2>8 DEF SetIssueStatus
<1> QED
  BY <1>4, <1>5, <1>6 DEF Triage

-----------------------------------------------------------------------------
(* Every step, by action.                                                    *)

LEMMA ProcessStep ==
  ASSUME IInv, NEW p \in Process, Drain(p) \/ Stop(p)
  PROVE  IInv'
<1>1. TickTypes
  BY DEF IInv
<1>2. CASE StartTick(p)
  <2>1. UNCHANGED <<trackerVars, held, look>> /\ phase' = [phase EXCEPT ![p] = "draining"]
    BY <1>2 DEF StartTick, Goes
  <2> QED
    BY <1>1, <2>1, QuietStep DEF TickTypes, KeepsLook, Phases
<1>3. CASE Pop(p)
  <2>1. /\ UNCHANGED <<trackerVars, look>> /\ phase' = [phase EXCEPT ![p] = "tracking"]
        /\ held' = [held EXCEPT ![p] = Head(queue[p])]
    BY <1>3 DEF Pop, Goes
  <2>2. TickTypes'
    BY <1>1, <2>1 DEF TickTypes, Phases
  <2> QED
    BY <1>1, <2>1, <2>2, QuietStep DEF TickTypes, KeepsLook, Phases
<1>4. CASE EndLoop(p)
  <2>1. UNCHANGED <<trackerVars, look>>
        /\ \/ phase' = [phase EXCEPT ![p] = "tracking"] /\ held' = [held EXCEPT ![p] = Report]
           \/ phase' = [phase EXCEPT ![p] = "asleep"] /\ held' = held
    BY <1>4 DEF EndLoop, Goes
  <2>2. TickTypes'
    BY <1>1, <2>1 DEF TickTypes, Phases
  <2> QED
    BY <1>1, <2>1, <2>2, QuietStep DEF TickTypes, KeepsLook, Phases
<1>5. CASE Look(p)
  <2>1. /\ UNCHANGED <<trackerVars, held>> /\ phase' = [phase EXCEPT ![p] = "looked"]
        /\ look' = [look EXCEPT ![p] = issue[PrintOf[held[p]]]]
    BY <1>5 DEF Look, Goes
  <2>2. TickTypes'
    BY <1>1, <2>1 DEF TickTypes, Phases
  <2>3. \A q \in Process : KeepsLook(q) \/ LoadsRow(q)
    BY <1>1, <2>1 DEF TickTypes, KeepsLook, LoadsRow
  <2> QED
    BY <2>1, <2>2, <2>3, QuietStep
<1>6. CASE Delivered(p)
  <2>1. /\ Fold(p) /\ phase' = [phase EXCEPT ![p] = "draining"]
        /\ held' = [held EXCEPT ![p] = None] /\ look' = [look EXCEPT ![p] = Absent]
    BY <1>6 DEF Delivered, Goes
  <2>2. TickTypes' /\ \A q \in Process : KeepsLook(q)
    BY <1>1, <2>1 DEF TickTypes, KeepsLook, Phases
  <2> QED
    BY <2>1, <2>2, FoldStep
<1>7. CASE TrackerFails(p) \/ AnswerLost(p)
  <2>1. /\ UNCHANGED held /\ phase' = [phase EXCEPT ![p] = "keeping"]
        /\ look' = [look EXCEPT ![p] = Absent]
    BY <1>7 DEF TrackerFails, AnswerLost, ReportFailure, Goes
  <2>2. TickTypes' /\ \A q \in Process : KeepsLook(q)
    BY <1>1, <2>1 DEF TickTypes, KeepsLook, Phases
  <2>3. UNCHANGED trackerVars \/ Fold(p)
    BY <1>7 DEF TrackerFails, AnswerLost
  <2> QED
    BY <2>2, <2>3, QuietStep, FoldStep
<1>8. CASE Keep(p)
  <2>1. /\ UNCHANGED <<trackerVars, look>> /\ phase' = [phase EXCEPT ![p] = "draining"]
        /\ held' = [held EXCEPT ![p] = None]
    BY <1>8 DEF Keep, Goes
  <2>2. TickTypes' /\ \A q \in Process : KeepsLook(q)
    BY <1>1, <2>1 DEF TickTypes, KeepsLook, Phases
  <2> QED
    BY <2>1, <2>2, QuietStep
<1>9. CASE Stop(p)
  <2>1. CASE CancelDelivery(p)
    <3>1. /\ phase' = [phase EXCEPT ![p] = "asleep"]
          /\ held' = [held EXCEPT ![p] = None] /\ look' = [look EXCEPT ![p] = Absent]
      BY <2>1 DEF CancelDelivery, Goes
    <3>2. TickTypes' /\ \A q \in Process : KeepsLook(q)
      BY <1>1, <3>1 DEF TickTypes, KeepsLook, Phases
    <3>3. UNCHANGED trackerVars \/ Fold(p)
      BY <2>1 DEF CancelDelivery
    <3> QED
      BY <3>2, <3>3, QuietStep, FoldStep
  <2>2. CASE UNCHANGED <<trackerVars, tick>>
    BY <1>1, <2>2, QuietStep DEF tick, TickTypes, KeepsLook
  <2> QED
    BY <1>9, <2>1, <2>2 DEF Stop
<1> QED
  BY <1>2, <1>3, <1>4, <1>5, <1>6, <1>7, <1>8, <1>9 DEF Drain

LEMMA InitIInv == Init => IInv
<1> SUFFICES ASSUME Init PROVE IInv
  OBVIOUS
<1>1. TrackerTypes /\ VerdictTypes /\ Versioned /\ ResolvedMeansQuiet /\ JournalTellsStatus
  BY AbsentIsARow
  DEF Init, TrackerInit, TrackerTypes, VerdictTypes, Versioned, ResolvedMeansQuiet,
      JournalTellsStatus, Absent, NoVerdict
<1>2. TickTypes
  BY DEF Init, TickTypes, Phases
<1>3. TrackersLoaded /\ VerdictsLoaded
  BY DEF Init, TrackerInit, TrackersLoaded, VerdictsLoaded, NoVerdict
<1> QED
  BY <1>1, <1>2, <1>3 DEF IInv

LEMMA NextIInv == IInv /\ [Next]_vars => IInv'
<1> SUFFICES ASSUME IInv, [Next]_vars PROVE IInv'
  OBVIOUS
<1>1. ASSUME NEW p \in Process, NEW k \in Ordinary, Capture(p, k)
      PROVE  IInv'
  BY <1>1, QuietStep DEF Capture, tick, IInv, TickTypes, KeepsLook
<1>2. ASSUME NEW p \in Process, Drain(p) \/ Stop(p)
      PROVE  IInv'
  BY <1>2, ProcessStep
<1>3. CASE Administration
  BY <1>3, TriageStep DEF Administration
<1>4. CASE UNCHANGED vars
  BY <1>4, QuietStep DEF vars, tick, IInv, TickTypes, KeepsLook
<1> QED
  BY <1>1, <1>2, <1>3, <1>4 DEF Next

THEOREM Inductive == Spec => []IInv
BY InitIInv, NextIInv, PTL DEF Spec

(* set_status and see_occurrence: a resolved issue has been raised since its *)
(* verdict by nothing but the release that fixes it, however trackers and    *)
(* administrators overlap.                                                   *)
THEOREM ResolvedIsQuiet == Spec => []ResolvedMeansQuiet
<1>1. IInv => ResolvedMeansQuiet
  BY DEF IInv
<1> QED
  BY <1>1, Inductive, PTL

(* IssueOpened, IssueRegressed and IssueStatusChanged together tell an       *)
(* issue's status, but for a verdict that wrote nothing.                     *)
THEOREM TheJournalTellsTheStatus == Spec => []JournalTellsStatus
<1>1. IInv => JournalTellsStatus
  BY DEF IInv
<1> QED
  BY <1>1, Inductive, PTL

-----------------------------------------------------------------------------
(* Sums.  The library sums by a recursive function over the subsets; the     *)
(* number of units is a solution of its equation, and by induction on the    *)
(* subsets the only one.                                                     *)
SumStep(v, S, g) ==
  [s \in SUBSET S |-> IF s = {} THEN 0 ELSE LET x == CHOOSE x \in s : TRUE
                                            IN  v[x] + g[s \ {x}]]

\* v[x] units for each x of s.
Units(v, s) == {u \in s \X Nat : u[2] \in 1 .. v[u[1]]}

LEMMA UnitsOfMore ==
  ASSUME NEW S, NEW v \in [S -> Nat], NEW s \in SUBSET S, NEW x \in s,
         IsFiniteSet(Units(v, s \ {x}))
  PROVE  /\ IsFiniteSet(Units(v, s))
         /\ Cardinality(Units(v, s)) = v[x] + Cardinality(Units(v, s \ {x}))
<1> DEFINE rest == Units(v, s \ {x})
           column == {x} \X (1 .. v[x])
<1>1. v[x] \in Nat
  OBVIOUS
<1>2. Units(v, s) = rest \cup column /\ rest \cap column = {}
  BY <1>1 DEF Units
<1>3. IsFiniteSet({x}) /\ Cardinality({x}) = 1
  BY FS_Singleton
<1>4. IsFiniteSet(1 .. v[x]) /\ Cardinality(1 .. v[x]) = v[x]
  BY <1>1, FS_Interval
<1>5. IsFiniteSet(column) /\ Cardinality(column) = Cardinality({x}) * Cardinality(1 .. v[x])
  BY <1>3, <1>4, FS_Product
<1>6. Cardinality(column) = v[x]
  BY <1>1, <1>3, <1>4, <1>5
<1>7. /\ IsFiniteSet(rest \cup column)
      /\ Cardinality(rest \cup column)
           = Cardinality(rest) + Cardinality(column) - Cardinality(rest \cap column)
  BY <1>5, FS_Union
<1>8. Cardinality(rest) \in Nat /\ Cardinality(rest \cap column) = 0
  BY <1>2, FS_CardinalityType, FS_EmptySet
<1> QED
  BY <1>1, <1>2, <1>6, <1>7, <1>8

LEMMA UnitsFinite ==
  ASSUME NEW S, IsFiniteSet(S), NEW v \in [S -> Nat]
  PROVE  \A s \in SUBSET S : IsFiniteSet(Units(v, s))
<1> DEFINE Bad == {s \in SUBSET S : ~ IsFiniteSet(Units(v, s))}
<1> SUFFICES ASSUME Bad # {} PROVE FALSE
  OBVIOUS
<1>1. IsWellFoundedOn(StrictSubsetOrdering(S), SUBSET S)
  BY FS_StrictSubsetOrderingWellFounded, FS_FiniteSubsetsOfFinite
<1>2. PICK s \in Bad : \A t \in Bad : ~ (<<t, s>> \in StrictSubsetOrdering(S))
  BY <1>1, WFMin
<1>3. CASE s = {}
  <2>1. Units(v, s) = {}
    BY <1>3 DEF Units
  <2> QED
    BY <1>2, <2>1, FS_EmptySet
<1>4. ASSUME NEW x \in s PROVE FALSE
  <2>1. <<s \ {x}, s>> \in StrictSubsetOrdering(S) /\ s \ {x} \in SUBSET S
    BY <1>2, <1>4 DEF StrictSubsetOrdering
  <2>2. IsFiniteSet(Units(v, s \ {x}))
    BY <1>2, <2>1
  <2> QED
    BY <1>2, <1>4, <2>2, UnitsOfMore
<1> QED
  BY <1>3, <1>4

LEMMA SumIsSize ==
  ASSUME NEW S, IsFiniteSet(S), NEW v \in [S -> Nat]
  PROVE  /\ IsFiniteSet(Units(v, S))
         /\ SumFunction(v) = Cardinality(Units(v, S))
<1> DEFINE count == [s \in SUBSET S |-> Cardinality(Units(v, s))]
           sum == CHOOSE g : g = SumStep(v, S, g)
<1>1. \A s \in SUBSET S : IsFiniteSet(Units(v, s)) /\ Cardinality(Units(v, s)) \in Nat
  BY UnitsFinite, FS_CardinalityType
<1>2. \A s \in SUBSET S : \A x \in s : count[s] = v[x] + count[s \ {x}]
  <2> SUFFICES ASSUME NEW s \in SUBSET S, NEW x \in s PROVE count[s] = v[x] + count[s \ {x}]
    OBVIOUS
  <2>1. IsFiniteSet(Units(v, s \ {x}))
    BY <1>1
  <2>2. Cardinality(Units(v, s)) = v[x] + Cardinality(Units(v, s \ {x}))
    BY <2>1, UnitsOfMore
  <2> QED
    BY <2>2
<1>3. Cardinality(Units(v, {})) = 0
  <2>1. Units(v, {}) = {}
    BY DEF Units
  <2> QED
    BY <2>1, FS_EmptySet
<1>4. \A s \in SUBSET S : count[s] = SumStep(v, S, count)[s]
  BY <1>2, <1>3 DEF SumStep
<1>5. count = SumStep(v, S, count)
  BY <1>4 DEF SumStep
<1>6. sum = SumStep(v, S, sum)
  BY <1>5
<1>7. SumFunction(v) = sum[S]
  BY DEF SumFunction, SumFunctionOnSet, FoldFunctionOnSet, MapThenFoldSet, SumStep
<1> HIDE DEF sum
<1>8. \A s \in SUBSET S : sum[s] = count[s]
  <2> DEFINE Bad == {s \in SUBSET S : sum[s] # count[s]}
  <2> SUFFICES ASSUME Bad # {} PROVE FALSE
    OBVIOUS
  <2>1. IsWellFoundedOn(StrictSubsetOrdering(S), SUBSET S)
    BY FS_StrictSubsetOrderingWellFounded, FS_FiniteSubsetsOfFinite
  <2>2. PICK s \in Bad : \A t \in Bad : ~ (<<t, s>> \in StrictSubsetOrdering(S))
    BY <2>1, WFMin
  <2> HIDE DEF count
  <2>3. CASE s = {}
    BY <1>5, <1>6, <2>2, <2>3 DEF SumStep
  <2>4. CASE s # {}
    <3> DEFINE x == CHOOSE x \in s : TRUE
    <3>1. x \in s /\ s \ {x} \in SUBSET S /\ count[s] = v[x] + count[s \ {x}]
      BY <1>2, <2>2, <2>4
    <3>2. SumStep(v, S, sum)[s] = v[x] + sum[s \ {x}]
      BY <2>2, <2>4 DEF SumStep
    <3>3. <<s \ {x}, s>> \in StrictSubsetOrdering(S)
      BY <2>2, <3>1 DEF StrictSubsetOrdering
    <3>4. sum[s \ {x}] = count[s \ {x}]
      BY <2>2, <3>1, <3>3
    <3> QED
      BY <1>6, <2>2, <3>1, <3>2, <3>4
  <2> QED
    BY <2>3, <2>4
<1> QED
  BY <1>1, <1>7, <1>8

(* One more at one place is one more in the sum.                             *)
LEMMA SumOneMore ==
  ASSUME NEW S, IsFiniteSet(S), NEW v \in [S -> Nat], NEW x \in S
  PROVE  /\ SumFunction(v) \in Nat
         /\ SumFunction([v EXCEPT ![x] = @ + 1]) = SumFunction(v) + 1
<1> DEFINE w == [v EXCEPT ![x] = @ + 1]
           new == <<x, v[x] + 1>>
<1>1. w \in [S -> Nat] /\ v[x] \in Nat
  OBVIOUS
<1>2. Units(w, S) = Units(v, S) \cup {new} /\ new \notin Units(v, S)
  BY <1>1 DEF Units
<1>3. /\ IsFiniteSet(Units(v, S)) /\ Cardinality(Units(v, S)) \in Nat
      /\ SumFunction(v) = Cardinality(Units(v, S))
  BY SumIsSize, FS_CardinalityType
<1>4. SumFunction(w) = Cardinality(Units(w, S))
  BY <1>1, SumIsSize
<1>5. Cardinality(Units(v, S) \cup {new}) = Cardinality(Units(v, S)) + 1
  BY <1>2, <1>3, FS_AddElement
<1> QED
  BY <1>2, <1>3, <1>4, <1>5

LEMMA SumOfNone ==
  ASSUME NEW S, IsFiniteSet(S), NEW v \in [S -> Nat], \A x \in S : v[x] = 0
  PROVE  SumFunction(v) = 0
<1>1. Units(v, S) = {}
  BY DEF Units
<1> QED
  BY <1>1, SumIsSize, FS_EmptySet

LEMMA SumTyped ==
  ASSUME NEW S, IsFiniteSet(S), NEW v \in [S -> Nat]
  PROVE  SumFunction(v) \in Nat
BY SumIsSize, FS_CardinalityType

-----------------------------------------------------------------------------
(* The places of a queue.                                                    *)
Places(q, k) == {i \in 1 .. Len(q) : q[i] = k}

\* r is q without its place i.
Without(q, i, r) ==
  /\ Len(r) = Len(q) - 1
  /\ \A j \in 1 .. Len(r) : r[j] = IF j < i THEN q[j] ELSE q[j + 1]

LEMMA PlacesFinite ==
  ASSUME NEW K, NEW q \in Seq(K), NEW k
  PROVE  IsFiniteSet(Places(q, k)) /\ Cardinality(Places(q, k)) \in Nat
<1>1. Len(q) \in Nat
  OBVIOUS
<1>2. IsFiniteSet(1 .. Len(q)) /\ Places(q, k) \in SUBSET (1 .. Len(q))
  BY <1>1, FS_Interval DEF Places
<1> QED
  BY <1>2, FS_Subset, FS_CardinalityType

LEMMA RemovedPlace ==
  ASSUME NEW K, NEW q \in Seq(K), NEW i \in 1 .. Len(q)
  PROVE  RemoveAt(q, i) \in Seq(K) /\ Without(q, i, RemoveAt(q, i))
<1>1. Len(q) \in Nat /\ i \in Nat
  OBVIOUS
<1> DEFINE a == SubSeq(q, 1, i - 1)
           b == SubSeq(q, i + 1, Len(q))
<1>2. a \in Seq(K) /\ Len(a) = i - 1 /\ \A j \in 1 .. i - 1 : a[j] = q[j]
  BY <1>1
<1>3. b \in Seq(K) /\ Len(b) = Len(q) - i /\ \A j \in 1 .. Len(q) - i : b[j] = q[i + j]
  BY <1>1
<1> HIDE DEF a, b
<1>4. /\ a \o b \in Seq(K) /\ Len(a \o b) = Len(q) - 1
      /\ \A j \in 1 .. Len(q) - 1 : (a \o b)[j] = IF j <= i - 1 THEN a[j] ELSE b[j - (i - 1)]
  <2>1. a \in Seq(K) /\ b \in Seq(K)
    BY <1>2, <1>3
  <2>2. /\ a \o b \in Seq(K)
        /\ Len(a \o b) = Len(a) + Len(b)
        /\ \A j \in 1 .. Len(a) + Len(b) :
             (a \o b)[j] = IF j <= Len(a) THEN a[j] ELSE b[j - Len(a)]
    BY <2>1, ConcatProperties
  <2> QED
    BY <1>1, <1>2, <1>3, <2>2
<1>5. \A j \in 1 .. Len(q) - 1 : (a \o b)[j] = IF j < i THEN q[j] ELSE q[j + 1]
  <2> SUFFICES ASSUME NEW j \in 1 .. Len(q) - 1
               PROVE  (a \o b)[j] = IF j < i THEN q[j] ELSE q[j + 1]
    OBVIOUS
  <2>1. CASE j < i
    BY <1>1, <1>2, <1>4, <2>1
  <2>2. CASE ~ (j < i)
    <3>1. j - (i - 1) \in 1 .. Len(q) - i /\ i + (j - (i - 1)) = j + 1
      BY <1>1, <2>2
    <3> QED
      BY <1>1, <1>3, <1>4, <2>2, <3>1
  <2> QED
    BY <2>1, <2>2
<1>6. RemoveAt(q, i) = a \o b
  BY DEF RemoveAt, a, b
<1> QED
  BY <1>4, <1>5, <1>6 DEF Without

LEMMA TailPlace ==
  ASSUME NEW K, NEW q \in Seq(K), q # <<>>
  PROVE  /\ Tail(q) \in Seq(K) /\ 1 \in 1 .. Len(q) /\ Without(q, 1, Tail(q))
         /\ Head(q) = q[1] /\ Head(q) \in K
  BY DEF Without

LEMMA OneLess ==
  ASSUME NEW K, NEW q \in Seq(K), NEW i \in 1 .. Len(q), NEW r \in Seq(K), Without(q, i, r),
         NEW k
  PROVE  Cardinality(Places(q, k))
           = Cardinality(Places(r, k)) + IF q[i] = k THEN 1 ELSE 0
<1> DEFINE others == Places(q, k) \ {i}
           shift == [j \in Places(r, k) |-> IF j < i THEN j ELSE j + 1]
           back == [j \in others |-> IF j < i THEN j ELSE j - 1]
<1>1. Len(q) \in Nat /\ Len(r) = Len(q) - 1 /\ i \in Nat
  BY DEF Without
<1>2. \A j \in Places(r, k) : shift[j] \in others
  BY <1>1 DEF Places, Without
<1>3. \A j, l \in Places(r, k) : shift[j] = shift[l] => j = l
  BY <1>1 DEF Places
<1>4. \A j \in others : \E l \in Places(r, k) : shift[l] = j
  <2> SUFFICES ASSUME NEW j \in others PROVE \E l \in Places(r, k) : shift[l] = j
    OBVIOUS
  <2> DEFINE l == IF j < i THEN j ELSE j - 1
  <2>1. j \in 1 .. Len(q) /\ q[j] = k /\ j # i
    BY DEF Places
  <2>2. l \in 1 .. Len(r) /\ (l < i <=> j < i) /\ r[l] = k
    BY <1>1, <2>1 DEF Without
  <2>3. l \in Places(r, k) /\ shift[l] = j
    BY <1>1, <2>1, <2>2 DEF Places
  <2> QED
    BY <2>3
<1>5. shift \in Bijection(Places(r, k), others)
  <2>1. shift \in [Places(r, k) -> others]
    BY <1>2
  <2>2. shift \in Injection(Places(r, k), others)
    BY <1>3, <2>1 DEF Injection, IsInjective
  <2>3. shift \in Surjection(Places(r, k), others)
    BY <1>4, <2>1 DEF Surjection
  <2> QED
    BY <2>2, <2>3 DEF Bijection
<1>6. Cardinality(others) = Cardinality(Places(r, k))
  <2>1. ExistsBijection(Places(r, k), others)
    BY <1>5 DEF ExistsBijection
  <2> QED
    BY <2>1, PlacesFinite, FS_Bijection
<1>7. Cardinality(others)
        = IF i \in Places(q, k) THEN Cardinality(Places(q, k)) - 1 ELSE Cardinality(Places(q, k))
  BY PlacesFinite, FS_RemoveElement
<1>8. i \in Places(q, k) <=> q[i] = k
  BY DEF Places
<1>9. Cardinality(Places(q, k)) \in Nat /\ Cardinality(Places(r, k)) \in Nat
  BY PlacesFinite
<1> QED
  BY <1>6, <1>7, <1>8, <1>9

LEMMA HeadLess ==
  ASSUME NEW K, NEW q \in Seq(K), q # <<>>, NEW k
  PROVE  Cardinality(Places(q, k))
           = Cardinality(Places(Tail(q), k)) + IF q[1] = k THEN 1 ELSE 0
<1> DEFINE i == 1
           r == Tail(q)
<1>1. i \in 1 .. Len(q) /\ r \in Seq(K) /\ Without(q, i, r)
  BY TailPlace
<1> HIDE DEF i, r
<1>2. Cardinality(Places(q, k)) = Cardinality(Places(r, k)) + IF q[i] = k THEN 1 ELSE 0
  BY <1>1, OneLess
<1> QED
  BY <1>2 DEF i, r

LEMMA OneMore ==
  ASSUME NEW K, NEW q \in Seq(K), NEW e \in K, NEW k
  PROVE  Cardinality(Places(Append(q, e), k))
           = Cardinality(Places(q, k)) + IF e = k THEN 1 ELSE 0
<1>1. Len(q) \in Nat /\ Len(Append(q, e)) = Len(q) + 1
  OBVIOUS
<1>2. Places(Append(q, e), k)
        = IF e = k THEN Places(q, k) \cup {Len(q) + 1} ELSE Places(q, k)
  BY <1>1 DEF Places
<1>3. Len(q) + 1 \notin Places(q, k)
  BY <1>1 DEF Places
<1>4. IsFiniteSet(Places(q, k)) /\ Cardinality(Places(q, k)) \in Nat
  BY PlacesFinite
<1>5. Cardinality(Places(q, k) \cup {Len(q) + 1}) = Cardinality(Places(q, k)) + 1
  BY <1>3, <1>4, FS_AddElement
<1> QED
  BY <1>2, <1>4, <1>5

LEMMA Smallest ==
  ASSUME NEW S \in SUBSET Nat, S # {}
  PROVE  \E n \in S : \A m \in S : n <= m
<1>1. PICK n \in S : \A m \in S : ~ (<<m, n>> \in OpToRel(<, Nat))
  BY NatLessThanWellFounded, WFMin
<1>2. ASSUME NEW m \in S, m < n PROVE FALSE
  <2>1. <<m, n>> \in OpToRel(<, Nat)
    BY <1>2 DEF OpToRel
  <2> QED
    BY <1>1, <2>1
<1>3. \A m \in S : n <= m
  BY <1>2
<1> QED
  BY <1>3

KeyPlaces(q, i) == {j \in 1 .. Len(q) : ShedKey[q[j]] = ShedKey[q[i]]}

LEMMA KeyCounts ==
  ASSUME NEW K, NEW q \in Seq(K), NEW i \in 1 .. Len(q)
  PROVE  /\ IsFiniteSet(KeyPlaces(q, i))
         /\ KeyCount(q, i) = Cardinality(KeyPlaces(q, i))
         /\ KeyCount(q, i) \in 1 .. Len(q)
         /\ KeyCount(q, i) >= 2 <=> \E j \in KeyPlaces(q, i) : j # i
<1>1. Len(q) \in Nat /\ i \in KeyPlaces(q, i)
  BY DEF KeyPlaces
<1>2. IsFiniteSet(1 .. Len(q)) /\ Cardinality(1 .. Len(q)) = Len(q)
  BY <1>1, FS_Interval
<1>3. /\ IsFiniteSet(KeyPlaces(q, i)) /\ Cardinality(KeyPlaces(q, i)) <= Len(q)
      /\ Cardinality(KeyPlaces(q, i)) \in Nat
  <2>1. KeyPlaces(q, i) \in SUBSET (1 .. Len(q))
    BY DEF KeyPlaces
  <2> QED
    BY <1>2, <2>1, FS_Subset, FS_CardinalityType
<1>4. Cardinality(KeyPlaces(q, i)) # 0
  BY <1>1, <1>3, FS_EmptySet
<1>5. Cardinality(KeyPlaces(q, i)) = 1 <=> \E x : KeyPlaces(q, i) = {x}
  BY <1>3, FS_Singleton
<1>6. KeyCount(q, i) = Cardinality(KeyPlaces(q, i))
  BY DEF KeyCount, KeyPlaces
<1>7. (\E x : KeyPlaces(q, i) = {x}) <=> KeyPlaces(q, i) = {i}
  BY <1>1
<1>8. Cardinality(KeyPlaces(q, i)) >= 2 <=> \E j \in KeyPlaces(q, i) : j # i
  <2>1. Cardinality(KeyPlaces(q, i)) >= 2 <=> KeyPlaces(q, i) # {i}
    <3>1. Cardinality(KeyPlaces(q, i)) = 1 <=> KeyPlaces(q, i) = {i}
      BY <1>5, <1>7, Zenon
    <3> DEFINE c == Cardinality(KeyPlaces(q, i))
    <3>2. c \in Nat /\ c # 0
      BY <1>3, <1>4
    <3> HIDE DEF c
    <3>3. c >= 2 <=> c # 1
      BY <3>2
    <3> QED
      BY <3>1, <3>3 DEF c
  <2> QED
    BY <1>1, <2>1
<1> QED
  BY <1>1, <1>3, <1>4, <1>6, <1>8

LEMMA VictimFits ==
  ASSUME NEW K, NEW q \in Seq(K), q # <<>>
  PROVE  /\ Victim(q) \in 1 .. Len(q)
         /\ \A j \in 1 .. Len(q) : KeyCount(q, j) <= KeyCount(q, Victim(q))
<1> DEFINE I == 1 .. Len(q)
           best(i) == \A j \in I : KeyCount(q, j) <= KeyCount(q, i)
           spare == {Len(q) - KeyCount(q, i) : i \in I}
<1>1. Len(q) \in Nat /\ I # {}
  OBVIOUS
<1>2. \A i \in I : KeyCount(q, i) \in 1 .. Len(q)
  BY KeyCounts
<1>3. \E i \in I : best(i)
  <2>1. spare \in SUBSET Nat /\ spare # {}
    BY <1>1, <1>2
  <2>2. PICK n \in spare : \A m \in spare : n <= m
    BY <2>1, Smallest
  <2>3. PICK i \in I : n = Len(q) - KeyCount(q, i)
    BY <2>2
  <2>4. \A j \in I : KeyCount(q, j) <= KeyCount(q, i)
    <3> SUFFICES ASSUME NEW j \in I PROVE KeyCount(q, j) <= KeyCount(q, i)
      OBVIOUS
    <3>1. KeyCount(q, i) \in Nat /\ KeyCount(q, j) \in Nat
      BY <1>2
    <3>2. Len(q) - KeyCount(q, i) <= Len(q) - KeyCount(q, j)
      BY <2>2, <2>3
    <3> QED
      BY <1>1, <3>1, <3>2
  <2> QED
    BY <2>3, <2>4
<1>4. PICK v \in {i \in I : best(i)} : \A j \in {i \in I : best(i)} : v <= j
  <2>1. {i \in I : best(i)} # {} /\ {i \in I : best(i)} \in SUBSET Nat
    BY <1>1, <1>3
  <2> QED
    BY <2>1, Smallest
<1>5. \A j \in I : \/ KeyCount(q, v) > KeyCount(q, j)
                   \/ KeyCount(q, v) = KeyCount(q, j) /\ v <= j
  <2> SUFFICES ASSUME NEW j \in I, KeyCount(q, v) = KeyCount(q, j) PROVE v <= j
    BY <1>2, <1>4
  <2>1. best(j)
    BY <1>4
  <2> QED
    BY <1>4, <2>1
<1>6. /\ Victim(q) \in I
      /\ \A j \in I : \/ KeyCount(q, Victim(q)) > KeyCount(q, j)
                      \/ KeyCount(q, Victim(q)) = KeyCount(q, j) /\ Victim(q) <= j
  BY <1>4, <1>5 DEF Victim
<1>7. KeyCount(q, Victim(q)) \in Nat
  BY <1>2, <1>6
<1> QED
  BY <1>2, <1>6, <1>7

(* With fewer keys than places, the victim's key repeats.                    *)
LEMMA VictimRepeats ==
  ASSUME NEW K, NEW q \in Seq(K), q # <<>>,
         NEW R, IsFiniteSet(R), Cardinality(R) < Len(q),
         \A i \in 1 .. Len(q) : ShedKey[q[i]] \in R
  PROVE  \E j \in 1 .. Len(q) : j # Victim(q) /\ ShedKey[q[j]] = ShedKey[q[Victim(q)]]
<1> DEFINE I == 1 .. Len(q)
           keyAt == [i \in I |-> ShedKey[q[i]]]
<1>1. IsFiniteSet(I) /\ Cardinality(I) = Len(q) /\ Len(q) \in Nat
  BY FS_Interval
<1>2. keyAt \in [I -> R]
  OBVIOUS
<1>3. PICK x \in I, y \in I : x # y /\ keyAt[x] = keyAt[y]
  <2> HIDE DEF keyAt, I
  <2>1. Cardinality(R) < Cardinality(I)
    BY <1>1
  <2> QED
    BY <1>1, <1>2, <2>1, FS_PigeonHole
<1>4. KeyCount(q, x) >= 2
  <2>1. y \in KeyPlaces(q, x)
    BY <1>3 DEF KeyPlaces
  <2> QED
    BY <1>3, <2>1, KeyCounts
<1>5. KeyCount(q, Victim(q)) >= 2 /\ Victim(q) \in I
  <2>1. KeyCount(q, x) \in Nat /\ Victim(q) \in I /\ KeyCount(q, x) <= KeyCount(q, Victim(q))
    BY VictimFits, KeyCounts
  <2>2. KeyCount(q, Victim(q)) \in Nat
    BY <2>1, KeyCounts
  <2> QED
    BY <1>4, <2>1, <2>2
<1>6. PICK j \in KeyPlaces(q, Victim(q)) : j # Victim(q)
  BY <1>5, KeyCounts
<1> QED
  BY <1>6 DEF KeyPlaces

-----------------------------------------------------------------------------
(* Types.                                                                    *)

Queueable == Kind \ {Report}

Coherent == \A p \in Process : held[p] = None <=> phase[p] \in {"asleep", "draining"}

TypeInv == TypeOK /\ Coherent

LEMMA PlusTyped ==
  ASSUME NEW count \in Counts, NEW p \in Process, NEW k \in Kind
  PROVE  /\ Plus(count, p, k) \in Counts
         /\ Plus(count, p, k)[p] = [count[p] EXCEPT ![k] = @ + 1]
         /\ \A j \in Kind : Plus(count, p, k)[p][j] = count[p][j] + IF j = k THEN 1 ELSE 0
         /\ \A q \in Process \ {p} : Plus(count, p, k)[q] = count[q]
BY DEF Plus, Counts

(* _append: the queue keeps to its room; of each kind, what is queued and    *)
(* what was shed grow together by what came; and what was shed is counted.   *)
LEMMA Appended ==
  ASSUME TypeOK, NEW p \in Process, NEW e \in Queueable, AppendCapture(p, e)
  PROVE  /\ queue' \in [Process -> Seq(Queueable)] /\ \A q \in Process : Len(queue'[q]) <= Room
         /\ dropped' \in [Process -> Nat] /\ shed' \in Counts
         /\ \A k \in Queueable :
              Queued(p, k)' + shed'[p][k] = Queued(p, k) + shed[p][k] + IF e = k THEN 1 ELSE 0
         /\ SumFunction(shed'[p]) + dropped[p] = SumFunction(shed[p]) + dropped'[p]
         /\ \A q \in Process \ {p} :
              queue'[q] = queue[q] /\ dropped'[q] = dropped[q] /\ shed'[q] = shed[q]
<1> DEFINE q == queue[p]
<1>1. q \in Seq(Queueable) /\ Len(q) \in Nat /\ Len(q) <= Room /\ Room \in Nat \ {0}
  BY RoomAssumption DEF TypeOK, Queueable
<1>2. Append(q, e) \in Seq(Queueable) /\ Len(Append(q, e)) = Len(q) + 1
  BY <1>1
<1>3. \A k : Queued(p, k) = Cardinality(Places(q, k)) /\ Queued(p, k) \in Nat
  BY <1>1, PlacesFinite DEF Queued, Places
<1>7. \A k : Queued(p, k)' = Cardinality(Places(queue'[p], k))
  BY DEF Queued, Places
<1>4. shed \in Counts /\ dropped \in [Process -> Nat] /\ queue \in [Process -> Seq(Queueable)]
      /\ \A r \in Process : Len(queue[r]) <= Room
  BY DEF TypeOK, Queueable
<1>5. CASE Len(q) < Room
  <2>1. queue' = [queue EXCEPT ![p] = Append(q, e)] /\ UNCHANGED <<dropped, shed>>
    BY <1>5 DEF AppendCapture
  <2>2. queue'[p] = Append(q, e) /\ \A r \in Process \ {p} : queue'[r] = queue[r]
    BY <1>4, <2>1
  <2>3. queue' \in [Process -> Seq(Queueable)] /\ \A r \in Process : Len(queue'[r]) <= Room
    BY <1>1, <1>2, <1>4, <1>5, <2>1, <2>2
  <2>4. \A k : Queued(p, k)' = Cardinality(Places(q, k)) + IF e = k THEN 1 ELSE 0
    <3>1. \A k : Cardinality(Places(Append(q, e), k))
                  = Cardinality(Places(q, k)) + IF e = k THEN 1 ELSE 0
      BY <1>1, OneMore
    <3> QED
      BY <1>7, <2>2, <3>1
  <2>5. \A k \in Queueable : shed[p][k] \in Nat
    BY <1>4 DEF Counts, Queueable
  <2>6. ASSUME NEW k \in Queueable
        PROVE  Queued(p, k)' + shed'[p][k]
                 = Queued(p, k) + shed[p][k] + IF e = k THEN 1 ELSE 0
    BY <1>3, <2>1, <2>4, <2>5
  <2>7. SumFunction(shed'[p]) + dropped[p] = SumFunction(shed[p]) + dropped'[p]
    BY <2>1
  <2> QED
    BY <1>4, <2>1, <2>2, <2>3, <2>6, <2>7
<1>6. CASE ~ (Len(q) < Room)
  <2> DEFINE v == Victim(q)
             r == RemoveAt(q, v)
  <2>1. /\ queue' = [queue EXCEPT ![p] = Append(r, e)]
        /\ dropped' = [dropped EXCEPT ![p] = @ + 1]
        /\ shed' = Plus(shed, p, q[v])
    BY <1>6 DEF AppendCapture
  <2>2. v \in 1 .. Len(q)
    BY <1>1, <1>6, VictimFits
  <2>3. r \in Seq(Queueable) /\ Without(q, v, r) /\ q[v] \in Queueable
    BY <1>1, <2>2, RemovedPlace
  <2> HIDE DEF v, r
  <2>4. Len(r) = Len(q) - 1
    BY <2>3 DEF Without
  <2>5. queue'[p] = Append(r, e) /\ \A s \in Process \ {p} : queue'[s] = queue[s]
    BY <1>4, <2>1
  <2>6. Append(r, e) \in Seq(Queueable) /\ Len(Append(r, e)) <= Room
    BY <1>1, <2>3, <2>4
  <2>7. queue' \in [Process -> Seq(Queueable)] /\ \A s \in Process : Len(queue'[s]) <= Room
    BY <1>4, <2>1, <2>5, <2>6
  <2>8. \A k : Cardinality(Places(q, k)) = Cardinality(Places(r, k)) + IF q[v] = k THEN 1 ELSE 0
    BY <1>1, <2>2, <2>3, OneLess
  <2>9. \A k : Queued(p, k)' = Cardinality(Places(r, k)) + IF e = k THEN 1 ELSE 0
    <3>1. \A k : Cardinality(Places(Append(r, e), k))
                  = Cardinality(Places(r, k)) + IF e = k THEN 1 ELSE 0
      BY <2>3, OneMore
    <3> QED
      BY <1>7, <2>5, <3>1
  <2>10. /\ shed' \in Counts
         /\ shed'[p] = [shed[p] EXCEPT ![q[v]] = @ + 1]
         /\ \A k \in Kind : shed'[p][k] = shed[p][k] + IF k = q[v] THEN 1 ELSE 0
         /\ \A s \in Process \ {p} : shed'[s] = shed[s]
    <3> DEFINE x == q[v]
    <3>1. x \in Kind /\ shed' = Plus(shed, p, x)
      BY <2>1, <2>3 DEF Queueable
    <3> SUFFICES /\ shed' \in Counts
                 /\ shed'[p] = [shed[p] EXCEPT ![x] = @ + 1]
                 /\ \A k \in Kind : shed'[p][k] = shed[p][k] + IF k = x THEN 1 ELSE 0
                 /\ \A s \in Process \ {p} : shed'[s] = shed[s]
      OBVIOUS
    <3> HIDE DEF x
    <3>2. shed \in Counts
      BY <1>4
    <3>3. /\ Plus(shed, p, x) \in Counts
          /\ Plus(shed, p, x)[p] = [shed[p] EXCEPT ![x] = @ + 1]
          /\ \A k \in Kind : Plus(shed, p, x)[p][k] = shed[p][k] + IF k = x THEN 1 ELSE 0
          /\ \A s \in Process \ {p} : Plus(shed, p, x)[s] = shed[s]
      BY <3>1, <3>2, PlusTyped
    <3> QED
      BY <3>1, <3>3
  <2>11. /\ dropped' \in [Process -> Nat] /\ dropped'[p] = dropped[p] + 1
         /\ \A s \in Process \ {p} : dropped'[s] = dropped[s]
    BY <1>4, <2>1
  <2>12. SumFunction(shed[p]) \in Nat /\ SumFunction(shed'[p]) = SumFunction(shed[p]) + 1
    <3>1. shed[p] \in [Kind -> Nat] /\ q[v] \in Kind
      BY <1>4, <2>3 DEF Counts, Queueable
    <3>2. IsFiniteSet(Kind)
      BY KindAssumption
    <3> HIDE DEF q
    <3>3. SumFunction([shed[p] EXCEPT ![q[v]] = @ + 1]) = SumFunction(shed[p]) + 1
          /\ SumFunction(shed[p]) \in Nat
      BY <3>1, <3>2, SumOneMore
    <3> QED
      BY <2>10, <3>3
  <2>13. \A k \in Queueable : shed[p][k] \in Nat /\ k \in Kind
    BY <1>4 DEF Counts, Queueable
  <2>14. \A k : Cardinality(Places(r, k)) \in Nat
    BY <2>3, PlacesFinite
  <2>15. ASSUME NEW k \in Queueable
         PROVE  Queued(p, k)' + shed'[p][k]
                  = Queued(p, k) + shed[p][k] + IF e = k THEN 1 ELSE 0
    BY <1>3, <2>8, <2>9, <2>10, <2>13, <2>14
  <2>16. SumFunction(shed'[p]) + dropped[p] = SumFunction(shed[p]) + dropped'[p]
    <3>1. dropped[p] \in Nat
      BY <1>4
    <3> QED
      BY <2>11, <2>12, <3>1
  <2> QED
    BY <2>5, <2>7, <2>10, <2>11, <2>15, <2>16
<1> QED
  BY <1>5, <1>6

LEMMA InitTyped == Init => TypeInv
<1> SUFFICES ASSUME Init PROVE TypeInv
  OBVIOUS
<1>1. PICK b \in Budgets :
        toRaise = b.raises /\ faults = b.faults /\ stops = b.stops /\ triages = b.triages
  BY DEF Init
<1>2. toRaise \in [Process -> [Ordinary -> Nat]] /\ faults \in Nat /\ stops \in Nat /\ triages \in Nat
  BY <1>1, BudgetAssumption DEF Ordinary
<1>3. TrackerTypeOK
  BY <1>2, InitIInv DEF IInv, TrackerTypes, VerdictTypes, TrackerTypeOK
<1>4. Zeros \in Counts
  BY DEF Zeros, Counts
<1>5. \A p \in Process : queue[p] = <<>> /\ Len(queue[p]) = 0
  BY DEF Init
<1> QED
  BY <1>2, <1>3, <1>4, <1>5, RoomAssumption, AbsentIsARow DEF Init, TypeInv, TypeOK, Coherent

LEMMA CaptureTyped ==
  ASSUME TypeInv, TrackerTypeOK', NEW p \in Process, NEW k \in Ordinary, Capture(p, k)
  PROVE  TypeInv'
<1>1. k \in Queueable /\ k \in Kind
  BY DEF Ordinary, Queueable
<1>2. /\ queue' \in [Process -> Seq(Queueable)] /\ \A q \in Process : Len(queue'[q]) <= Room
      /\ dropped' \in [Process -> Nat] /\ shed' \in Counts
  BY <1>1, Appended DEF Capture, TypeInv
<1>3. raised' \in Counts
  BY <1>1, PlusTyped DEF Capture, TypeInv, TypeOK
<1>4. toRaise' \in [Process -> [Ordinary -> Nat]]
  <2>1. toRaise \in [Process -> [Ordinary -> Nat]] /\ toRaise[p][k] - 1 \in Nat
    BY DEF Capture, TypeInv, TypeOK
  <2> QED
    BY <2>1 DEF Capture
<1>5. late' \in [Process -> BOOLEAN]
  BY DEF Capture, Disturbs, TypeInv, TypeOK
<1> QED
  BY <1>2, <1>3, <1>4, <1>5 DEF Capture, tick, Queueable, TypeInv, TypeOK, Coherent

LEMMA StartTickTyped ==
  ASSUME TypeInv, TrackerTypeOK', NEW p \in Process, StartTick(p)
  PROVE  TypeInv'
<1>1. Len(queue[p]) \in 0 .. Room
  BY RoomAssumption DEF TypeInv, TypeOK
<1> QED
  BY <1>1 DEF StartTick, Snapshot, Goes, bounds, ledger, TypeInv, TypeOK, Coherent

LEMMA PopTyped ==
  ASSUME TypeInv, TrackerTypeOK', NEW p \in Process, Pop(p)
  PROVE  TypeInv'
<1>1. queue[p] \in Seq(Queueable) /\ queue[p] # <<>> /\ Len(queue[p]) <= Room
  BY DEF Pop, TypeInv, TypeOK, Queueable
<1>2. /\ Head(queue[p]) \in Queueable /\ Tail(queue[p]) \in Seq(Queueable)
      /\ Len(Tail(queue[p])) <= Room
  BY <1>1, RoomAssumption
<1>3. held' \in [Process -> Kind \cup {None}] /\ Coherent'
  BY <1>2, KindAssumption DEF Pop, Goes, TypeInv, TypeOK, Coherent, Queueable
<1>4. left' \in [Process -> 0 .. Room]
  BY RoomAssumption DEF Pop, TypeInv, TypeOK
<1>5. queue' \in [Process -> Seq(Queueable)] /\ \A q \in Process : Len(queue'[q]) <= Room
  BY <1>2 DEF Pop, TypeInv, TypeOK, Queueable
<1> QED
  BY <1>3, <1>4, <1>5 DEF Pop, Goes, bounds, ledger, TypeInv, TypeOK, Queueable

LEMMA EndLoopTyped ==
  ASSUME TypeInv, TrackerTypeOK', NEW p \in Process, EndLoop(p)
  PROVE  TypeInv'
<1>1. /\ held' \in [Process -> Kind \cup {None}] /\ Coherent'
      /\ phase' \in [Process -> {"asleep", "draining", "tracking", "looked", "keeping"}]
      /\ left' \in [Process -> 0 .. Room] /\ life' \in [Process -> {"up", "first", "last", "gone"}]
  <2>1. CASE toTell[p] > 0
    <3>1. /\ held' = [held EXCEPT ![p] = Report] /\ phase' = [phase EXCEPT ![p] = "tracking"]
          /\ UNCHANGED <<left, life>>
      BY <2>1 DEF EndLoop, Goes
    <3> QED
      BY <3>1, KindAssumption DEF TypeInv, TypeOK, Coherent
  <2>2. CASE ~ (toTell[p] > 0)
    <3>1. /\ phase' = [phase EXCEPT ![p] = "asleep"] /\ left' = [left EXCEPT ![p] = 0]
          /\ life' = [life EXCEPT ![p] = NextLife(p)] /\ UNCHANGED held /\ phase[p] = "draining"
      BY <2>2 DEF EndLoop, Goes
    <3>2. NextLife(p) \in {"up", "first", "last", "gone"}
      BY DEF NextLife, TypeInv, TypeOK
    <3> QED
      BY <3>1, <3>2, RoomAssumption DEF TypeInv, TypeOK, Coherent
  <2> QED
    BY <2>1, <2>2
<1> QED
  BY <1>1 DEF EndLoop, memory, bounds, ledger, TypeInv, TypeOK

LEMMA LookTyped ==
  ASSUME TypeInv, TrackerTypeOK', NEW p \in Process, Look(p)
  PROVE  TypeInv'
<1>1. held[p] \in Kind
  BY DEF Look, TypeInv, TypeOK, Coherent
<1>2. issue[PrintOf[held[p]]] \in Rows
  BY <1>1, PrintAssumption DEF TypeInv, TypeOK, TrackerTypeOK
<1>3. look' \in [Process -> Rows]
  BY <1>2 DEF Look, TypeInv, TypeOK
<1>4. Coherent' /\ phase' \in [Process -> {"asleep", "draining", "tracking", "looked", "keeping"}]
  BY DEF Look, Goes, TypeInv, TypeOK, Coherent
<1> QED
  BY <1>3, <1>4 DEF Look, memory, bounds, ledger, TypeInv, TypeOK

LEMMA DeliveredTyped ==
  ASSUME TypeInv, TrackerTypeOK', NEW p \in Process, Delivered(p)
  PROVE  TypeInv'
<1>1. held[p] \in Kind
  BY DEF Delivered, Fold, TypeInv, TypeOK, Coherent
<1>2. folded' \in Counts
  BY <1>1, PlusTyped DEF Delivered, Fold, TypeInv, TypeOK
<1>3. said' \in [Process -> Nat] /\ toTell' \in [Process -> Nat]
  BY DEF Delivered, Tell, TypeInv, TypeOK
<1>4. /\ held' \in [Process -> Kind \cup {None}] /\ look' \in [Process -> Rows] /\ Coherent'
      /\ phase' \in [Process -> {"asleep", "draining", "tracking", "looked", "keeping"}]
  BY AbsentIsARow DEF Delivered, Goes, TypeInv, TypeOK, Coherent
<1> QED
  BY <1>2, <1>3, <1>4 DEF Delivered, memory, bounds, TypeInv, TypeOK

LEMMA FailureTyped ==
  ASSUME TypeInv, TrackerTypeOK', NEW p \in Process, TrackerFails(p) \/ AnswerLost(p)
  PROVE  TypeInv'
<1>1. held[p] \in Kind /\ phase[p] \in {"tracking", "looked"} /\ ReportFailure(p)
  BY DEF TrackerFails, AnswerLost, Fold, TypeInv, TypeOK, Coherent
<1>2. folded' \in Counts /\ twice' \in Counts
  <2>1. folded \in Counts /\ twice \in Counts
    BY DEF TypeInv, TypeOK
  <2>2. \/ UNCHANGED <<folded, twice>>
        \/ folded' = Plus(folded, p, held[p]) /\ twice' = Plus(twice, p, held[p])
    BY DEF TrackerFails, AnswerLost, Fold
  <2>3. Plus(folded, p, held[p]) \in Counts /\ Plus(twice, p, held[p]) \in Counts
    BY <1>1, <2>1, PlusTyped
  <2> QED
    BY <2>1, <2>2, <2>3
<1>3. Fault \in Queueable /\ Fault \in Kind
  BY KindAssumption DEF Queueable
<1>4. /\ queue' \in [Process -> Seq(Queueable)] /\ \A q \in Process : Len(queue'[q]) <= Room
      /\ dropped' \in [Process -> Nat] /\ shed' \in Counts /\ raised' \in Counts
  <2>1. CASE failing[p]
    BY <1>1, <2>1 DEF ReportFailure, TypeInv, TypeOK, Queueable
  <2>2. CASE ~ failing[p]
    <3>1. AppendCapture(p, Fault) /\ raised' = Plus(raised, p, Fault)
      BY <1>1, <2>2 DEF ReportFailure
    <3> QED
      BY <1>3, <3>1, Appended, PlusTyped DEF TypeInv, TypeOK
  <2> QED
    BY <2>1, <2>2
<1>5. /\ failing' \in [Process -> BOOLEAN] /\ late' \in [Process -> BOOLEAN]
      /\ look' \in [Process -> Rows] /\ faults' \in Nat
      /\ phase' \in [Process -> {"asleep", "draining", "tracking", "looked", "keeping"}]
  BY <1>1, AbsentIsARow DEF ReportFailure, Goes, Disturbs, TypeInv, TypeOK
<1>6. Coherent'
  BY <1>1 DEF ReportFailure, Goes, TypeInv, TypeOK, Coherent
<1> QED
  BY <1>1, <1>2, <1>4, <1>5, <1>6 DEF ReportFailure, TypeInv, TypeOK, Queueable

LEMMA KeepTyped ==
  ASSUME TypeInv, TrackerTypeOK', NEW p \in Process, Keep(p)
  PROVE  TypeInv'
<1>1. held[p] \in Kind
  BY DEF Keep, TypeInv, TypeOK, Coherent
<1>2. /\ queue' \in [Process -> Seq(Queueable)] /\ \A q \in Process : Len(queue'[q]) <= Room
      /\ dropped' \in [Process -> Nat] /\ shed' \in Counts /\ toTell' \in [Process -> Nat]
  <2>1. CASE held[p] = Report
    <3>1. /\ dropped' = [dropped EXCEPT ![p] = @ + toTell[p]]
          /\ toTell' = [toTell EXCEPT ![p] = 0]
          /\ UNCHANGED <<queue, shed>>
      BY <2>1 DEF Keep
    <3> QED
      BY <3>1 DEF TypeInv, TypeOK, Queueable
  <2>2. CASE held[p] # Report
    <3>1. AppendCapture(p, held[p]) /\ held[p] \in Queueable /\ UNCHANGED toTell
      BY <1>1, <2>2 DEF Keep, Queueable
    <3> QED
      BY <3>1, Appended DEF TypeInv, TypeOK
  <2> QED
    BY <2>1, <2>2
<1>3. /\ held' \in [Process -> Kind \cup {None}] /\ left' \in [Process -> 0 .. Room] /\ Coherent'
      /\ phase' \in [Process -> {"asleep", "draining", "tracking", "looked", "keeping"}]
  BY RoomAssumption DEF Keep, Goes, TypeInv, TypeOK, Coherent
<1> QED
  BY <1>2, <1>3 DEF Keep, bounds, TypeInv, TypeOK, Queueable

LEMMA StopTyped ==
  ASSUME TypeInv, TrackerTypeOK', NEW p \in Process, Stop(p)
  PROVE  TypeInv'
<1>1. life' \in [Process -> {"up", "first", "last", "gone"}] /\ stops' \in Nat
  BY DEF Stop, TypeInv, TypeOK
<1>2. CASE CancelDelivery(p)
  <2>1. held[p] \in Kind
    BY <1>2 DEF CancelDelivery, TypeInv, TypeOK, Coherent
  <2>2. folded' \in Counts /\ cut' \in Counts
    <3>1. folded \in Counts /\ cut \in Counts
      BY DEF TypeInv, TypeOK
    <3>2. \/ folded' = Plus(folded, p, held[p]) /\ UNCHANGED cut
          \/ UNCHANGED folded /\ (cut' = cut \/ cut' = Plus(cut, p, held[p]))
      BY <1>2 DEF CancelDelivery, Fold
    <3>3. Plus(folded, p, held[p]) \in Counts /\ Plus(cut, p, held[p]) \in Counts
      BY <2>1, <3>1, PlusTyped
    <3> QED
      BY <3>1, <3>2, <3>3
  <2>3. said' \in [Process -> Nat] /\ cutTold' \in [Process -> Nat] /\ toTell' \in [Process -> Nat]
    <3>1. /\ said \in [Process -> Nat] /\ cutTold \in [Process -> Nat]
          /\ toTell \in [Process -> Nat]
      BY DEF TypeInv, TypeOK
    <3>2. toTell[p] \in Nat /\ (IF held[p] = Report THEN toTell[p] ELSE 0) \in Nat
          /\ (IF held[p] = Report THEN 0 ELSE toTell[p]) \in Nat
      BY <3>1
    <3>3. \/ /\ said' = [said EXCEPT ![p] = @ + IF held[p] = Report THEN toTell[p] ELSE 0]
             /\ cutTold' = [cutTold EXCEPT ![p] = @ + IF held[p] = Report THEN 0 ELSE toTell[p]]
          \/ UNCHANGED said /\ cutTold' = [cutTold EXCEPT ![p] = @ + toTell[p]]
      BY <1>2 DEF CancelDelivery
    <3>4. toTell' = [toTell EXCEPT ![p] = 0]
      BY <1>2 DEF CancelDelivery
    <3> QED
      BY <3>1, <3>2, <3>3, <3>4
  <2>4. /\ held' \in [Process -> Kind \cup {None}] /\ left' \in [Process -> 0 .. Room] /\ Coherent'
        /\ phase' \in [Process -> {"asleep", "draining", "tracking", "looked", "keeping"}]
        /\ look' \in [Process -> Rows]
    BY <1>2, RoomAssumption, AbsentIsARow DEF CancelDelivery, Goes, TypeInv, TypeOK, Coherent
  <2> QED
    BY <1>1, <1>2, <2>2, <2>3, <2>4 DEF CancelDelivery, memory, TypeInv, TypeOK
<1>3. CASE UNCHANGED <<trackerVars, memory, tick, toRaise, faults, ledger, late>>
  BY <1>1, <1>3 DEF memory, tick, ledger, TypeInv, TypeOK, Coherent
<1> QED
  BY <1>2, <1>3 DEF Stop

LEMMA NextTyped == IInv /\ TypeInv /\ [Next]_vars => TypeInv'
<1> SUFFICES ASSUME IInv, TypeInv, [Next]_vars PROVE TypeInv'
  OBVIOUS
<1>1. IInv'
  BY NextIInv
<1>2. triages \in Nat /\ triages' \in Nat
  <2>1. triages \in Nat
    BY DEF TypeInv, TypeOK, TrackerTypeOK
  <2>2. UNCHANGED triages \/ (triages > 0 /\ triages' = triages - 1)
    <3>1. ASSUME NEW p \in Process, NEW k \in Ordinary, Capture(p, k) PROVE UNCHANGED triages
      BY <3>1 DEF Capture, trackerVars
    <3>2. ASSUME NEW p \in Process, Drain(p) PROVE UNCHANGED triages
      BY <3>2 DEF Drain, StartTick, Pop, EndLoop, Look, Delivered, Fold, TrackerFails, AnswerLost,
         Keep, trackerVars
    <3>3. ASSUME NEW p \in Process, Stop(p) PROVE UNCHANGED triages
      BY <3>3 DEF Stop, CancelDelivery, Fold, trackerVars
    <3>4. ASSUME NEW a \in Admin, LoadIssue(a)
          PROVE  triages > 0 /\ triages' = triages - 1
      BY <3>4 DEF LoadIssue
    <3>5. ASSUME NEW a \in Admin, SetIssueStatus(a) \/ TriageFails(a) PROVE UNCHANGED triages
      BY <3>5 DEF SetIssueStatus, TriageFails
    <3>6. ASSUME UNCHANGED vars PROVE UNCHANGED triages
      BY <3>6 DEF vars, trackerVars
    <3>7. CASE Administration
      BY <3>4, <3>5, <3>7 DEF Administration, Triage
    <3>8. CASE Next
      BY <3>1, <3>2, <3>3, <3>7, <3>8 DEF Next
    <3> QED
      BY <3>6, <3>8
  <2> QED
    BY <2>1, <2>2
<1>3. TrackerTypeOK'
  BY <1>1, <1>2 DEF IInv, TrackerTypes, VerdictTypes, TrackerTypeOK
<1>4. ASSUME NEW p \in Process, NEW k \in Ordinary, Capture(p, k) PROVE TypeInv'
  BY <1>3, <1>4, CaptureTyped
<1>5. ASSUME NEW p \in Process, Drain(p) \/ Stop(p) PROVE TypeInv'
  BY <1>3, <1>5, StartTickTyped, PopTyped, EndLoopTyped, LookTyped, DeliveredTyped, FailureTyped,
     KeepTyped, StopTyped DEF Drain
<1>6. CASE Administration \/ UNCHANGED vars
  BY <1>3, <1>6 DEF Administration, vars, memory, tick, bounds, ledger, TypeInv, TypeOK, Coherent
<1> QED
  BY <1>4, <1>5, <1>6 DEF Next

(* Every variable keeps its type: of the queue, its bound too.               *)
THEOREM TypeCorrect == Spec => []TypeOK
<1>1. Init => IInv /\ TypeInv
  BY InitIInv, InitTyped
<1>2. IInv /\ TypeInv /\ [Next]_vars => (IInv /\ TypeInv)'
  BY NextIInv, NextTyped
<1>3. TypeInv => TypeOK
  BY DEF TypeInv
<1> QED
  BY <1>1, <1>2, <1>3, PTL DEF Spec

-----------------------------------------------------------------------------
(* What a process accounts for, and how it stops.                            *)

\* The captures of kind k that are somewhere to be found.
Alive(p, k) == Queued(p, k) + Holds(p, k) + folded[p][k] + cut[p][k]

Accounted(p) ==
  /\ \A k \in Queueable : raised[p][k] + twice[p][k] = Alive(p, k) + shed[p][k]
  /\ \A k \in Kind : twice[p][k] <= folded[p][k]
  /\ SumFunction(shed[p]) = dropped[p] + toTell[p] + said[p] + cutTold[p]
  /\ phase[p] = "asleep" => toTell[p] = 0

KeysSurvive(p) ==
  Cardinality(RaisedKeys(p)) < Room =>
    \A key \in RaisedKeys(p) : \E k \in Queueable : ShedKey[k] = key /\ Alive(p, k) > 0

\* In its last tick a process that nothing disturbs has as many captures to pop as it has.
Stopping(p) ==
  /\ life[p] = "last" /\ ~ late[p] =>
       /\ phase[p] # "keeping"
       /\ phase[p] # "asleep" => left[p] = Len(queue[p]) /\ dropped[p] = 0
  /\ life[p] = "gone" =>
       phase[p] = "asleep" /\ (late[p] \/ (queue[p] = <<>> /\ dropped[p] = 0))

ProcessInv(p) == Accounted(p) /\ KeysSurvive(p) /\ Stopping(p)

\* Nothing of p changes.
Untouched(p) ==
  /\ queue'[p] = queue[p] /\ dropped'[p] = dropped[p] /\ phase'[p] = phase[p]
  /\ left'[p] = left[p] /\ toTell'[p] = toTell[p] /\ held'[p] = held[p]
  /\ life'[p] = life[p] /\ late'[p] = late[p]
  /\ raised'[p] = raised[p] /\ folded'[p] = folded[p] /\ shed'[p] = shed[p]
  /\ cut'[p] = cut[p] /\ twice'[p] = twice[p]
  /\ said'[p] = said[p] /\ cutTold'[p] = cutTold[p]

LEMMA UntouchedKeeps ==
  ASSUME NEW p \in Process, ProcessInv(p), Untouched(p)
  PROVE  ProcessInv(p)'
<1>1. \A k : Queued(p, k)' = Queued(p, k) /\ Holds(p, k)' = Holds(p, k) /\ Alive(p, k)' = Alive(p, k)
  BY DEF Untouched, Queued, Holds, Alive
<1>2. RaisedKeys(p)' = RaisedKeys(p)
  BY DEF Untouched, RaisedKeys
<1>3. Accounted(p)'
  BY <1>1 DEF Untouched, ProcessInv, Accounted
<1>4. KeysSurvive(p)'
  BY <1>1, <1>2 DEF ProcessInv, KeysSurvive
<1>5. Stopping(p)'
  BY DEF Untouched, ProcessInv, Stopping
<1> QED
  BY <1>3, <1>4, <1>5 DEF ProcessInv

(* A step of one process is a step of that process.                          *)
LEMMA OthersUntouched ==
  ASSUME TypeInv, NEW p \in Process, NEW q \in Process \ {p},
         (\E k \in Ordinary : Capture(p, k)) \/ Drain(p) \/ Stop(p)
  PROVE  Untouched(q)
<1>1. ASSUME NEW e \in Queueable, AppendCapture(p, e)
      PROVE  queue'[q] = queue[q] /\ dropped'[q] = dropped[q] /\ shed'[q] = shed[q]
  BY <1>1, Appended DEF TypeInv
<1>2. ASSUME NEW count \in Counts, NEW k \in Kind PROVE Plus(count, p, k)[q] = count[q]
  BY <1>2 DEF Plus, Counts
<1>3. /\ raised \in Counts /\ folded \in Counts /\ shed \in Counts /\ cut \in Counts
      /\ twice \in Counts
  BY DEF TypeInv, TypeOK
<1>4. held[p] \in Kind \cup {None} /\ Fault \in Kind /\ Fault \in Queueable
  BY KindAssumption DEF TypeInv, TypeOK, Queueable
<1>5. ASSUME NEW k \in Ordinary, Capture(p, k) PROVE Untouched(q)
  <2>1. k \in Kind /\ k \in Queueable /\ AppendCapture(p, k) /\ raised' = Plus(raised, p, k)
    BY <1>5 DEF Ordinary, Queueable, Capture
  <2>2. queue'[q] = queue[q] /\ dropped'[q] = dropped[q] /\ shed'[q] = shed[q]
        /\ raised'[q] = raised[q]
    BY <1>1, <1>2, <1>3, <2>1
  <2>3. late'[q] = late[q]
    BY <1>5 DEF Capture, Disturbs, TypeInv, TypeOK
  <2> QED
    BY <1>5, <2>2, <2>3 DEF Capture, Untouched, tick
<1>6. CASE StartTick(p)
  BY <1>6 DEF StartTick, Goes, bounds, ledger, Untouched, TypeInv, TypeOK
<1>7. CASE Pop(p)
  BY <1>7 DEF Pop, Goes, bounds, ledger, Untouched, TypeInv, TypeOK
<1>8. CASE EndLoop(p)
  BY <1>8 DEF EndLoop, Goes, memory, bounds, ledger, Untouched, TypeInv, TypeOK
<1>9. CASE Look(p)
  BY <1>9 DEF Look, Goes, memory, bounds, ledger, Untouched, TypeInv, TypeOK
<1>10. CASE Delivered(p)
  <2>1. held[p] \in Kind /\ folded' = Plus(folded, p, held[p])
    BY <1>10 DEF Delivered, Fold, TypeInv, TypeOK, Coherent
  <2>2. folded'[q] = folded[q]
    BY <1>2, <1>3, <2>1
  <2> QED
    BY <1>10, <2>2 DEF Delivered, Tell, Goes, memory, Untouched, TypeInv, TypeOK
<1>11. CASE TrackerFails(p) \/ AnswerLost(p)
  <2>1. held[p] \in Kind /\ ReportFailure(p)
    BY <1>11 DEF TrackerFails, AnswerLost, Fold, TypeInv, TypeOK, Coherent
  <2>2. \/ UNCHANGED <<folded, twice>>
        \/ folded' = Plus(folded, p, held[p]) /\ twice' = Plus(twice, p, held[p])
    BY <1>11 DEF TrackerFails, AnswerLost, Fold
  <2>3. folded'[q] = folded[q] /\ twice'[q] = twice[q]
    BY <1>2, <1>3, <2>1, <2>2
  <2>4. \/ UNCHANGED <<queue, dropped, shed, raised>>
        \/ AppendCapture(p, Fault) /\ raised' = Plus(raised, p, Fault)
    BY <2>1 DEF ReportFailure
  <2>5. queue'[q] = queue[q] /\ dropped'[q] = dropped[q] /\ shed'[q] = shed[q]
        /\ raised'[q] = raised[q]
    BY <1>1, <1>2, <1>3, <1>4, <2>4
  <2> QED
    BY <2>1, <2>3, <2>5 DEF ReportFailure, Goes, Disturbs, Untouched, TypeInv, TypeOK
<1>12. CASE Keep(p)
  <2>1. held[p] \in Kind
    BY <1>12 DEF Keep, TypeInv, TypeOK, Coherent
  <2>2. queue'[q] = queue[q] /\ dropped'[q] = dropped[q] /\ shed'[q] = shed[q]
        /\ toTell'[q] = toTell[q]
    <3>1. CASE held[p] = Report
      BY <1>12, <3>1 DEF Keep, TypeInv, TypeOK
    <3>2. CASE held[p] # Report
      <4>1. AppendCapture(p, held[p]) /\ held[p] \in Queueable /\ UNCHANGED toTell
        BY <1>12, <2>1, <3>2 DEF Keep, Queueable
      <4> QED
        BY <1>1, <4>1
    <3> QED
      BY <3>1, <3>2
  <2> QED
    BY <1>12, <2>2 DEF Keep, Goes, bounds, Untouched, TypeInv, TypeOK
<1>13. CASE Stop(p)
  <2>1. life'[q] = life[q]
    BY <1>13 DEF Stop, TypeInv, TypeOK
  <2>2. CASE CancelDelivery(p)
    <3>1. held[p] \in Kind
      BY <2>2 DEF CancelDelivery, TypeInv, TypeOK, Coherent
    <3>2. \/ folded' = Plus(folded, p, held[p]) /\ UNCHANGED cut
          \/ UNCHANGED folded /\ (cut' = cut \/ cut' = Plus(cut, p, held[p]))
      BY <2>2 DEF CancelDelivery, Fold
    <3>3. folded'[q] = folded[q] /\ cut'[q] = cut[q]
      BY <1>2, <1>3, <3>1, <3>2
    <3>4. said'[q] = said[q] /\ cutTold'[q] = cutTold[q]
      BY <2>2 DEF CancelDelivery, TypeInv, TypeOK
    <3> QED
      BY <2>1, <2>2, <3>3, <3>4 DEF CancelDelivery, Goes, memory, Untouched, TypeInv, TypeOK
  <2>3. CASE UNCHANGED <<trackerVars, memory, tick, toRaise, faults, ledger, late>>
    BY <2>1, <2>3 DEF memory, tick, ledger, Untouched
  <2> QED
    BY <1>13, <2>2, <2>3 DEF Stop
<1> QED
  BY <1>5, <1>6, <1>7, <1>8, <1>9, <1>10, <1>11, <1>12, <1>13 DEF Drain

LEMMA Naturals ==
  ASSUME TypeInv, NEW p \in Process, NEW k \in Kind
  PROVE  /\ Queued(p, k) \in Nat /\ Holds(p, k) \in Nat /\ Alive(p, k) \in Nat
         /\ raised[p][k] \in Nat /\ folded[p][k] \in Nat /\ shed[p][k] \in Nat
         /\ cut[p][k] \in Nat /\ twice[p][k] \in Nat
         /\ Queued(p, k) > 0 <=> \E i \in 1 .. Len(queue[p]) : queue[p][i] = k
<1>1. queue[p] \in Seq(Queueable)
  BY DEF TypeInv, TypeOK, Queueable
<1>2. Queued(p, k) = Cardinality(Places(queue[p], k))
  BY DEF Queued, Places
<1>3. IsFiniteSet(Places(queue[p], k)) /\ Cardinality(Places(queue[p], k)) \in Nat
  BY <1>1, PlacesFinite
<1>4. Cardinality(Places(queue[p], k)) = 0 <=> Places(queue[p], k) = {}
  BY <1>3, FS_EmptySet
<1>5. Queued(p, k) > 0 <=> Places(queue[p], k) # {}
  BY <1>2, <1>3, <1>4
<1>6. Queued(p, k) > 0 <=> \E i \in 1 .. Len(queue[p]) : queue[p][i] = k
  BY <1>5 DEF Places
<1>7. Holds(p, k) \in Nat
  BY DEF Holds
<1>8. /\ raised[p][k] \in Nat /\ folded[p][k] \in Nat /\ shed[p][k] \in Nat
      /\ cut[p][k] \in Nat /\ twice[p][k] \in Nat
  BY DEF TypeInv, TypeOK, Counts
<1>9. Alive(p, k) \in Nat
  <2>1. \A a, b, c, d \in Nat : a + b + c + d \in Nat
    OBVIOUS
  <2>2. Alive(p, k) = Queued(p, k) + Holds(p, k) + folded[p][k] + cut[p][k]
    BY DEF Alive
  <2>3. Queued(p, k) \in Nat
    BY <1>2, <1>3
  <2> QED
    BY <1>7, <1>8, <2>1, <2>2, <2>3
<1> QED
  BY <1>2, <1>3, <1>6, <1>7, <1>8, <1>9

LEMMA KeysFinite ==
  ASSUME NEW count PROVE IsFiniteSet({ShedKey[k] : k \in {j \in Kind : count[j] > 0}})
<1> DEFINE S == {j \in Kind : count[j] > 0}
           keyOf == [k \in S |-> ShedKey[k]]
<1>1. IsFiniteSet(S)
  BY KindAssumption, FS_Subset
<1>2. {ShedKey[k] : k \in S} = {keyOf[k] : k \in S}
  OBVIOUS
<1>3. keyOf \in Surjection(S, {keyOf[k] : k \in S})
  BY DEF Surjection
<1> QED
  BY <1>1, <1>2, <1>3, FS_Surjection

(* What is alive was raised, and so its key; for a lost answer is a fold.    *)
LEMMA AliveWasRaised ==
  ASSUME TypeInv, NEW p \in Process, Accounted(p), NEW k \in Queueable, Queued(p, k) > 0
  PROVE  ShedKey[k] \in RaisedKeys(p)
<1>1. k \in Kind
  BY DEF Queueable
<1>2. raised[p][k] + twice[p][k] = Alive(p, k) + shed[p][k] /\ twice[p][k] <= folded[p][k]
  BY <1>1 DEF Accounted
<1>3. raised[p][k] > 0
  <2>1. /\ Queued(p, k) \in Nat /\ Holds(p, k) \in Nat /\ raised[p][k] \in Nat
        /\ folded[p][k] \in Nat /\ shed[p][k] \in Nat /\ cut[p][k] \in Nat
        /\ twice[p][k] \in Nat
    BY <1>1, Naturals
  <2> QED
    BY <1>2, <2>1 DEF Alive
<1> QED
  BY <1>1, <1>3 DEF RaisedKeys

(* _shed: with fewer keys than room, a key does not leave the queue.         *)
LEMMA AppendKeepsKeys ==
  ASSUME TypeInv, NEW p \in Process, Accounted(p), Cardinality(RaisedKeys(p)) < Room,
         NEW e \in Queueable, AppendCapture(p, e), NEW k \in Queueable, Queued(p, k) > 0
  PROVE  \E j \in Queueable : ShedKey[j] = ShedKey[k] /\ Queued(p, j)' > 0
<1> DEFINE q == queue[p]
<1>1. q \in Seq(Queueable) /\ Len(q) \in Nat /\ Len(q) <= Room /\ Room \in Nat \ {0}
  BY RoomAssumption DEF TypeInv, TypeOK, Queueable
<1>2. queue \in [Process -> Seq(Queueable)]
  BY DEF TypeInv, TypeOK, Queueable
<1>3. PICK i \in 1 .. Len(q) : q[i] = k
  BY Naturals DEF Queueable
<1>4. \A j : Queued(p, j)' = Cardinality(Places(queue'[p], j))
  BY DEF Queued, Places
<1>5. ASSUME NEW r \in Seq(Queueable), queue'[p] = Append(r, e), NEW l \in 1 .. Len(r),
             ShedKey[r[l]] = ShedKey[k]
      PROVE  \E j \in Queueable : ShedKey[j] = ShedKey[k] /\ Queued(p, j)' > 0
  <2> DEFINE j == r[l]
  <2>1. j \in Queueable /\ l \in Places(r, j)
    BY <1>5 DEF Places
  <2> HIDE DEF j
  <2>2. IsFiniteSet(Places(r, j)) /\ Cardinality(Places(r, j)) \in Nat
    BY PlacesFinite
  <2>3. Cardinality(Places(r, j)) # 0
    BY <2>1, <2>2, FS_EmptySet
  <2>4. Cardinality(Places(Append(r, e), j)) = Cardinality(Places(r, j)) + IF e = j THEN 1 ELSE 0
    BY OneMore
  <2>5. Queued(p, j)' > 0
    BY <1>4, <1>5, <2>2, <2>3, <2>4
  <2> QED
    BY <1>5, <2>1, <2>5 DEF j
<1>6. CASE Len(q) < Room
  <2>1. queue'[p] = Append(q, e)
    BY <1>2, <1>6 DEF AppendCapture
  <2> QED
    BY <1>1, <1>3, <1>5, <2>1
<1>7. CASE ~ (Len(q) < Room)
  <2> DEFINE v == Victim(q)
             r == RemoveAt(q, v)
  <2>1. queue'[p] = Append(r, e)
    BY <1>2, <1>7 DEF AppendCapture
  <2>2. v \in 1 .. Len(q)
    BY <1>1, <1>7, VictimFits
  <2>3. r \in Seq(Queueable) /\ Without(q, v, r)
    BY <1>1, <2>2, RemovedPlace
  <2>4. ASSUME NEW x \in 1 .. Len(q) PROVE ShedKey[q[x]] \in RaisedKeys(p)
    <3>1. q[x] \in Queueable /\ q[x] \in Kind
      BY <1>1 DEF Queueable
    <3>2. Queued(p, q[x]) > 0
      BY <3>1, Naturals
    <3> QED
      BY <3>1, <3>2, AliveWasRaised
  <2>5. \E x \in 1 .. Len(q) : x # Victim(q) /\ ShedKey[q[x]] = ShedKey[q[Victim(q)]]
    <3>1. IsFiniteSet(RaisedKeys(p)) /\ q # <<>>
      BY <1>1, <1>7, KeysFinite DEF RaisedKeys
    <3>2. Cardinality(RaisedKeys(p)) < Len(q)
      BY <1>1, <1>7
    <3> HIDE DEF q
    <3> QED
      BY <1>1, <2>4, <3>1, <3>2, VictimRepeats
  <2>6. PICK x \in 1 .. Len(q) : x # v /\ ShedKey[q[x]] = ShedKey[k]
    BY <1>3, <2>5
  <2> DEFINE l == IF x < v THEN x ELSE x - 1
  <2>7. l \in 1 .. Len(r) /\ r[l] = q[x]
    <3> HIDE DEF v, r
    <3> QED
      BY <1>1, <2>2, <2>3, <2>6 DEF Without
  <2> HIDE DEF v, r, l
  <2> QED
    BY <1>5, <2>1, <2>3, <2>6, <2>7
<1> QED
  BY <1>6, <1>7

(* Keys survive a step that raises nothing but what it keeps.                *)
LEMMA SurviveStep ==
  ASSUME TypeInv, NEW p \in Process, KeysSurvive(p), RaisedKeys(p) \subseteq RaisedKeys(p)',
         \A key \in RaisedKeys(p)' \ RaisedKeys(p) :
           \E k \in Queueable : ShedKey[k] = key /\ Alive(p, k)' > 0,
         Cardinality(RaisedKeys(p)) < Room =>
           \A k \in Queueable : Alive(p, k) > 0 =>
             \E j \in Queueable : ShedKey[j] = ShedKey[k] /\ Alive(p, j)' > 0
  PROVE  KeysSurvive(p)'
<1> SUFFICES ASSUME Cardinality(RaisedKeys(p)') < Room, NEW key \in RaisedKeys(p)'
             PROVE  \E k \in Queueable : ShedKey[k] = key /\ Alive(p, k)' > 0
  BY DEF KeysSurvive
<1>1. Cardinality(RaisedKeys(p)) < Room
  <2>1. IsFiniteSet(RaisedKeys(p)') /\ IsFiniteSet(RaisedKeys(p))
    BY KeysFinite DEF RaisedKeys
  <2>2. Cardinality(RaisedKeys(p)) <= Cardinality(RaisedKeys(p)')
    BY <2>1, FS_Subset
  <2>3. Cardinality(RaisedKeys(p)) \in Nat /\ Cardinality(RaisedKeys(p)') \in Nat
    BY <2>1, FS_CardinalityType
  <2> QED
    BY <2>2, <2>3, RoomAssumption
<1>2. CASE key \in RaisedKeys(p)
  BY <1>1, <1>2 DEF KeysSurvive
<1> QED
  BY <1>2

LEMMA NaturalsNext ==
  ASSUME TypeInv', NEW p \in Process, NEW k \in Kind
  PROVE  /\ Queued(p, k)' \in Nat /\ Holds(p, k)' \in Nat /\ Alive(p, k)' \in Nat
         /\ raised'[p][k] \in Nat /\ folded'[p][k] \in Nat /\ shed'[p][k] \in Nat
         /\ cut'[p][k] \in Nat /\ twice'[p][k] \in Nat
<1>1. queue'[p] \in Seq(Queueable)
  BY DEF TypeInv, TypeOK, Queueable
<1>2. Queued(p, k)' = Cardinality(Places(queue'[p], k))
  BY DEF Queued, Places
<1>3. Cardinality(Places(queue'[p], k)) \in Nat
  BY <1>1, PlacesFinite
<1>4. Holds(p, k)' \in Nat
  BY DEF Holds
<1>5. /\ raised'[p][k] \in Nat /\ folded'[p][k] \in Nat /\ shed'[p][k] \in Nat
      /\ cut'[p][k] \in Nat /\ twice'[p][k] \in Nat
  BY DEF TypeInv, TypeOK, Counts
<1> QED
  BY <1>2, <1>3, <1>4, <1>5 DEF Alive

LEMMA AppendedIsQueued ==
  ASSUME TypeInv, NEW p \in Process, NEW e \in Queueable, AppendCapture(p, e)
  PROVE  Queued(p, e)' > 0
<1> DEFINE q == queue[p]
<1>1. q \in Seq(Queueable) /\ Len(q) \in Nat /\ Len(q) <= Room /\ Room \in Nat \ {0}
  BY RoomAssumption DEF TypeInv, TypeOK, Queueable
<1>2. queue \in [Process -> Seq(Queueable)]
  BY DEF TypeInv, TypeOK, Queueable
<1>3. PICK r \in Seq(Queueable) : queue'[p] = Append(r, e)
  <2>1. CASE Len(q) < Room
    <3>1. queue'[p] = Append(q, e)
      BY <1>2, <2>1 DEF AppendCapture
    <3> QED
      BY <1>1, <3>1
  <2>2. CASE ~ (Len(q) < Room)
    <3>1. queue'[p] = Append(RemoveAt(q, Victim(q)), e)
      BY <1>2, <2>2 DEF AppendCapture
    <3>2. Victim(q) \in 1 .. Len(q)
      BY <1>1, <2>2, VictimFits
    <3>3. RemoveAt(q, Victim(q)) \in Seq(Queueable)
      BY <1>1, <3>2, RemovedPlace
    <3> QED
      BY <3>1, <3>3
  <2> QED
    BY <2>1, <2>2
<1>4. Queued(p, e)' = Cardinality(Places(queue'[p], e))
  BY DEF Queued, Places
<1>5. Cardinality(Places(Append(r, e), e)) = Cardinality(Places(r, e)) + 1
  BY OneMore
<1>6. Cardinality(Places(r, e)) \in Nat
  BY PlacesFinite
<1> QED
  BY <1>3, <1>4, <1>5, <1>6

(* A step that appends e, and lets go of nothing else.                       *)
LEMMA AppendSurvives ==
  ASSUME TypeInv, TypeInv', NEW p \in Process, Accounted(p), KeysSurvive(p),
         NEW e \in Queueable, AppendCapture(p, e),
         \A k \in Queueable \ {e} :
           Holds(p, k) + folded[p][k] + cut[p][k] <= Holds(p, k)' + folded'[p][k] + cut'[p][k],
         \A k \in Kind \ {e} : raised'[p][k] = raised[p][k], raised[p][e] <= raised'[p][e]
  PROVE  KeysSurvive(p)'
<1>1. Queueable \subseteq Kind
  BY DEF Queueable
<1>2. Alive(p, e)' > 0
  BY <1>1, AppendedIsQueued, NaturalsNext DEF Alive
<1>3. RaisedKeys(p) \subseteq RaisedKeys(p)'
  <2>1. \A k \in Kind : raised[p][k] > 0 => raised'[p][k] > 0
    <3>1. \A k \in Kind : raised[p][k] \in Nat /\ raised'[p][k] \in Nat
      BY Naturals, NaturalsNext
    <3> QED
      BY <3>1
  <2> QED
    BY <2>1 DEF RaisedKeys
<1>4. \A key \in RaisedKeys(p)' \ RaisedKeys(p) : key = ShedKey[e]
  BY DEF RaisedKeys
<1>5. ASSUME Cardinality(RaisedKeys(p)) < Room, NEW k \in Queueable, Alive(p, k) > 0
      PROVE  \E j \in Queueable : ShedKey[j] = ShedKey[k] /\ Alive(p, j)' > 0
  <2>1. CASE k = e
    BY <1>2, <2>1
  <2>2. CASE Queued(p, k) > 0
    <3>1. PICK j \in Queueable : ShedKey[j] = ShedKey[k] /\ Queued(p, j)' > 0
      BY <1>5, <2>2, AppendKeepsKeys
    <3>2. Alive(p, j)' > 0
      BY <1>1, <3>1, NaturalsNext DEF Alive
    <3> QED
      BY <3>1, <3>2
  <2>3. CASE k # e /\ ~ (Queued(p, k) > 0)
    <3>1. /\ Queued(p, k) \in Nat /\ Holds(p, k) \in Nat /\ folded[p][k] \in Nat
          /\ cut[p][k] \in Nat
      BY <1>1, Naturals
    <3>2. /\ Queued(p, k)' \in Nat /\ Holds(p, k)' \in Nat /\ folded'[p][k] \in Nat
          /\ cut'[p][k] \in Nat
      BY <1>1, NaturalsNext
    <3>3. Holds(p, k) + folded[p][k] + cut[p][k] > 0
      BY <1>5, <2>3, <3>1 DEF Alive
    <3>4. Alive(p, k)' > 0
      BY <2>3, <3>1, <3>2, <3>3 DEF Alive
    <3> QED
      BY <3>4
  <2> QED
    BY <2>1, <2>2, <2>3
<1> QED
  BY <1>2, <1>3, <1>4, <1>5, SurviveStep

(* A step that raises nothing and keeps all that is alive.                   *)
LEMMA QuietSurvives ==
  ASSUME TypeInv, NEW p \in Process, KeysSurvive(p), raised'[p] = raised[p],
         \A k \in Queueable : Alive(p, k)' >= Alive(p, k) /\ Alive(p, k)' \in Nat
  PROVE  KeysSurvive(p)'
<1>1. RaisedKeys(p)' = RaisedKeys(p)
  BY DEF RaisedKeys
<1>2. \A k \in Queueable : Alive(p, k) \in Nat
  BY Naturals DEF Queueable
<1>3. \A k \in Queueable : Alive(p, k) > 0 => Alive(p, k)' > 0
  BY <1>2
<1> QED
  BY <1>1, <1>3, SurviveStep

LEMMA CaptureOwn ==
  ASSUME TypeInv, TypeInv', NEW p \in Process, ProcessInv(p), NEW e \in Ordinary, Capture(p, e)
  PROVE  ProcessInv(p)'
<1>1. e \in Queueable /\ e \in Kind /\ Queueable \subseteq Kind
  BY DEF Ordinary, Queueable
<1>2. AppendCapture(p, e) /\ raised' = Plus(raised, p, e)
  BY DEF Capture
<1>3. \A k \in Kind : raised'[p][k] = raised[p][k] + IF k = e THEN 1 ELSE 0
  <2>1. raised \in Counts
    BY DEF TypeInv, TypeOK
  <2>2. \A k \in Kind : Plus(raised, p, e)[p][k] = raised[p][k] + IF k = e THEN 1 ELSE 0
    BY <1>1, <2>1 DEF Plus, Counts
  <2> QED
    BY <1>2, <2>2
<1>4. /\ UNCHANGED <<folded, cut, twice, toTell, said, cutTold, phase, life, held>>
      /\ life[p] # "gone"
  BY DEF Capture, tick
<1>5. /\ \A k \in Queueable :
           Queued(p, k)' + shed'[p][k] = Queued(p, k) + shed[p][k] + IF e = k THEN 1 ELSE 0
      /\ SumFunction(shed'[p]) + dropped[p] = SumFunction(shed[p]) + dropped'[p]
  BY <1>1, <1>2, Appended DEF TypeInv
<1>6. \A k : Holds(p, k)' = Holds(p, k)
  BY <1>4 DEF Holds
<1>7. Accounted(p)'
  <2>1. ASSUME NEW k \in Queueable
        PROVE  raised'[p][k] + twice'[p][k] = Alive(p, k)' + shed'[p][k]
    <3>1. raised[p][k] + twice[p][k] = Alive(p, k) + shed[p][k]
      BY DEF ProcessInv, Accounted
    <3>2. /\ Queued(p, k) \in Nat /\ Holds(p, k) \in Nat /\ raised[p][k] \in Nat
          /\ folded[p][k] \in Nat /\ shed[p][k] \in Nat /\ cut[p][k] \in Nat
          /\ twice[p][k] \in Nat
      BY <1>1, Naturals
    <3>3. Queued(p, k)' \in Nat /\ shed'[p][k] \in Nat
      BY <1>1, NaturalsNext
    <3>4. raised'[p][k] = raised[p][k] + IF k = e THEN 1 ELSE 0
      BY <1>1, <1>3
    <3>5. Alive(p, k)' = Queued(p, k)' + Holds(p, k) + folded[p][k] + cut[p][k]
      BY <1>4, <1>6 DEF Alive
    <3>6. Queued(p, k)' + shed'[p][k] = Queued(p, k) + shed[p][k] + IF e = k THEN 1 ELSE 0
      BY <1>5
    <3>7. twice'[p][k] = twice[p][k]
      BY <1>4
    <3> QED
      BY <3>1, <3>2, <3>3, <3>4, <3>5, <3>6, <3>7 DEF Alive
  <2>2. \A k \in Kind : twice'[p][k] <= folded'[p][k]
    BY <1>4 DEF ProcessInv, Accounted
  <2>3. SumFunction(shed'[p]) = dropped'[p] + toTell'[p] + said'[p] + cutTold'[p]
    <3>1. SumFunction(shed[p]) = dropped[p] + toTell[p] + said[p] + cutTold[p]
      BY DEF ProcessInv, Accounted
    <3>2. /\ dropped[p] \in Nat /\ dropped'[p] \in Nat /\ toTell[p] \in Nat /\ said[p] \in Nat
          /\ cutTold[p] \in Nat
      BY DEF TypeInv, TypeOK
    <3>3. SumFunction(shed'[p]) \in Nat
      BY KindAssumption, SumTyped DEF TypeInv, TypeOK, Counts
    <3> QED
      BY <1>4, <1>5, <3>1, <3>2, <3>3
  <2> QED
    BY <1>4, <2>1, <2>2, <2>3 DEF ProcessInv, Accounted
<1>8. KeysSurvive(p)'
  <2>1. \A k \in Kind : raised[p][k] \in Nat
    BY Naturals
  <2>2. /\ \A k \in Kind \ {e} : raised'[p][k] = raised[p][k]
        /\ raised[p][e] <= raised'[p][e]
    BY <1>1, <1>3, <2>1
  <2>3. \A k \in Queueable \ {e} :
          Holds(p, k) + folded[p][k] + cut[p][k] <= Holds(p, k)' + folded'[p][k] + cut'[p][k]
    BY <1>1, <1>4, <1>6, Naturals
  <2> QED
    BY <1>1, <1>2, <2>2, <2>3, AppendSurvives DEF ProcessInv
<1>9. Stopping(p)'
  <2>1. life[p] = "last" => late'[p]
    BY DEF Capture, Disturbs, TypeInv, TypeOK
  <2> QED
    BY <1>4, <2>1 DEF Stopping
<1> QED
  BY <1>7, <1>8, <1>9 DEF ProcessInv

(* The books after a step that leaves what was shed alone: each capture that *)
(* was alive is, but for new ones and second folds.                          *)
LEMMA QuietBooks ==
  ASSUME TypeInv, TypeInv', NEW p \in Process, Accounted(p), KeysSurvive(p),
         raised'[p] = raised[p], shed'[p] = shed[p],
         \A k \in Queueable : Alive(p, k)' + twice[p][k] = Alive(p, k) + twice'[p][k],
         \A k \in Kind : twice[p][k] <= twice'[p][k] /\ twice'[p][k] <= folded'[p][k],
         dropped'[p] + toTell'[p] + said'[p] + cutTold'[p]
           = dropped[p] + toTell[p] + said[p] + cutTold[p],
         phase'[p] = "asleep" => toTell'[p] = 0
  PROVE  Accounted(p)' /\ KeysSurvive(p)'
<1>1. ASSUME NEW k \in Queueable
      PROVE  /\ raised'[p][k] + twice'[p][k] = Alive(p, k)' + shed'[p][k]
             /\ Alive(p, k)' >= Alive(p, k) /\ Alive(p, k)' \in Nat
  <2>1. k \in Kind
    BY DEF Queueable
  <2>2. /\ Alive(p, k) \in Nat /\ raised[p][k] \in Nat /\ shed[p][k] \in Nat /\ twice[p][k] \in Nat
        /\ raised[p][k] + twice[p][k] = Alive(p, k) + shed[p][k]
    BY <2>1, Naturals DEF Accounted
  <2>3. Alive(p, k)' \in Nat /\ twice'[p][k] \in Nat
    BY <2>1, NaturalsNext
  <2>4. /\ Alive(p, k)' + twice[p][k] = Alive(p, k) + twice'[p][k]
        /\ twice[p][k] <= twice'[p][k]
    BY <2>1
  <2> QED
    BY <2>2, <2>3, <2>4
<1>2. KeysSurvive(p)'
  BY <1>1, QuietSurvives
<1>3. Accounted(p)'
  BY <1>1 DEF Accounted
<1> QED
  BY <1>2, <1>3

LEMMA StartTickOwn ==
  ASSUME TypeInv, TypeInv', NEW p \in Process, ProcessInv(p), StartTick(p)
  PROVE  ProcessInv(p)'
<1>1. /\ phase[p] = "asleep" /\ life[p] # "gone" /\ toTell[p] = 0
      /\ toTell'[p] = dropped[p] /\ dropped'[p] = 0 /\ left'[p] = Len(queue[p])
      /\ phase'[p] = "draining" /\ dropped[p] \in Nat /\ said[p] \in Nat /\ cutTold[p] \in Nat
      /\ UNCHANGED <<queue, held, life, late, raised, folded, shed, cut, twice, said, cutTold>>
  BY DEF StartTick, Snapshot, Goes, bounds, ledger, TypeInv, TypeOK, ProcessInv, Accounted
<1>2. \A k : Queued(p, k)' = Queued(p, k) /\ Holds(p, k)' = Holds(p, k) /\ Alive(p, k)' = Alive(p, k)
  BY <1>1 DEF Queued, Holds, Alive
<1>3. \A k \in Kind : twice[p][k] <= folded[p][k] /\ twice[p][k] \in Nat
  BY Naturals DEF ProcessInv, Accounted
<1>4. Accounted(p)' /\ KeysSurvive(p)'
  BY <1>1, <1>2, <1>3, QuietBooks DEF ProcessInv
<1>5. Stopping(p)'
  BY <1>1 DEF Stopping
<1> QED
  BY <1>4, <1>5 DEF ProcessInv

LEMMA PopOwn ==
  ASSUME TypeInv, TypeInv', NEW p \in Process, ProcessInv(p), Pop(p)
  PROVE  ProcessInv(p)'
<1> DEFINE h == Head(queue[p])
<1>1. /\ phase[p] = "draining" /\ left[p] > 0 /\ left[p] \in Nat /\ queue[p] # <<>>
      /\ held'[p] = h /\ queue'[p] = Tail(queue[p])
      /\ left'[p] = left[p] - 1 /\ phase'[p] = "tracking" /\ held[p] = None
      /\ UNCHANGED <<dropped, toTell, life, late, raised, folded, shed, cut, twice, said, cutTold>>
  BY RoomAssumption DEF Pop, Goes, bounds, ledger, TypeInv, TypeOK, Coherent
<1>2. queue[p] \in Seq(Queueable)
  BY DEF TypeInv, TypeOK, Queueable
<1>3. /\ Tail(queue[p]) \in Seq(Queueable) /\ 1 \in 1 .. Len(queue[p])
      /\ Without(queue[p], 1, Tail(queue[p])) /\ h = queue[p][1] /\ h \in Queueable
  BY <1>1, <1>2, TailPlace
<1> HIDE DEF h
<1>4. ASSUME NEW k \in Queueable PROVE Alive(p, k)' = Alive(p, k)
  <2>1. Cardinality(Places(queue[p], k))
          = Cardinality(Places(Tail(queue[p]), k)) + IF h = k THEN 1 ELSE 0
    <3>1. Cardinality(Places(queue[p], k))
            = Cardinality(Places(Tail(queue[p]), k)) + IF queue[p][1] = k THEN 1 ELSE 0
      BY <1>1, <1>2, <1>3, HeadLess
    <3> QED
      BY <1>3, <3>1
  <2>2. Queued(p, k) = Cardinality(Places(queue[p], k))
    BY DEF Queued, Places
  <2>3. Queued(p, k)' = Cardinality(Places(queue'[p], k))
    BY DEF Queued, Places
  <2>4. Queued(p, k) = Queued(p, k)' + IF h = k THEN 1 ELSE 0
    BY <1>1, <2>1, <2>2, <2>3
  <2>5. Holds(p, k) = 0 /\ Holds(p, k)' = IF h = k THEN 1 ELSE 0
    BY <1>1, KindAssumption DEF Holds, Queueable
  <2>6. Queued(p, k) \in Nat /\ Queued(p, k)' \in Nat /\ folded[p][k] \in Nat /\ cut[p][k] \in Nat
    BY Naturals, NaturalsNext DEF Queueable
  <2> QED
    BY <1>1, <2>4, <2>5, <2>6 DEF Alive
<1>5. \A k \in Kind : twice[p][k] <= folded[p][k] /\ twice[p][k] \in Nat
  BY Naturals DEF ProcessInv, Accounted
<1>6. Accounted(p)' /\ KeysSurvive(p)'
  BY <1>1, <1>4, <1>5, QuietBooks DEF ProcessInv
<1>7. Stopping(p)'
  <2>1. Len(Tail(queue[p])) = Len(queue[p]) - 1
    BY <1>3 DEF Without
  <2> QED
    BY <1>1, <2>1 DEF ProcessInv, Stopping
<1> QED
  BY <1>6, <1>7 DEF ProcessInv

LEMMA EndLoopOwn ==
  ASSUME TypeInv, TypeInv', NEW p \in Process, ProcessInv(p), EndLoop(p)
  PROVE  ProcessInv(p)'
<1>1. /\ phase[p] = "draining" /\ held[p] = None
      /\ UNCHANGED <<queue, dropped, toTell, late, raised, folded, shed, cut, twice, said, cutTold>>
      /\ \/ held'[p] = Report /\ phase'[p] = "tracking" /\ UNCHANGED <<left, life>>
         \/ held'[p] = None /\ phase'[p] = "asleep" /\ life'[p] = NextLife(p) /\ toTell[p] = 0
  BY DEF EndLoop, Goes, memory, bounds, ledger, TypeInv, TypeOK, Coherent
<1>2. phase[p] = "draining" /\ (left[p] = 0 \/ queue[p] = <<>>)
  BY DEF EndLoop
<1>3. ASSUME NEW k \in Queueable PROVE Alive(p, k)' = Alive(p, k)
  <2>1. Holds(p, k) = 0 /\ Holds(p, k)' = 0
    BY <1>1, KindAssumption DEF Holds, Queueable
  <2>2. Queued(p, k)' = Queued(p, k)
    BY <1>1 DEF Queued
  <2> QED
    BY <1>1, <2>1, <2>2 DEF Alive
<1>4. \A k \in Kind : twice[p][k] <= folded[p][k] /\ twice[p][k] \in Nat
  BY Naturals DEF ProcessInv, Accounted
<1>5. Accounted(p)' /\ KeysSurvive(p)'
  BY <1>1, <1>3, <1>4, QuietBooks DEF ProcessInv
<1>6. Stopping(p)'
  <2>1. queue[p] \in Seq(Queueable)
    BY DEF TypeInv, TypeOK, Queueable
  <2>2. Len(queue[p]) = 0 => queue[p] = <<>>
    BY <2>1
  <2>3. life[p] = "last" /\ ~ late[p] => queue[p] = <<>> /\ dropped[p] = 0
    BY <1>2, <2>2 DEF ProcessInv, Stopping
  <2>4. NextLife(p) = "gone" <=> life[p] \in {"last", "gone"}
    BY DEF NextLife
  <2>5. life[p] # "gone"
    BY <1>2 DEF ProcessInv, Stopping
  <2>6. CASE phase'[p] = "tracking" /\ UNCHANGED <<left, life>>
    BY <1>1, <1>2, <2>5, <2>6 DEF ProcessInv, Stopping
  <2>7. CASE phase'[p] = "asleep" /\ life'[p] = NextLife(p)
    BY <1>1, <2>3, <2>4, <2>5, <2>7 DEF Stopping
  <2> QED
    BY <1>1, <2>6, <2>7
<1> QED
  BY <1>5, <1>6 DEF ProcessInv

LEMMA LookOwn ==
  ASSUME TypeInv, TypeInv', NEW p \in Process, ProcessInv(p), Look(p)
  PROVE  ProcessInv(p)'
<1>1. /\ phase[p] = "tracking" /\ phase'[p] = "looked"
      /\ UNCHANGED <<queue, dropped, toTell, left, life, held, late, raised, folded, shed, cut,
                     twice, said, cutTold>>
  BY DEF Look, Goes, memory, bounds, ledger, TypeInv, TypeOK
<1>2. \A k : Queued(p, k)' = Queued(p, k) /\ Holds(p, k)' = Holds(p, k) /\ Alive(p, k)' = Alive(p, k)
  BY <1>1 DEF Queued, Holds, Alive
<1>3. \A k \in Kind : twice[p][k] <= folded[p][k] /\ twice[p][k] \in Nat
  BY Naturals DEF ProcessInv, Accounted
<1>4. Accounted(p)' /\ KeysSurvive(p)'
  BY <1>1, <1>2, <1>3, QuietBooks DEF ProcessInv
<1>5. Stopping(p)'
  BY <1>1 DEF ProcessInv, Stopping
<1> QED
  BY <1>4, <1>5 DEF ProcessInv

LEMMA DeliveredOwn ==
  ASSUME TypeInv, TypeInv', NEW p \in Process, ProcessInv(p), Delivered(p)
  PROVE  ProcessInv(p)'
<1> DEFINE h == held[p]
<1>1. /\ phase[p] = "looked" /\ phase'[p] = "draining" /\ held'[p] = None
      /\ folded' = Plus(folded, p, h)
      /\ UNCHANGED <<queue, dropped, left, life, late, raised, shed, cut, twice, cutTold>>
  BY DEF Delivered, Fold, Goes, memory, TypeInv, TypeOK
<1>2. h \in Kind
  BY <1>1 DEF TypeInv, TypeOK, Coherent
<1>3. \A k \in Kind : folded'[p][k] = folded[p][k] + IF k = h THEN 1 ELSE 0
  <2>1. folded \in Counts
    BY DEF TypeInv, TypeOK
  <2> QED
    BY <1>1, <1>2, <2>1 DEF Plus, Counts
<1>4. ASSUME NEW k \in Queueable PROVE Alive(p, k)' = Alive(p, k)
  <2>1. Holds(p, k) = (IF h = k THEN 1 ELSE 0) /\ Holds(p, k)' = 0
    BY <1>1, KindAssumption DEF Holds, Queueable
  <2>2. Queued(p, k)' = Queued(p, k)
    BY <1>1 DEF Queued
  <2>3. Queued(p, k) \in Nat /\ folded[p][k] \in Nat /\ cut[p][k] \in Nat /\ k \in Kind
    BY Naturals DEF Queueable
  <2> QED
    BY <1>1, <1>3, <2>1, <2>2, <2>3 DEF Alive
<1>5. \A k \in Kind : twice[p][k] <= twice'[p][k] /\ twice'[p][k] <= folded'[p][k]
  <2> SUFFICES ASSUME NEW k \in Kind
               PROVE  twice[p][k] <= twice'[p][k] /\ twice'[p][k] <= folded'[p][k]
    OBVIOUS
  <2>1. twice[p][k] <= folded[p][k] /\ twice[p][k] \in Nat /\ folded[p][k] \in Nat
    BY Naturals DEF ProcessInv, Accounted
  <2> QED
    BY <1>1, <1>3, <2>1
<1>6. dropped'[p] + toTell'[p] + said'[p] + cutTold'[p]
        = dropped[p] + toTell[p] + said[p] + cutTold[p]
  <2>1. /\ dropped[p] \in Nat /\ toTell[p] \in Nat /\ said[p] \in Nat /\ cutTold[p] \in Nat
    BY DEF TypeInv, TypeOK
  <2>2. /\ said'[p] = said[p] + (IF h = Report THEN toTell[p] ELSE 0)
        /\ toTell'[p] = IF h = Report THEN 0 ELSE toTell[p]
    BY DEF Delivered, Tell, TypeInv, TypeOK
  <2> QED
    BY <1>1, <2>1, <2>2
<1>7. Accounted(p)' /\ KeysSurvive(p)'
  BY <1>1, <1>4, <1>5, <1>6, QuietBooks DEF ProcessInv
<1>8. Stopping(p)'
  BY <1>1 DEF ProcessInv, Stopping
<1> QED
  BY <1>7, <1>8 DEF ProcessInv

LEMMA FailureOwn ==
  ASSUME TypeInv, TypeInv', NEW p \in Process, ProcessInv(p), TrackerFails(p) \/ AnswerLost(p)
  PROVE  ProcessInv(p)'
<1> DEFINE h == held[p]
<1>1. /\ phase[p] \in {"tracking", "looked"} /\ phase'[p] = "keeping" /\ ReportFailure(p)
      /\ UNCHANGED <<toTell, held, left, life, cut, said, cutTold>>
      /\ life[p] = "last" => late'[p]
  BY DEF TrackerFails, AnswerLost, Fold, ReportFailure, Goes, Disturbs, TypeInv, TypeOK
<1>2. h \in Kind /\ Fault \in Queueable /\ Queueable \subseteq Kind
  BY <1>1, KindAssumption DEF TypeInv, TypeOK, Coherent, Queueable
<1>3. \/ UNCHANGED <<folded, twice>>
      \/ folded' = Plus(folded, p, h) /\ twice' = Plus(twice, p, h)
  BY DEF TrackerFails, AnswerLost, Fold
<1>4. ASSUME NEW k \in Kind
      PROVE  /\ folded'[p][k] + twice[p][k] = folded[p][k] + twice'[p][k]
             /\ folded[p][k] <= folded'[p][k] /\ twice[p][k] <= twice'[p][k]
             /\ twice'[p][k] <= folded'[p][k]
  <2>1. twice[p][k] <= folded[p][k] /\ twice[p][k] \in Nat /\ folded[p][k] \in Nat
    BY Naturals DEF ProcessInv, Accounted
  <2>2. folded \in Counts /\ twice \in Counts
    BY DEF TypeInv, TypeOK
  <2>3. CASE UNCHANGED <<folded, twice>>
    BY <2>1, <2>3
  <2>4. CASE folded' = Plus(folded, p, h) /\ twice' = Plus(twice, p, h)
    <3>1. /\ folded'[p][k] = folded[p][k] + IF k = h THEN 1 ELSE 0
          /\ twice'[p][k] = twice[p][k] + IF k = h THEN 1 ELSE 0
      BY <1>2, <2>2, <2>4 DEF Plus, Counts
    <3> QED
      BY <2>1, <3>1
  <2> QED
    BY <1>3, <2>3, <2>4
<1>5. \A k : Holds(p, k)' = Holds(p, k)
  BY <1>1 DEF Holds
<1>6. Accounted(p)' /\ KeysSurvive(p)'
  <2>1. CASE failing[p]
    <3>1. UNCHANGED <<queue, dropped, shed, raised>>
      BY <1>1, <2>1 DEF ReportFailure
    <3>2. ASSUME NEW k \in Queueable
          PROVE  Alive(p, k)' + twice[p][k] = Alive(p, k) + twice'[p][k]
      <4>1. Queued(p, k)' = Queued(p, k)
        BY <3>1 DEF Queued
      <4>2. /\ Queued(p, k) \in Nat /\ Holds(p, k) \in Nat /\ folded[p][k] \in Nat
            /\ cut[p][k] \in Nat /\ twice[p][k] \in Nat
            /\ folded'[p][k] \in Nat /\ twice'[p][k] \in Nat
        BY <1>2, Naturals, NaturalsNext
      <4>3. folded'[p][k] + twice[p][k] = folded[p][k] + twice'[p][k]
        BY <1>2, <1>4
      <4> QED
        BY <1>1, <1>5, <4>1, <4>2, <4>3 DEF Alive
    <3> QED
      BY <1>1, <1>4, <3>1, <3>2, QuietBooks DEF ProcessInv
  <2>2. CASE ~ failing[p]
    <3>1. AppendCapture(p, Fault) /\ raised' = Plus(raised, p, Fault)
      BY <1>1, <2>2 DEF ReportFailure
    <3>2. /\ \A k \in Queueable :
               Queued(p, k)' + shed'[p][k]
                 = Queued(p, k) + shed[p][k] + IF Fault = k THEN 1 ELSE 0
          /\ SumFunction(shed'[p]) + dropped[p] = SumFunction(shed[p]) + dropped'[p]
      BY <1>2, <3>1, Appended DEF TypeInv
    <3>3. \A k \in Kind : raised'[p][k] = raised[p][k] + IF k = Fault THEN 1 ELSE 0
      <4>1. raised \in Counts
        BY DEF TypeInv, TypeOK
      <4> QED
        BY <1>2, <3>1, <4>1 DEF Plus, Counts
    <3>4. ASSUME NEW k \in Queueable
          PROVE  raised'[p][k] + twice'[p][k] = Alive(p, k)' + shed'[p][k]
      <4>1. raised[p][k] + twice[p][k] = Alive(p, k) + shed[p][k]
        BY DEF ProcessInv, Accounted
      <4>2. /\ Queued(p, k) \in Nat /\ Holds(p, k) \in Nat /\ raised[p][k] \in Nat
            /\ folded[p][k] \in Nat /\ shed[p][k] \in Nat /\ cut[p][k] \in Nat
            /\ twice[p][k] \in Nat
        BY <1>2, Naturals
      <4>3. /\ Queued(p, k)' \in Nat /\ shed'[p][k] \in Nat /\ folded'[p][k] \in Nat
            /\ twice'[p][k] \in Nat
        BY <1>2, NaturalsNext
      <4>4. raised'[p][k] = raised[p][k] + IF k = Fault THEN 1 ELSE 0
        BY <1>2, <3>3
      <4>5. Alive(p, k) = Queued(p, k) + Holds(p, k) + folded[p][k] + cut[p][k]
        BY DEF Alive
      <4>6. Alive(p, k)' = Queued(p, k)' + Holds(p, k) + folded'[p][k] + cut[p][k]
        BY <1>1, <1>5 DEF Alive
      <4>7. Queued(p, k)' + shed'[p][k]
              = Queued(p, k) + shed[p][k] + IF Fault = k THEN 1 ELSE 0
        BY <3>2
      <4>8. folded'[p][k] + twice[p][k] = folded[p][k] + twice'[p][k]
        BY <1>2, <1>4
      <4> QED
        <5> DEFINE one == IF k = Fault THEN 1 ELSE 0
        <5>1. one \in Nat /\ raised'[p][k] = raised[p][k] + one
              /\ Queued(p, k)' + shed'[p][k] = Queued(p, k) + shed[p][k] + one
          BY <4>4, <4>7
        <5> HIDE DEF one
        <5>2. Alive(p, k)' + shed'[p][k]
                = Queued(p, k) + shed[p][k] + one + Holds(p, k) + folded'[p][k] + cut[p][k]
          BY <4>2, <4>3, <4>6, <5>1
        <5>3. raised[p][k] + twice[p][k]
                = Queued(p, k) + Holds(p, k) + folded[p][k] + cut[p][k] + shed[p][k]
          BY <4>1, <4>2, <4>5
        <5>4. raised'[p][k] + twice'[p][k]
                = Queued(p, k) + shed[p][k] + one + Holds(p, k) + folded'[p][k] + cut[p][k]
          <6> DEFINE r == raised[p][k]  t == twice[p][k]  tt == twice'[p][k]
                     f == folded[p][k]  ff == folded'[p][k]
                     o == Queued(p, k) + Holds(p, k) + cut[p][k] + shed[p][k]
          <6>1. r \in Nat /\ t \in Nat /\ tt \in Nat /\ f \in Nat /\ ff \in Nat /\ o \in Nat
            BY <4>2, <4>3
          <6>2. r + t = o + f
            BY <4>2, <5>3
          <6>3. ff + t = f + tt
            BY <4>8
          <6>4. /\ raised'[p][k] = r + one /\ one \in Nat
                /\ Queued(p, k) + shed[p][k] + one + Holds(p, k) + ff + cut[p][k] = o + one + ff
            BY <4>2, <5>1, <6>1
          <6> HIDE DEF r, t, tt, f, ff, o
          <6>5. r + tt = o + ff
            BY <6>1, <6>2, <6>3
          <6>6. raised'[p][k] + tt = o + one + ff
            BY <6>1, <6>4, <6>5
          <6> QED
            BY <6>4, <6>6 DEF tt, ff
        <5> QED
          BY <5>2, <5>4
    <3>5. SumFunction(shed'[p]) = dropped'[p] + toTell'[p] + said'[p] + cutTold'[p]
      <4>1. SumFunction(shed[p]) = dropped[p] + toTell[p] + said[p] + cutTold[p]
        BY DEF ProcessInv, Accounted
      <4>2. /\ dropped[p] \in Nat /\ dropped'[p] \in Nat /\ toTell[p] \in Nat /\ said[p] \in Nat
            /\ cutTold[p] \in Nat
        BY DEF TypeInv, TypeOK
      <4>3. SumFunction(shed'[p]) \in Nat
        BY KindAssumption, SumTyped DEF TypeInv, TypeOK, Counts
      <4> QED
        BY <1>1, <3>2, <4>1, <4>2, <4>3
    <3>6. KeysSurvive(p)'
      <4>1. \A k \in Kind : raised[p][k] \in Nat
        BY Naturals
      <4>2. /\ \A k \in Kind \ {Fault} : raised'[p][k] = raised[p][k]
            /\ raised[p][Fault] <= raised'[p][Fault]
        BY <1>2, <3>3, <4>1
      <4>3. ASSUME NEW k \in Queueable \ {Fault}
            PROVE  Holds(p, k) + folded[p][k] + cut[p][k]
                     <= Holds(p, k)' + folded'[p][k] + cut'[p][k]
        <5>1. /\ Holds(p, k) \in Nat /\ folded[p][k] \in Nat /\ cut[p][k] \in Nat
              /\ folded'[p][k] \in Nat
          BY <1>2, Naturals, NaturalsNext
        <5>2. folded[p][k] <= folded'[p][k]
          BY <1>2, <1>4
        <5> QED
          BY <1>1, <1>5, <5>1, <5>2
      <4> QED
        BY <1>2, <3>1, <4>2, <4>3, AppendSurvives DEF ProcessInv
    <3>7. Accounted(p)'
      BY <1>1, <1>4, <3>4, <3>5 DEF Accounted
    <3> QED
      BY <3>6, <3>7
  <2> QED
    BY <2>1, <2>2
<1>7. Stopping(p)'
  BY <1>1 DEF ProcessInv, Stopping
<1> QED
  BY <1>6, <1>7 DEF ProcessInv

LEMMA KeepOwn ==
  ASSUME TypeInv, TypeInv', NEW p \in Process, ProcessInv(p), Keep(p)
  PROVE  ProcessInv(p)'
<1> DEFINE h == held[p]
<1>1. /\ phase[p] = "keeping" /\ phase'[p] = "draining" /\ held'[p] = None
      /\ UNCHANGED <<life, late, raised, folded, cut, twice, said, cutTold>>
  BY DEF Keep, Goes, bounds, TypeInv, TypeOK
<1>2. h \in Kind
  BY <1>1 DEF TypeInv, TypeOK, Coherent
<1>3. \A k \in Kind : twice[p][k] <= folded[p][k] /\ twice[p][k] \in Nat
  BY Naturals DEF ProcessInv, Accounted
<1>4. \A k \in Kind : Holds(p, k) = (IF h = k THEN 1 ELSE 0) /\ Holds(p, k)' = 0
  BY <1>1, KindAssumption DEF Holds
<1>5. /\ dropped[p] \in Nat /\ dropped'[p] \in Nat /\ toTell[p] \in Nat /\ said[p] \in Nat
      /\ cutTold[p] \in Nat
  BY DEF TypeInv, TypeOK
<1>6. Stopping(p)'
  BY <1>1 DEF ProcessInv, Stopping
<1>7. CASE h = Report
  <2>1. /\ dropped'[p] = dropped[p] + toTell[p] /\ toTell'[p] = 0
        /\ UNCHANGED <<queue, shed>>
    BY <1>7 DEF Keep, TypeInv, TypeOK
  <2>2. ASSUME NEW k \in Queueable PROVE Alive(p, k)' = Alive(p, k)
    <3>1. Holds(p, k) = 0 /\ Holds(p, k)' = 0
      BY <1>4, <1>7 DEF Queueable
    <3>2. Queued(p, k)' = Queued(p, k)
      BY <2>1 DEF Queued
    <3> QED
      BY <1>1, <3>1, <3>2 DEF Alive
  <2>3. dropped'[p] + toTell'[p] + said'[p] + cutTold'[p]
          = dropped[p] + toTell[p] + said[p] + cutTold[p]
    BY <1>1, <1>5, <2>1
  <2> QED
    BY <1>1, <1>3, <1>6, <2>1, <2>2, <2>3, QuietBooks DEF ProcessInv
<1>8. CASE h # Report
  <2>1. AppendCapture(p, h) /\ h \in Queueable /\ UNCHANGED toTell
    BY <1>2, <1>8 DEF Keep, Queueable
  <2>2. /\ \A k \in Queueable :
             Queued(p, k)' + shed'[p][k] = Queued(p, k) + shed[p][k] + IF h = k THEN 1 ELSE 0
        /\ SumFunction(shed'[p]) + dropped[p] = SumFunction(shed[p]) + dropped'[p]
    BY <2>1, Appended DEF TypeInv
  <2>3. ASSUME NEW k \in Queueable
        PROVE  raised'[p][k] + twice'[p][k] = Alive(p, k)' + shed'[p][k]
    <3>1. raised[p][k] + twice[p][k] = Alive(p, k) + shed[p][k]
      BY DEF ProcessInv, Accounted
    <3>2. /\ Queued(p, k) \in Nat /\ raised[p][k] \in Nat
          /\ folded[p][k] \in Nat /\ shed[p][k] \in Nat /\ cut[p][k] \in Nat
          /\ twice[p][k] \in Nat /\ Queued(p, k)' \in Nat /\ shed'[p][k] \in Nat
      BY Naturals, NaturalsNext DEF Queueable
    <3>3. Alive(p, k)' = Queued(p, k)' + folded[p][k] + cut[p][k]
      BY <1>1, <1>4, <3>2 DEF Alive, Queueable
    <3>4. Alive(p, k) = Queued(p, k) + (IF h = k THEN 1 ELSE 0) + folded[p][k] + cut[p][k]
      BY <1>4, <3>2 DEF Alive, Queueable
    <3>5. Queued(p, k)' + shed'[p][k] = Queued(p, k) + shed[p][k] + IF h = k THEN 1 ELSE 0
      BY <2>2
    <3> QED
      BY <1>1, <3>1, <3>2, <3>3, <3>4, <3>5
  <2>4. SumFunction(shed'[p]) = dropped'[p] + toTell'[p] + said'[p] + cutTold'[p]
    <3>1. SumFunction(shed[p]) = dropped[p] + toTell[p] + said[p] + cutTold[p]
      BY DEF ProcessInv, Accounted
    <3>2. SumFunction(shed'[p]) \in Nat
      BY KindAssumption, SumTyped DEF TypeInv, TypeOK, Counts
    <3> QED
      BY <1>1, <1>5, <2>1, <2>2, <3>1, <3>2
  <2>5. KeysSurvive(p)'
    <3>1. \A k \in Kind : raised[p][k] \in Nat /\ folded[p][k] \in Nat /\ cut[p][k] \in Nat
      BY Naturals
    <3>2. \A k \in Queueable \ {h} :
            Holds(p, k) + folded[p][k] + cut[p][k] <= Holds(p, k)' + folded'[p][k] + cut'[p][k]
      BY <1>1, <1>4, <3>1 DEF Queueable
    <3>3. (\A k \in Kind \ {h} : raised'[p][k] = raised[p][k]) /\ raised[p][h] <= raised'[p][h]
      BY <1>1, <1>2, <3>1
    <3> QED
      BY <2>1, <3>2, <3>3, AppendSurvives DEF ProcessInv
  <2>6. Accounted(p)'
    BY <1>1, <1>3, <2>3, <2>4 DEF Accounted
  <2> QED
    BY <1>6, <2>5, <2>6 DEF ProcessInv
<1> QED
  BY <1>7, <1>8

LEMMA StopOwn ==
  ASSUME TypeInv, TypeInv', NEW p \in Process, ProcessInv(p), Stop(p)
  PROVE  ProcessInv(p)'
<1> DEFINE h == held[p]
<1>1. life'[p] = "first" /\ (CancelDelivery(p) \/ (phase[p] = "asleep"
        /\ UNCHANGED <<trackerVars, memory, tick, toRaise, faults, ledger, late>>))
  BY DEF Stop, TypeInv, TypeOK
<1>2. Stopping(p)'
  BY <1>1 DEF Stopping
<1>3. /\ dropped[p] \in Nat /\ toTell[p] \in Nat /\ said[p] \in Nat /\ cutTold[p] \in Nat
      /\ folded \in Counts /\ cut \in Counts
  BY DEF TypeInv, TypeOK
<1>4. \A k \in Kind : twice[p][k] <= folded[p][k] /\ twice[p][k] \in Nat /\ folded[p][k] \in Nat
  BY Naturals DEF ProcessInv, Accounted
<1>5. CASE UNCHANGED <<trackerVars, memory, tick, toRaise, faults, ledger, late>>
  <2>1. UNCHANGED <<queue, dropped, phase, toTell, held, raised, folded, shed, cut, twice, said, cutTold>>
    BY <1>5 DEF memory, tick, ledger
  <2>2. \A k : Alive(p, k)' = Alive(p, k)
    BY <2>1 DEF Alive, Queued, Holds
  <2>3. phase[p] = "asleep" => toTell[p] = 0
    BY DEF ProcessInv, Accounted
  <2>4. Accounted(p)' /\ KeysSurvive(p)'
    BY <1>4, <2>1, <2>2, <2>3, QuietBooks DEF ProcessInv
  <2> QED
    BY <1>2, <2>4 DEF ProcessInv
<1>6. CASE CancelDelivery(p)
  <2>1. /\ phase[p] \in {"tracking", "looked"} /\ held'[p] = None /\ toTell'[p] = 0
        /\ UNCHANGED <<queue, dropped, raised, shed, twice>>
    BY <1>6 DEF CancelDelivery, memory, TypeInv, TypeOK
  <2>2. h \in Kind
    BY <2>1 DEF TypeInv, TypeOK, Coherent
  <2>3. \/ folded' = Plus(folded, p, h) /\ cut' = cut
        \/ folded' = folded /\ cut' = IF h = Report THEN cut ELSE Plus(cut, p, h)
    BY <1>6 DEF CancelDelivery, Fold
  <2>4. said'[p] + cutTold'[p] = said[p] + cutTold[p] + toTell[p]
        /\ said'[p] \in Nat /\ cutTold'[p] \in Nat
    <3>1. said \in [Process -> Nat] /\ cutTold \in [Process -> Nat]
      BY DEF TypeInv, TypeOK
    <3>2. \/ /\ said'[p] = said[p] + (IF h = Report THEN toTell[p] ELSE 0)
             /\ cutTold'[p] = cutTold[p] + (IF h = Report THEN 0 ELSE toTell[p])
          \/ said'[p] = said[p] /\ cutTold'[p] = cutTold[p] + toTell[p]
      BY <1>6, <3>1 DEF CancelDelivery
    <3> QED
      BY <1>3, <3>2
  <2>5. ASSUME NEW k \in Kind
        PROVE  /\ k # Report =>
                    folded'[p][k] + cut'[p][k] = folded[p][k] + cut[p][k] + IF k = h THEN 1 ELSE 0
               /\ folded[p][k] <= folded'[p][k]
    <3>1. folded[p][k] \in Nat /\ cut[p][k] \in Nat
      BY Naturals
    <3>2. /\ Plus(folded, p, h)[p][k] = folded[p][k] + IF k = h THEN 1 ELSE 0
          /\ Plus(cut, p, h)[p][k] = cut[p][k] + IF k = h THEN 1 ELSE 0
      BY <1>3, <2>2 DEF Plus, Counts
    <3>3. CASE folded' = Plus(folded, p, h) /\ cut' = cut
      BY <3>1, <3>2, <3>3
    <3>4. CASE folded' = folded /\ h = Report /\ cut' = cut
      BY <3>1, <3>4
    <3>5. CASE folded' = folded /\ cut' = Plus(cut, p, h)
      BY <3>1, <3>2, <3>5
    <3> QED
      BY <2>3, <3>3, <3>4, <3>5
  <2>6. ASSUME NEW k \in Queueable PROVE Alive(p, k)' = Alive(p, k)
    <3>1. k \in Kind /\ k # Report
      BY DEF Queueable
    <3>2. Holds(p, k) = (IF k = h THEN 1 ELSE 0) /\ Holds(p, k)' = 0
      BY <2>1, <3>1, KindAssumption DEF Holds
    <3>3. Queued(p, k)' = Queued(p, k)
      BY <2>1 DEF Queued
    <3>4. /\ Queued(p, k) \in Nat /\ folded[p][k] \in Nat /\ cut[p][k] \in Nat
          /\ folded'[p][k] \in Nat /\ cut'[p][k] \in Nat
      BY <3>1, Naturals, NaturalsNext
    <3>5. folded'[p][k] + cut'[p][k] = folded[p][k] + cut[p][k] + IF k = h THEN 1 ELSE 0
      BY <2>5, <3>1
    <3> QED
      BY <3>2, <3>3, <3>4, <3>5 DEF Alive
  <2>7. \A k \in Kind : twice[p][k] <= twice'[p][k] /\ twice'[p][k] <= folded'[p][k]
    <3> SUFFICES ASSUME NEW k \in Kind
                 PROVE  twice[p][k] <= twice'[p][k] /\ twice'[p][k] <= folded'[p][k]
      OBVIOUS
    <3>1. folded'[p][k] \in Nat /\ folded[p][k] <= folded'[p][k] /\ twice'[p][k] = twice[p][k]
      BY <2>1, <2>5, NaturalsNext
    <3> QED
      BY <1>4, <3>1
  <2>8. dropped'[p] + toTell'[p] + said'[p] + cutTold'[p]
          = dropped[p] + toTell[p] + said[p] + cutTold[p]
    BY <1>3, <2>1, <2>4
  <2>9. Accounted(p)' /\ KeysSurvive(p)'
    BY <2>1, <2>6, <2>7, <2>8, QuietBooks DEF ProcessInv
  <2> QED
    BY <1>2, <2>9 DEF ProcessInv
<1> QED
  BY <1>1, <1>5, <1>6

-----------------------------------------------------------------------------
(* What a process accounts for, for every behaviour.                         *)

LEMMA InitProcess == Init => \A p \in Process : ProcessInv(p)
<1> SUFFICES ASSUME Init, NEW p \in Process PROVE ProcessInv(p)
  OBVIOUS
<1>1. /\ queue[p] = <<>> /\ dropped[p] = 0 /\ toTell[p] = 0 /\ held[p] = None
      /\ life[p] = "up" /\ said[p] = 0 /\ cutTold[p] = 0
      /\ raised = Zeros /\ folded = Zeros /\ shed = Zeros /\ cut = Zeros /\ twice = Zeros
  BY DEF Init
<1>2. \A k \in Kind : /\ raised[p][k] = 0 /\ folded[p][k] = 0 /\ shed[p][k] = 0
                      /\ cut[p][k] = 0 /\ twice[p][k] = 0
  BY <1>1 DEF Zeros
<1>3. ASSUME NEW k \in Queueable PROVE Alive(p, k) = 0
  <2>1. Queued(p, k) = 0
    <3>1. {i \in 1 .. Len(queue[p]) : queue[p][i] = k} = {}
      BY <1>1
    <3> QED
      BY <3>1, FS_EmptySet DEF Queued
  <2>2. Holds(p, k) = 0 /\ k \in Kind
    BY <1>1, KindAssumption DEF Holds, Queueable
  <2> QED
    BY <1>2, <2>1, <2>2 DEF Alive
<1>4. SumFunction(shed[p]) = 0
  <2>1. shed[p] \in [Kind -> Nat]
    BY <1>1 DEF Zeros
  <2> QED
    BY <1>2, <2>1, KindAssumption, SumOfNone
<1>5. Accounted(p)
  BY <1>1, <1>2, <1>3, <1>4 DEF Accounted, Queueable
<1>6. RaisedKeys(p) = {}
  BY <1>2 DEF RaisedKeys
<1> QED
  BY <1>1, <1>5, <1>6 DEF ProcessInv, KeysSurvive, Stopping

LEMMA NextProcess ==
  ASSUME TypeInv, TypeInv', \A p \in Process : ProcessInv(p), [Next]_vars
  PROVE  \A p \in Process : ProcessInv(p)'
<1>1. ASSUME NEW p \in Process, (\E k \in Ordinary : Capture(p, k)) \/ Drain(p) \/ Stop(p)
      PROVE  \A q \in Process : ProcessInv(q)'
  <2>1. ProcessInv(p)'
    BY <1>1, CaptureOwn, StartTickOwn, PopOwn, EndLoopOwn, LookOwn, DeliveredOwn, FailureOwn,
       KeepOwn, StopOwn DEF Drain
  <2>2. \A q \in Process \ {p} : ProcessInv(q)'
    BY <1>1, OthersUntouched, UntouchedKeeps
  <2> QED
    BY <2>1, <2>2
<1>2. ASSUME UNCHANGED <<memory, tick, life, ledger, late>>
      PROVE  \A q \in Process : ProcessInv(q)'
  <2>1. \A q \in Process : Untouched(q)
    BY <1>2 DEF memory, tick, ledger, Untouched
  <2> QED
    BY <2>1, UntouchedKeeps
<1> QED
  BY <1>1, <1>2 DEF Next, Administration, vars

(* Every process: its books balance, its keys survive, its stop is clean.    *)
LEMMA BooksKept == Spec => [](TypeInv /\ \A p \in Process : ProcessInv(p))
<1> DEFINE Inv == IInv /\ TypeInv /\ \A p \in Process : ProcessInv(p)
<1>1. Init => Inv
  BY InitIInv, InitTyped, InitProcess
<1>2. Inv /\ [Next]_vars => Inv'
  <2> SUFFICES ASSUME Inv, [Next]_vars PROVE Inv'
    OBVIOUS
  <2>1. IInv' /\ TypeInv'
    BY NextIInv, NextTyped
  <2> QED
    BY <2>1, NextProcess
<1>3. Inv => TypeInv /\ \A p \in Process : ProcessInv(p)
  OBVIOUS
<1> QED
  BY <1>1, <1>2, <1>3, PTL DEF Spec

(* No capture vanishes or multiplies: it waits, is being delivered, was      *)
(* folded, shed or cut; and what was shed is told or still to be told.       *)
THEOREM CapturesAccounted == Spec => []EveryCaptureAccounted
<1>1. TypeInv /\ (\A p \in Process : ProcessInv(p)) => EveryCaptureAccounted
  <2> SUFFICES ASSUME TypeInv, NEW p \in Process, ProcessInv(p)
               PROVE  /\ \A k \in Kind \ {Report} :
                           raised[p][k] + twice[p][k]
                             = Queued(p, k) + Holds(p, k) + folded[p][k] + shed[p][k] + cut[p][k]
                      /\ SumFunction(shed[p]) = dropped[p] + toTell[p] + said[p] + cutTold[p]
    BY DEF EveryCaptureAccounted
  <2>1. ASSUME NEW k \in Queueable
        PROVE  raised[p][k] + twice[p][k]
                 = Queued(p, k) + Holds(p, k) + folded[p][k] + shed[p][k] + cut[p][k]
    <3>1. /\ Queued(p, k) \in Nat /\ Holds(p, k) \in Nat /\ folded[p][k] \in Nat
          /\ shed[p][k] \in Nat /\ cut[p][k] \in Nat
      BY Naturals DEF Queueable
    <3>2. raised[p][k] + twice[p][k] = Alive(p, k) + shed[p][k]
      BY DEF ProcessInv, Accounted
    <3> QED
      BY <3>1, <3>2 DEF Alive
  <2> QED
    BY <2>1 DEF Queueable, ProcessInv, Accounted
<1> QED
  BY <1>1, BooksKept, PTL

(* A storm pays for itself: while the keys raised are fewer than the queue   *)
(* has room, each keeps a capture that waits, is delivered or was folded.    *)
THEOREM KeysSurviveStorms == Spec => []EveryKeySurvives
<1>1. TypeInv /\ (\A p \in Process : ProcessInv(p)) => EveryKeySurvives
  BY DEF EveryKeySurvives, Survives, ProcessInv, KeysSurvive, Alive, Queueable
<1> QED
  BY <1>1, BooksKept, PTL

(* A process that stops undisturbed leaves nothing in memory.                *)
THEOREM StopIsClean == Spec => []StopLeavesNothing
<1>1. TypeInv /\ (\A p \in Process : ProcessInv(p)) => StopLeavesNothing
  BY DEF StopLeavesNothing, ProcessInv, Stopping
<1> QED
  BY <1>1, BooksKept, PTL

-----------------------------------------------------------------------------
(* An issue's count.                                                         *)

Occurrences(f) == {x \in Process \X Kind : PrintOf[x[2]] = f}
FoldsOf(f) == [x \in Occurrences(f) |-> folded[x[1]][x[2]]]

LEMMA FoldsTyped ==
  ASSUME TypeInv, NEW f
  PROVE  IsFiniteSet(Occurrences(f)) /\ FoldsOf(f) \in [Occurrences(f) -> Nat]
<1>1. IsFiniteSet(Process \X Kind)
  BY ProcessAssumption, KindAssumption, FS_Product
<1>2. IsFiniteSet(Occurrences(f))
  BY <1>1, FS_Subset DEF Occurrences
<1>3. \A x \in Occurrences(f) : folded[x[1]][x[2]] \in Nat
  BY DEF Occurrences, TypeInv, TypeOK, Counts
<1> QED
  BY <1>2, <1>3 DEF FoldsOf

(* A commit of the tracker counts one occurrence, and folds one capture.     *)
LEMMA FoldCounts ==
  ASSUME IInv, TypeInv, CountsOccurrences, NEW p \in Process, Fold(p)
  PROVE  CountsOccurrences'
<1> DEFINE h == held[p]
           g == PrintOf[h]
           row == SeeOccurrence(look[p], ReleaseOf[p])
<1>1. /\ phase[p] = "looked" /\ Unmoved(g, look[p])
      /\ issue' = [issue EXCEPT ![g] = row] /\ folded' = Plus(folded, p, h)
  BY DEF Fold, Track
<1>2. h \in Kind /\ g \in Fingerprint /\ folded \in Counts
  BY <1>1, PrintAssumption DEF TypeInv, TypeOK, Coherent
<1>3. look[p] = issue[g] /\ issue \in [Fingerprint -> Rows]
  BY <1>1, <1>2 DEF IInv, TrackersLoaded, TrackerTypes, AsOf, Unmoved
<1>4. row.count = issue[g].count + 1
  <2>1. CASE look[p] = Absent
    BY <1>3, <2>1 DEF SeeOccurrence, Absent
  <2>2. CASE look[p] # Absent
    <3>1. look[p] \in Rows
      BY <1>2, <1>3
    <3>2. [look[p] EXCEPT !.status = StatusAfter(look[p], ReleaseOf[p]),
                          !.count = @ + 1, !.version = @ + 1].count = look[p].count + 1
      BY <3>1 DEF Rows
    <3> QED
      BY <1>3, <2>2, <3>2 DEF SeeOccurrence
  <2> QED
    BY <2>1, <2>2
<1> HIDE DEF row
<1>5. issue'[g].count = issue[g].count + 1
      /\ \A f \in Fingerprint \ {g} : issue'[f] = issue[f]
  BY <1>1, <1>2, <1>3, <1>4
<1>6. folded'[p][h] = folded[p][h] + 1
      /\ \A q \in Process, k \in Kind : q # p \/ k # h => folded'[q][k] = folded[q][k]
  BY <1>1, <1>2 DEF Plus, Counts
<1> SUFFICES ASSUME NEW f \in Fingerprint PROVE issue'[f].count = SumFunction(FoldsOf(f)')
  BY DEF CountsOccurrences, FoldsOf, Occurrences
<1>7. issue[f].count = SumFunction(FoldsOf(f))
  BY DEF CountsOccurrences, FoldsOf, Occurrences
<1>8. FoldsOf(f)' = [x \in Occurrences(f) |-> folded'[x[1]][x[2]]]
  BY DEF FoldsOf, Occurrences
<1>9. CASE f = g
  <2> DEFINE at == <<p, h>>
  <2>1. at \in Occurrences(f) /\ at[1] = p /\ at[2] = h
    BY <1>2, <1>9 DEF Occurrences
  <2>2. \A x \in Occurrences(f) :
          folded'[x[1]][x[2]] = IF x = at THEN FoldsOf(f)[at] + 1 ELSE FoldsOf(f)[x]
    <3> SUFFICES ASSUME NEW x \in Occurrences(f)
                 PROVE  folded'[x[1]][x[2]] = IF x = at THEN FoldsOf(f)[at] + 1 ELSE FoldsOf(f)[x]
      OBVIOUS
    <3>1. x[1] \in Process /\ x[2] \in Kind /\ x = <<x[1], x[2]>>
      BY DEF Occurrences
    <3>2. FoldsOf(f)[x] = folded[x[1]][x[2]] /\ FoldsOf(f)[at] = folded[p][h]
      BY <2>1 DEF FoldsOf
    <3> QED
      BY <1>6, <3>1, <3>2
  <2> HIDE DEF at
  <2>3. FoldsOf(f)' = [FoldsOf(f) EXCEPT ![at] = @ + 1]
    BY <1>8, <2>2, FoldsTyped
  <2>4. SumFunction(FoldsOf(f)') = SumFunction(FoldsOf(f)) + 1
    <3> DEFINE S == Occurrences(f)
               w == FoldsOf(f)
    <3>1. IsFiniteSet(S) /\ w \in [S -> Nat] /\ at \in S
      BY <2>1, FoldsTyped
    <3> HIDE DEF S, w
    <3>2. SumFunction([w EXCEPT ![at] = @ + 1]) = SumFunction(w) + 1
      BY <3>1, SumOneMore
    <3> QED
      BY <2>3, <3>2 DEF w
  <2> QED
    BY <1>5, <1>7, <1>9, <2>4
<1>10. CASE f # g
  <2>1. \A x \in Occurrences(f) : folded'[x[1]][x[2]] = folded[x[1]][x[2]]
    BY <1>6, <1>10 DEF Occurrences
  <2>2. FoldsOf(f)' = FoldsOf(f)
    BY <1>8, <2>1 DEF FoldsOf
  <2> QED
    BY <1>5, <1>7, <1>10, <2>2
<1> QED
  BY <1>9, <1>10

LEMMA NextCounts ==
  ASSUME IInv, TypeInv, CountsOccurrences, [Next]_vars
  PROVE  CountsOccurrences'
<1>1. ASSUME NEW p \in Process, Fold(p) PROVE CountsOccurrences'
  BY <1>1, FoldCounts
<1>2. ASSUME folded' = folded, \A f \in Fingerprint : issue'[f].count = issue[f].count
      PROVE  CountsOccurrences'
  BY <1>2 DEF CountsOccurrences
<1>3. CASE UNCHANGED <<issue, folded>>
  BY <1>2, <1>3
<1>4. ASSUME NEW a \in Admin, SetIssueStatus(a), folded' = folded PROVE CountsOccurrences'
  <2> DEFINE v == verdict[a]
             new == [SetStatus(v.row, v.status, v.release) EXCEPT !.version = @ + 1]
  <2>1. CASE UNCHANGED issue
    BY <1>2, <1>4, <2>1
  <2>2. CASE Unmoved(v.f, v.row) /\ issue' = [issue EXCEPT ![v.f] = new]
    <3>1. v \in Verdicts /\ issue \in [Fingerprint -> Rows]
      BY <1>4 DEF SetIssueStatus, IInv, VerdictTypes, TrackerTypes, NoVerdict
    <3>2. v.row = issue[v.f] /\ v.f \in Fingerprint /\ v.row \in Rows
      BY <2>2, <3>1 DEF IInv, VerdictsLoaded, AsOf, Unmoved, Verdicts
    <3>3. new.count = v.row.count
      BY <3>2 DEF SetStatus, Rows
    <3> HIDE DEF new, v
    <3> QED
      BY <1>2, <1>4, <2>2, <3>1, <3>2, <3>3
  <2> QED
    BY <1>4, <2>1, <2>2 DEF SetIssueStatus
<1>5. ASSUME Administration PROVE CountsOccurrences'
  <2>1. folded' = folded
    BY <1>5 DEF Administration, ledger
  <2> QED
    BY <1>3, <1>4, <1>5, <2>1 DEF Administration, Triage, LoadIssue, TriageFails, issues
<1>6. ASSUME NEW p \in Process, NEW k \in Ordinary, Capture(p, k) PROVE CountsOccurrences'
  BY <1>3, <1>6 DEF Capture, trackerVars, issues
<1>7. ASSUME NEW p \in Process, Drain(p) PROVE CountsOccurrences'
  <2>1. (\E q \in Process : Fold(q)) \/ UNCHANGED <<issue, folded>>
    BY <1>7 DEF Drain, StartTick, Pop, EndLoop, Look, Delivered, TrackerFails, AnswerLost, Keep,
                trackerVars, issues, ledger
  <2> QED
    BY <1>1, <1>3, <2>1
<1>8. ASSUME NEW p \in Process, Stop(p) PROVE CountsOccurrences'
  <2>1. Fold(p) \/ UNCHANGED <<issue, folded>>
    BY <1>8 DEF Stop, CancelDelivery, trackerVars, issues, ledger
  <2> QED
    BY <1>1, <1>3, <2>1
<1>9. CASE UNCHANGED vars
  BY <1>3, <1>9 DEF vars, trackerVars, issues, ledger
<1> QED
  BY <1>5, <1>6, <1>7, <1>8, <1>9 DEF Next

LEMMA InitCounts == Init => CountsOccurrences
<1> SUFFICES ASSUME Init, NEW f \in Fingerprint PROVE issue[f].count = SumFunction(FoldsOf(f))
  BY DEF CountsOccurrences, FoldsOf, Occurrences
<1>1. issue[f].count = 0 /\ folded = Zeros
  BY DEF Init, TrackerInit, Absent
<1>2. \A x \in Occurrences(f) : FoldsOf(f)[x] = 0
  BY <1>1 DEF FoldsOf, Occurrences, Zeros
<1>3. IsFiniteSet(Occurrences(f)) /\ FoldsOf(f) \in [Occurrences(f) -> Nat]
  BY InitTyped, FoldsTyped
<1> QED
  BY <1>1, <1>2, <1>3, SumOfNone

(* An issue's count is the captures all the processes folded into it.        *)
THEOREM CountsAreExact == Spec => []CountsOccurrences
<1>1. Init => IInv /\ TypeInv /\ CountsOccurrences
  BY InitIInv, InitTyped, InitCounts
<1>2. (IInv /\ TypeInv /\ CountsOccurrences) /\ [Next]_vars
        => (IInv /\ TypeInv /\ CountsOccurrences)'
  BY NextIInv, NextTyped, NextCounts
<1> QED
  BY <1>1, <1>2, PTL DEF Spec

-----------------------------------------------------------------------------
(* The log sink, the load metrics and the Timeline of a server process.      *)
(* A sum is one of its terms and the sum of the others.                      *)
LEMMA SumRest ==
  ASSUME NEW S, IsFiniteSet(S), NEW v \in [S -> Nat], NEW x \in S
  PROVE  SumFunction(v) = v[x] + SumFunction([y \in S \ {x} |-> v[y]])
<1> DEFINE w == [y \in S \ {x} |-> v[y]]
<1>1. IsFiniteSet(S \ {x}) /\ w \in [S \ {x} -> Nat]
  BY FS_RemoveElement
<1>2. Units(w, S \ {x}) = Units(v, S \ {x})
  BY DEF Units
<1>3. /\ IsFiniteSet(Units(w, S \ {x})) /\ SumFunction(w) = Cardinality(Units(w, S \ {x}))
      /\ SumFunction(v) = Cardinality(Units(v, S))
  BY <1>1, SumIsSize
<1>4. Cardinality(Units(v, S)) = v[x] + Cardinality(Units(v, S \ {x}))
  BY <1>2, <1>3, UnitsOfMore
<1> QED
  BY <1>2, <1>3, <1>4

-----------------------------------------------------------------------------
(* The lines of a process.                                                   *)
Whats == Reports \cup {"heavy_request", "request", "flush_failed", "flush_recovered", "crashed"}
Line == [at : Nat, what : Whats, n : Nat]

BufferTypes(b) ==
  b \in [queue : Seq(Line), dropped : Nat, said : Nat, first : Nat, fell : SUBSET Line, reports : SUBSET Line]

\* The queue ends with the last line said, and what fell is older.
Numbered(b) ==
  /\ Len(b.queue) <= b.said
  /\ \A i \in 1 .. Len(b.queue) : b.queue[i].at = b.said - Len(b.queue) + i
  /\ \A l \in b.fell : l.at <= b.said - Len(b.queue)
  /\ \A l \in b.reports : l.at <= b.said

ToldIn(b, what) == {l \in b.reports : l.what = what}

DropsTold(b) == Sum(ToldIn(b, "overflowed")) + b.dropped = Cardinality(b.fell)

BufferInv(b) ==
  /\ BufferTypes(b) /\ Numbered(b)
  /\ IsFiniteSet(b.fell) /\ IsFiniteSet(b.reports)

OutageTypes(o) == o \in [lines : Nat, refusing : BOOLEAN, announced : BOOLEAN]

\* Of outages, the log path and the count of refusals agree.
OutagesTold(b, o, n) ==
  /\ Sum(ToldIn(b, "write_recovered")) + o.lines = n
  /\ Cardinality(ToldIn(b, "write_failed"))
       = Cardinality(ToldIn(b, "write_recovered")) + (IF o.announced THEN 1 ELSE 0)

LinesOf(b) == ToSet(b.queue) \cup b.fell

\* From b to c only lines were added, numbered on.
Grew(b, c) ==
  /\ b.said <= c.said
  /\ \E new \in SUBSET Line :
       /\ LinesOf(c) = LinesOf(b) \cup new
       /\ {l.at : l \in new} = (b.said + 1) .. c.said
       /\ \A l, m \in new : l.at = m.at => l = m

NextLine(b, what, n) == [at |-> b.said + 1, what |-> what, n |-> n]

LEMMA LoggedFields ==
  ASSUME NEW b, BufferTypes(b), NEW what \in Whats, NEW n \in Nat
  PROVE  LET line == NextLine(b, what, n)
             c == Logged(b, what, n)
         IN  /\ line \in Line
             /\ c \in [queue : Seq(Line), dropped : Nat, said : Nat, first : Nat,
                       fell : SUBSET (Line \cup {Head(b.queue)}), reports : SUBSET Line]
             /\ c.said = b.said + 1 /\ c.first = b.first
             /\ c.dropped = IF Full(b) THEN b.dropped + 1 ELSE b.dropped
             /\ c.queue = Append(IF Full(b) THEN Tail(b.queue) ELSE b.queue, line)
             /\ c.fell = IF Full(b) THEN b.fell \cup {Head(b.queue)} ELSE b.fell
             /\ c.reports = IF what \in Reports THEN b.reports \cup {line} ELSE b.reports
<1> DEFINE line == NextLine(b, what, n)
<1>1. b.said \in Nat /\ b.queue \in Seq(Line) /\ b.dropped \in Nat
  BY DEF BufferTypes
<1>2. line \in Line
  BY <1>1 DEF NextLine, Line
<1>3. Full(b) => Tail(b.queue) \in Seq(Line)
  <2>1. Full(b) => b.queue # <<>>
    BY <1>1, LogSinkAssumption DEF Full
  <2> QED
    BY <1>1, <2>1
<1> DEFINE c == Logged(b, what, n)
           q == IF Full(b) THEN Tail(b.queue) ELSE b.queue
<1>4. q \in Seq(Line)
  BY <1>1, <1>3
<1>5. /\ c.said = b.said + 1 /\ c.first = b.first
      /\ c.dropped = IF Full(b) THEN b.dropped + 1 ELSE b.dropped
      /\ c.queue = Append(q, line)
      /\ c.fell = IF Full(b) THEN b.fell \cup {Head(b.queue)} ELSE b.fell
      /\ c.reports = IF what \in Reports THEN b.reports \cup {line} ELSE b.reports
      /\ c = [queue |-> c.queue, dropped |-> c.dropped, said |-> c.said, first |-> c.first,
              fell |-> c.fell, reports |-> c.reports]
  <2>1. b = [queue |-> b.queue, dropped |-> b.dropped, said |-> b.said, first |-> b.first,
             fell |-> b.fell, reports |-> b.reports]
    BY DEF BufferTypes
  <2>2. DOMAIN b = {"queue", "dropped", "said", "first", "fell", "reports"}
    BY <2>1
  <2>3. /\ DOMAIN c = {"queue", "dropped", "said", "first", "fell", "reports"}
        /\ c.said = b.said + 1 /\ c.first = b.first
        /\ c.dropped = IF Full(b) THEN b.dropped + 1 ELSE b.dropped
        /\ c.queue = Append(q, line)
        /\ c.fell = IF Full(b) THEN b.fell \cup {Head(b.queue)} ELSE b.fell
        /\ c.reports = IF what \in Reports THEN b.reports \cup {line} ELSE b.reports
    BY <2>2 DEF Logged, NextLine
  <2>4. c = [f \in DOMAIN c |-> c[f]]
    BY DEF Logged
  <2> HIDE DEF c, line, q
  <2> QED
    BY <2>3, <2>4
<1> HIDE DEF q, line
<1>6. Append(q, line) \in Seq(Line)
  BY <1>2, <1>4
<1>7. /\ c.queue \in Seq(Line) /\ c.dropped \in Nat /\ c.said \in Nat /\ c.first \in Nat
      /\ c.fell \in SUBSET (Line \cup {Head(b.queue)}) /\ c.reports \in SUBSET Line
  BY <1>1, <1>2, <1>5, <1>6 DEF BufferTypes
<1> HIDE DEF c
<1> QED
  BY <1>2, <1>5, <1>7 DEF c, q, line

LEMMA SumTold ==
  ASSUME NEW lines \in SUBSET Line, IsFiniteSet(lines)
  PROVE  /\ Sum(lines) \in Nat
         /\ \A l \in Line \ lines : Sum(lines \cup {l}) = Sum(lines) + l.n
<1> DEFINE v == [l \in lines |-> l.n]
<1>1. v \in [lines -> Nat]
  BY DEF Line
<1>2. Sum(lines) \in Nat
  BY <1>1, SumTyped DEF Sum
<1>3. ASSUME NEW l \in Line \ lines PROVE Sum(lines \cup {l}) = Sum(lines) + l.n
  <2> DEFINE more == lines \cup {l}
             w == [m \in more |-> m.n]
             rest == [m \in more \ {l} |-> w[m]]
  <2>1. IsFiniteSet(more) /\ w \in [more -> Nat] /\ l \in more
    BY <1>3, FS_AddElement DEF Line
  <2>2. w[l] = l.n /\ l.n \in Nat
    BY <2>1 DEF Line
  <2>3. rest = v
    BY <1>3
  <2>4. Sum(lines) = SumFunction(v) /\ Sum(more) = SumFunction(w)
    BY DEF Sum
  <2> HIDE DEF more, w, v
  <2>5. SumFunction(w) = w[l] + SumFunction(rest)
    BY <2>1, SumRest
  <2> HIDE DEF rest
  <2> QED
    BY <1>2, <2>2, <2>3, <2>4, <2>5 DEF more
<1> QED
  BY <1>2, <1>3

LEMMA ToldTyped ==
  ASSUME NEW b, BufferInv(b), NEW what
  PROVE  /\ ToldIn(b, what) \in SUBSET Line /\ IsFiniteSet(ToldIn(b, what))
         /\ Sum(ToldIn(b, what)) \in Nat /\ Cardinality(ToldIn(b, what)) \in Nat
<1>1. ToldIn(b, what) \in SUBSET b.reports /\ b.reports \in SUBSET Line /\ IsFiniteSet(b.reports)
  BY DEF ToldIn, BufferInv, BufferTypes
<1>2. ToldIn(b, what) \in SUBSET Line /\ IsFiniteSet(ToldIn(b, what))
  BY <1>1, FS_Subset
<1> QED
  BY <1>2, SumTold, FS_CardinalityType

LEMMA SetOfQueue ==
  ASSUME NEW K, NEW q \in Seq(K)
  PROVE  ToSet(q) = {q[i] : i \in 1 .. Len(q)} /\ ToSet(q) \subseteq K
<1>1. DOMAIN q = 1 .. Len(q) /\ \A i \in 1 .. Len(q) : q[i] \in K
  OBVIOUS
<1> QED
  BY <1>1 DEF ToSet

LEMMA LoggedQueue ==
  ASSUME NEW b, BufferInv(b), NEW what \in Whats, NEW n \in Nat
  PROVE  LET c == Logged(b, what, n)
         IN  /\ BufferInv(c)
             /\ LinesOf(c) = LinesOf(b) \cup {NextLine(b, what, n)}
             /\ NextLine(b, what, n) \notin b.reports
             /\ c.dropped + Cardinality(b.fell) = b.dropped + Cardinality(c.fell)
             /\ c.said = b.said + 1
<1> DEFINE line == NextLine(b, what, n)
           c == Logged(b, what, n)
           q == IF Full(b) THEN Tail(b.queue) ELSE b.queue
<1>1. /\ b.said \in Nat /\ b.queue \in Seq(Line) /\ b.dropped \in Nat /\ b.fell \subseteq Line
      /\ b.reports \subseteq Line /\ Len(b.queue) \in Nat
      /\ IsFiniteSet(b.fell) /\ IsFiniteSet(b.reports)
  BY DEF BufferInv, BufferTypes
<1>2. /\ line \in Line /\ line.at = b.said + 1 /\ line.what = what
      /\ c \in [queue : Seq(Line), dropped : Nat, said : Nat, first : Nat,
                fell : SUBSET (Line \cup {Head(b.queue)}), reports : SUBSET Line]
      /\ c.said = b.said + 1
      /\ c.dropped = IF Full(b) THEN b.dropped + 1 ELSE b.dropped
      /\ c.queue = Append(q, line)
      /\ c.fell = IF Full(b) THEN b.fell \cup {Head(b.queue)} ELSE b.fell
      /\ c.reports = IF what \in Reports THEN b.reports \cup {line} ELSE b.reports
  BY LoggedFields DEF BufferInv, NextLine
<1> HIDE DEF c, line
<1>3. /\ \A i \in 1 .. Len(b.queue) : b.queue[i] \in Line /\ b.queue[i].at = b.said - Len(b.queue) + i
      /\ Len(b.queue) <= b.said
      /\ \A l \in b.fell : l.at <= b.said - Len(b.queue)
      /\ \A l \in b.reports : l.at <= b.said
  BY <1>1 DEF BufferInv, Numbered
<1>4. Full(b) => /\ b.queue # <<>> /\ Head(b.queue) = b.queue[1] /\ Head(b.queue) \in Line
                 /\ 1 \in 1 .. Len(b.queue)
                 /\ Head(b.queue).at = b.said - Len(b.queue) + 1
  <2>1. Full(b) => b.queue # <<>> /\ Len(b.queue) >= 1
    BY <1>1, LogSinkAssumption DEF Full
  <2> QED
    BY <1>1, <1>3, <2>1
<1>5. /\ q \in Seq(Line)
      /\ Len(q) = IF Full(b) THEN Len(b.queue) - 1 ELSE Len(b.queue)
      /\ \A i \in 1 .. Len(q) : q[i] = IF Full(b) THEN b.queue[i + 1] ELSE b.queue[i]
      /\ ToSet(b.queue) = IF Full(b) THEN ToSet(q) \cup {Head(b.queue)} ELSE ToSet(q)
  <2>1. CASE Full(b)
    <3>1. /\ Tail(b.queue) \in Seq(Line) /\ Len(Tail(b.queue)) = Len(b.queue) - 1
          /\ \A i \in 1 .. Len(b.queue) - 1 : Tail(b.queue)[i] = b.queue[i + 1]
      BY <1>1, <1>4, <2>1
    <3>2. \A i \in 1 .. Len(b.queue) : i = 1 \/ i - 1 \in 1 .. Len(b.queue) - 1
      BY <1>1
    <3>3. \A i \in 2 .. Len(b.queue) : b.queue[i] = Tail(b.queue)[i - 1]
      <4> SUFFICES ASSUME NEW i \in 2 .. Len(b.queue) PROVE b.queue[i] = Tail(b.queue)[i - 1]
        OBVIOUS
      <4>1. i - 1 \in 1 .. Len(b.queue) - 1 /\ (i - 1) + 1 = i
        BY <1>1
      <4> QED
        BY <3>1, <4>1
    <3>4. ToSet(b.queue) = ToSet(Tail(b.queue)) \cup {b.queue[1]}
      <4>1. /\ ToSet(b.queue) = {b.queue[i] : i \in 1 .. Len(b.queue)}
            /\ ToSet(Tail(b.queue)) = {Tail(b.queue)[i] : i \in 1 .. Len(b.queue) - 1}
        BY <1>1, <3>1, SetOfQueue
      <4>2. \A i \in 1 .. Len(b.queue) : b.queue[i] \in ToSet(Tail(b.queue)) \cup {b.queue[1]}
        <5> SUFFICES ASSUME NEW i \in 1 .. Len(b.queue), i # 1
                     PROVE  b.queue[i] \in ToSet(Tail(b.queue))
          OBVIOUS
        <5>1. i \in 2 .. Len(b.queue) /\ i - 1 \in 1 .. Len(b.queue) - 1
          BY <1>1
        <5> QED
          BY <3>3, <4>1, <5>1
      <4>3. \A i \in 1 .. Len(b.queue) - 1 : i + 1 \in 1 .. Len(b.queue)
        BY <1>1
      <4> QED
        BY <1>4, <2>1, <3>1, <4>1, <4>2, <4>3
    <3> QED
      BY <1>1, <1>4, <2>1, <3>1, <3>4
  <2>2. CASE ~ Full(b)
    BY <1>1, <2>2
  <2> QED
    BY <2>1, <2>2
<1> HIDE DEF q
<1>6. /\ c.queue \in Seq(Line) /\ Len(c.queue) = Len(q) + 1 /\ Len(q) \in Nat
      /\ \A i \in 1 .. Len(q) : c.queue[i] = q[i]
      /\ c.queue[Len(q) + 1] = line
  BY <1>2, <1>5
<1>7. ToSet(c.queue) = ToSet(q) \cup {line}
  <2>1. /\ ToSet(c.queue) = {c.queue[i] : i \in 1 .. Len(q) + 1}
        /\ ToSet(q) = {q[i] : i \in 1 .. Len(q)}
    BY <1>5, <1>6, SetOfQueue
  <2>2. 1 .. Len(q) + 1 = (1 .. Len(q)) \cup {Len(q) + 1}
    BY <1>6
  <2> QED
    BY <1>6, <2>1, <2>2
<1>8. LinesOf(c) = LinesOf(b) \cup {line}
  BY <1>2, <1>5, <1>7 DEF LinesOf
<1>9. BufferTypes(c)
  BY <1>1, <1>2, <1>4 DEF BufferTypes
<1>10. Numbered(c)
  <2>1. \A i \in 1 .. Len(c.queue) : c.queue[i].at = c.said - Len(c.queue) + i
    <3> SUFFICES ASSUME NEW i \in 1 .. Len(c.queue) PROVE c.queue[i].at = c.said - Len(c.queue) + i
      OBVIOUS
    <3>1. CASE i = Len(q) + 1
      BY <1>1, <1>2, <1>6, <3>1
    <3>2. CASE i \in 1 .. Len(q)
      <4>1. CASE Full(b)
        <5>1. i + 1 \in 1 .. Len(b.queue)
          BY <1>1, <1>5, <3>2, <4>1
        <5>2. c.queue[i] = b.queue[i + 1]
          BY <1>5, <1>6, <3>2, <4>1
        <5>3. b.queue[i + 1].at = b.said - Len(b.queue) + (i + 1)
          BY <1>3, <5>1
        <5> QED
          <6>1. Len(c.queue) = Len(b.queue) /\ c.said = b.said + 1 /\ i \in Nat
            BY <1>1, <1>2, <1>5, <1>6, <3>2, <4>1
          <6>2. c.queue[i].at = b.said - Len(b.queue) + (i + 1)
            BY <5>2, <5>3
          <6>3. b.said - Len(b.queue) + (i + 1) = (b.said + 1) - Len(b.queue) + i
            <7>1. \A x, y, z \in Nat : x - y + (z + 1) = (x + 1) - y + z
              OBVIOUS
            <7>2. b.said \in Nat /\ Len(b.queue) \in Nat /\ i \in Nat
              BY <1>1, <6>1
            <7> QED
              BY <7>1, <7>2
          <6> QED
            BY <6>1, <6>2, <6>3
      <4>2. CASE ~ Full(b)
        <5>1. c.queue[i] = b.queue[i] /\ i \in 1 .. Len(b.queue)
          BY <1>5, <1>6, <3>2, <4>2
        <5>2. b.queue[i].at = b.said - Len(b.queue) + i
          BY <1>3, <5>1
        <5>3. Len(c.queue) = Len(b.queue) + 1 /\ c.said = b.said + 1 /\ i \in Nat
          BY <1>1, <1>2, <1>5, <1>6, <3>2, <4>2
        <5>4. \A x, y, z \in Nat : x - y + z = (x + 1) - (y + 1) + z
          OBVIOUS
        <5>5. b.said - Len(b.queue) + i = c.said - Len(c.queue) + i
          BY <1>1, <5>3, <5>4
        <5> QED
          BY <5>1, <5>2, <5>5
      <4> QED
        BY <4>1, <4>2
    <3> QED
      BY <1>6, <3>1, <3>2
  <2>2. \A l \in c.fell : l.at <= c.said - Len(c.queue)
    <3> SUFFICES ASSUME NEW l \in c.fell PROVE l.at <= c.said - Len(c.queue)
      OBVIOUS
    <3>1. CASE Full(b)
      <4>1. c.said - Len(c.queue) = b.said - Len(b.queue) + 1
        BY <1>1, <1>2, <1>5, <1>6, <3>1
      <4>2. CASE l \in b.fell
        <5>1. l.at \in Nat /\ l.at <= b.said - Len(b.queue)
          BY <1>1, <1>3, <4>2 DEF Line
        <5> QED
          BY <1>1, <4>1, <5>1
      <4>3. CASE l = Head(b.queue)
        BY <1>1, <1>4, <3>1, <4>1, <4>3
      <4> QED
        BY <1>2, <3>1, <4>2, <4>3
    <3>2. CASE ~ Full(b)
      <4>1. c.said - Len(c.queue) = b.said - Len(b.queue) /\ l \in b.fell
        BY <1>1, <1>2, <1>5, <1>6, <3>2
      <4> QED
        BY <1>3, <4>1
    <3> QED
      BY <3>1, <3>2
  <2>3. \A l \in c.reports : l.at <= c.said
    <3> SUFFICES ASSUME NEW l \in c.reports PROVE l.at <= c.said
      OBVIOUS
    <3>1. CASE l \in b.reports
      <4>1. l.at \in Nat /\ l.at <= b.said
        BY <1>1, <1>3, <3>1 DEF Line
      <4> QED
        BY <1>1, <1>2, <4>1
    <3>2. CASE l = line
      BY <1>1, <1>2, <3>2
    <3> QED
      BY <1>2, <3>1, <3>2
  <2>4. Len(c.queue) <= c.said
    BY <1>1, <1>2, <1>3, <1>5, <1>6
  <2> QED
    BY <2>1, <2>2, <2>3, <2>4 DEF Numbered
<1>11. IsFiniteSet(c.fell) /\ IsFiniteSet(c.reports)
  <2>1. IsFiniteSet(b.fell \cup {Head(b.queue)}) /\ IsFiniteSet(b.reports \cup {line})
    BY <1>1, FS_AddElement
  <2> QED
    BY <1>1, <1>2, <2>1
<1>12. line \notin b.reports
  BY <1>1, <1>2, <1>3
<1>13. c.dropped + Cardinality(b.fell) = b.dropped + Cardinality(c.fell)
  <2>1. CASE Full(b)
    <3>1. Head(b.queue) \notin b.fell
      BY <1>1, <1>3, <1>4, <2>1
    <3>2. Cardinality(b.fell \cup {Head(b.queue)}) = Cardinality(b.fell) + 1
      BY <1>1, <3>1, FS_AddElement
    <3>3. Cardinality(c.fell) = Cardinality(b.fell) + 1 /\ Cardinality(b.fell) \in Nat
      BY <1>1, <1>2, <2>1, <3>2, FS_CardinalityType
    <3>4. c.dropped = b.dropped + 1 /\ b.dropped \in Nat
      BY <1>1, <1>2, <2>1
    <3> QED
      BY <3>3, <3>4
  <2>2. CASE ~ Full(b)
    BY <1>2, <2>2
  <2> QED
    BY <2>1, <2>2
<1> QED
  BY <1>2, <1>8, <1>9, <1>10, <1>11, <1>12, <1>13 DEF BufferInv, c, line

LEMMA LoggedTold ==
  ASSUME NEW b, BufferInv(b), NEW what \in Whats, NEW n \in Nat, NEW w \in Reports
  PROVE  LET c == Logged(b, what, n)
         IN  /\ Sum(ToldIn(c, w)) = Sum(ToldIn(b, w)) + (IF what = w THEN n ELSE 0)
             /\ Cardinality(ToldIn(c, w)) = Cardinality(ToldIn(b, w)) + (IF what = w THEN 1 ELSE 0)
<1> DEFINE line == NextLine(b, what, n)
           c == Logged(b, what, n)
           before == ToldIn(b, w)
<1>1. /\ line \in Line /\ line.what = what /\ line.n = n
      /\ c.reports = IF what \in Reports THEN b.reports \cup {line} ELSE b.reports
  BY LoggedFields DEF BufferInv, NextLine
<1>2. line \notin b.reports
  BY LoggedQueue
<1> HIDE DEF line, c
<1>3. /\ before \in SUBSET Line /\ IsFiniteSet(before)
      /\ Sum(before) \in Nat /\ Cardinality(before) \in Nat
  BY ToldTyped
<1>4. CASE what = w
  <2>1. ToldIn(c, w) = before \cup {line} /\ line \notin before
    BY <1>1, <1>2, <1>4 DEF ToldIn
  <2> HIDE DEF before
  <2>2. Sum(before \cup {line}) = Sum(before) + line.n
    BY <1>1, <1>3, <2>1, SumTold
  <2>3. Cardinality(before \cup {line}) = Cardinality(before) + 1
    BY <1>3, <2>1, FS_AddElement
  <2> QED
    BY <1>1, <1>4, <2>1, <2>2, <2>3 DEF before, c
<1>5. CASE what # w
  <2>1. ToldIn(c, w) = before
    BY <1>1, <1>5 DEF ToldIn
  <2> QED
    BY <1>3, <1>5, <2>1 DEF c
<1> QED
  BY <1>4, <1>5

LEMMA LoggedGrew ==
  ASSUME NEW b, BufferInv(b), NEW what \in Whats, NEW n \in Nat
  PROVE  Grew(b, Logged(b, what, n))
<1> DEFINE line == NextLine(b, what, n)
           c == Logged(b, what, n)
<1>1. line \in Line /\ line.at = b.said + 1 /\ b.said \in Nat
  BY LoggedFields DEF BufferInv, BufferTypes, NextLine
<1>2. LinesOf(c) = LinesOf(b) \cup {line} /\ c.said = b.said + 1
  BY LoggedQueue
<1> HIDE DEF line, c
<1>3. {l.at : l \in {line}} = (b.said + 1) .. c.said
  BY <1>1, <1>2
<1>4. {line} \in SUBSET Line /\ \A l, m \in {line} : l.at = m.at => l = m
  BY <1>1
<1>5. b.said <= c.said
  BY <1>1, <1>2
<1>6. Grew(b, c)
  BY <1>2, <1>3, <1>4, <1>5 DEF Grew
<1> QED
  BY <1>6 DEF c

LEMMA GrewNot ==
  ASSUME NEW b, NEW c, b.said \in Nat, c.said = b.said, LinesOf(c) = LinesOf(b)
  PROVE  Grew(b, c)
<1> DEFINE none == {}
<1>1. none \in SUBSET Line /\ {l.at : l \in none} = {} /\ \A l, m \in none : l.at = m.at => l = m
  OBVIOUS
<1>2. (b.said + 1) .. c.said = {} /\ b.said <= c.said
  OBVIOUS
<1>3. LinesOf(c) = LinesOf(b) \cup none
  OBVIOUS
<1> HIDE DEF none
<1> QED
  BY <1>1, <1>2, <1>3 DEF Grew

LEMMA GrewOn ==
  ASSUME NEW b, NEW c, NEW d, b.said \in Nat, c.said \in Nat, d.said \in Nat, Grew(b, c), Grew(c, d)
  PROVE  Grew(b, d)
<1>1. PICK x \in SUBSET Line :
        /\ LinesOf(c) = LinesOf(b) \cup x
        /\ {l.at : l \in x} = (b.said + 1) .. c.said
        /\ \A l, m \in x : l.at = m.at => l = m
  BY DEF Grew
<1>2. PICK y \in SUBSET Line :
        /\ LinesOf(d) = LinesOf(c) \cup y
        /\ {l.at : l \in y} = (c.said + 1) .. d.said
        /\ \A l, m \in y : l.at = m.at => l = m
  BY DEF Grew
<1>3. b.said <= c.said /\ c.said <= d.said
  BY DEF Grew
<1>4. /\ \A l \in x : l.at \in (b.said + 1) .. c.said
      /\ \A l \in y : l.at \in (c.said + 1) .. d.said
  BY <1>1, <1>2
<1>5. {l.at : l \in x \cup y} = (b.said + 1) .. d.said
  <2>1. {l.at : l \in x \cup y} = {l.at : l \in x} \cup {l.at : l \in y}
    OBVIOUS
  <2>2. (b.said + 1) .. d.said = ((b.said + 1) .. c.said) \cup ((c.said + 1) .. d.said)
    BY <1>3
  <2> QED
    BY <1>1, <1>2, <2>1, <2>2
<1>6. \A l, m \in x \cup y : l.at = m.at => l = m
  <2>1. \A l \in x : \A m \in y : l.at # m.at
    BY <1>4
  <2> QED
    BY <1>1, <1>2, <2>1
<1>7. LinesOf(d) = LinesOf(b) \cup (x \cup y) /\ b.said <= d.said
  BY <1>1, <1>2, <1>3
<1> QED
  BY <1>5, <1>6, <1>7 DEF Grew

\* c is b with some lines of the workers logged.
Speaks(b, c) ==
  /\ BufferInv(c) /\ DropsTold(c) /\ Grew(b, c)
  /\ \A l \in ToSet(c.queue) : l \in ToSet(b.queue) \/ l.what # "request"

LEMMA SpeaksOn ==
  ASSUME NEW b, BufferInv(b), NEW c, NEW d, Speaks(b, c), Speaks(c, d)
  PROVE  Speaks(b, d)
<1>1. b.said \in Nat /\ c.said \in Nat /\ d.said \in Nat
  BY DEF Speaks, BufferInv, BufferTypes
<1>2. Grew(b, d)
  BY <1>1, GrewOn DEF Speaks
<1> QED
  BY <1>2 DEF Speaks

LEMMA SpeaksNot ==
  ASSUME NEW b, BufferInv(b), DropsTold(b)
  PROVE  Speaks(b, b)
<1>1. b.said \in Nat
  BY DEF BufferInv, BufferTypes
<1> QED
  BY <1>1, GrewNot DEF Speaks

Balances == {"overflowed", "write_failed", "write_recovered"}

LEMMA LoggedQueued ==
  ASSUME NEW b, BufferInv(b), NEW line \in Line
  PROVE  \A l \in ToSet(Append(IF Full(b) THEN Tail(b.queue) ELSE b.queue, line)) :
           l \in ToSet(b.queue) \/ l = line
<1> DEFINE q == IF Full(b) THEN Tail(b.queue) ELSE b.queue
<1>1. b.queue \in Seq(Line) /\ Len(b.queue) \in Nat
  BY DEF BufferInv, BufferTypes
<1>2. Full(b) => b.queue # <<>>
  BY <1>1, LogSinkAssumption DEF Full
<1>3. q \in Seq(Line) /\ \A i \in 1 .. Len(q) : \E j \in 1 .. Len(b.queue) : q[i] = b.queue[j]
  <2>1. CASE Full(b)
    <3>1. Tail(b.queue) \in Seq(Line) /\ Len(Tail(b.queue)) = Len(b.queue) - 1
      BY <1>1, <1>2, <2>1
    <3>2. ASSUME NEW i \in 1 .. Len(b.queue) - 1
          PROVE  i + 1 \in 1 .. Len(b.queue) /\ Tail(b.queue)[i] = b.queue[i + 1]
      BY <1>1, <1>2, <2>1
    <3> QED
      BY <2>1, <3>1, <3>2
  <2>2. CASE ~ Full(b)
    BY <1>1, <2>2
  <2> QED
    BY <2>1, <2>2
<1> HIDE DEF q
<1>4. /\ Append(q, line) \in Seq(Line)
      /\ \A i \in 1 .. Len(Append(q, line)) :
           \/ i \in 1 .. Len(q) /\ Append(q, line)[i] = q[i]
           \/ Append(q, line)[i] = line
  BY <1>3
<1>5. /\ ToSet(Append(q, line)) = {Append(q, line)[i] : i \in 1 .. Len(Append(q, line))}
      /\ ToSet(b.queue) = {b.queue[i] : i \in 1 .. Len(b.queue)}
  BY <1>1, <1>4, SetOfQueue
<1> QED
  BY <1>3, <1>4, <1>5 DEF q

(* A line that is no report of a drop or an outage.                          *)
LEMMA PlainLine ==
  ASSUME NEW b, BufferInv(b), DropsTold(b), NEW what \in Whats \ Balances
  PROVE  LET c == Logged(b, what, 0)
         IN  /\ BufferInv(c) /\ DropsTold(c) /\ Grew(b, c)
             /\ what # "request" => Speaks(b, c)
             /\ \A o, n : OutagesTold(b, o, n) => OutagesTold(c, o, n)
<1> DEFINE c == Logged(b, what, 0)
<1>1. /\ BufferInv(c) /\ Grew(b, c)
      /\ LinesOf(c) = LinesOf(b) \cup {NextLine(b, what, 0)}
      /\ c.dropped + Cardinality(b.fell) = b.dropped + Cardinality(c.fell)
  BY LoggedQueue, LoggedGrew
<1>2. \A w \in Balances : /\ Sum(ToldIn(c, w)) = Sum(ToldIn(b, w))
                          /\ Cardinality(ToldIn(c, w)) = Cardinality(ToldIn(b, w))
  <2> SUFFICES ASSUME NEW w \in Balances
               PROVE  /\ Sum(ToldIn(c, w)) = Sum(ToldIn(b, w))
                      /\ Cardinality(ToldIn(c, w)) = Cardinality(ToldIn(b, w))
    OBVIOUS
  <2>1. w \in Reports /\ what # w
    BY DEF Balances, Reports
  <2>2. /\ Sum(ToldIn(c, w)) = Sum(ToldIn(b, w)) + 0
        /\ Cardinality(ToldIn(c, w)) = Cardinality(ToldIn(b, w)) + 0
    BY <2>1, LoggedTold
  <2> QED
    BY <2>2, ToldTyped
<1>3. c.queue = Append(IF Full(b) THEN Tail(b.queue) ELSE b.queue, NextLine(b, what, 0))
  BY LoggedFields DEF BufferInv
<1>4. \A l \in ToSet(c.queue) : l \in ToSet(b.queue) \/ l = NextLine(b, what, 0)
  <2>1. NextLine(b, what, 0) \in Line
    BY LoggedFields DEF BufferInv
  <2> HIDE DEF c
  <2> QED
    BY <1>3, <2>1, LoggedQueued
<1> HIDE DEF c
<1>5. DropsTold(c)
  <2>1. /\ c.dropped \in Nat /\ b.dropped \in Nat
        /\ Cardinality(b.fell) \in Nat /\ Cardinality(c.fell) \in Nat
    BY <1>1, FS_CardinalityType DEF BufferInv, BufferTypes
  <2>2. Sum(ToldIn(b, "overflowed")) \in Nat
    BY ToldTyped
  <2>3. Sum(ToldIn(c, "overflowed")) = Sum(ToldIn(b, "overflowed"))
    BY <1>2 DEF Balances
  <2>4. Sum(ToldIn(b, "overflowed")) + b.dropped = Cardinality(b.fell)
    BY DEF DropsTold
  <2>5. c.dropped + Cardinality(b.fell) = b.dropped + Cardinality(c.fell)
    BY <1>1
  <2>6. Sum(ToldIn(c, "overflowed")) + c.dropped = Cardinality(c.fell)
    BY <2>1, <2>2, <2>3, <2>4, <2>5
  <2> QED
    BY <2>6 DEF DropsTold
<1>6. \A o, n : OutagesTold(b, o, n) => OutagesTold(c, o, n)
  BY <1>2 DEF OutagesTold, Balances
<1>7. what # "request" => Speaks(b, c)
  BY <1>1, <1>4, <1>5 DEF Speaks, NextLine
<1> QED
  BY <1>1, <1>5, <1>6, <1>7 DEF c

LEMMA LineQueued ==
  ASSUME NEW b, BufferInv(b), NEW what \in Whats, NEW n \in Nat, what # "request"
  PROVE  \A l \in ToSet(Logged(b, what, n).queue) : l \in ToSet(b.queue) \/ l.what # "request"
<1> DEFINE line == NextLine(b, what, n)
           c == Logged(b, what, n)
<1>1. /\ c.queue = Append(IF Full(b) THEN Tail(b.queue) ELSE b.queue, line)
      /\ line \in Line /\ line.what = what
  BY LoggedFields DEF BufferInv, NextLine
<1> HIDE DEF c, line
<1>2. \A l \in ToSet(c.queue) : l \in ToSet(b.queue) \/ l = line
  BY <1>1, LoggedQueued
<1> QED
  BY <1>1, <1>2 DEF c

(* The report of the drops tells all there were.                             *)
LEMMA OverflowTold ==
  ASSUME NEW b, BufferInv(b), DropsTold(b)
  PROVE  LET c == ReportOverflow(b)
         IN  /\ Speaks(b, c)
             /\ \A o, n : OutagesTold(b, o, n) => OutagesTold(c, o, n)
<1> DEFINE c == ReportOverflow(b)
<1>1. CASE b.dropped = 0
  BY <1>1, SpeaksNot DEF ReportOverflow
<1>2. CASE b.dropped # 0
  <2> DEFINE a == [b EXCEPT !.dropped = 0]
             n == b.dropped
  <2>1. /\ n \in Nat /\ b.said \in Nat
        /\ a.queue = b.queue /\ a.said = b.said /\ a.fell = b.fell /\ a.reports = b.reports /\ a.dropped = 0
        /\ BufferTypes(a)
    BY DEF BufferInv, BufferTypes
  <2>2. c = Logged(a, "overflowed", n)
    BY <1>2 DEF ReportOverflow
  <2> HIDE DEF a, c
  <2>3. BufferInv(a)
    BY <2>1 DEF BufferInv, Numbered
  <2>4. LinesOf(a) = LinesOf(b) /\ \A w : ToldIn(a, w) = ToldIn(b, w)
    BY <2>1 DEF LinesOf, ToldIn
  <2>5. "overflowed" \in Whats /\ Balances \subseteq Reports /\ "overflowed" \in Balances
    BY DEF Whats, Reports, Balances
  <2> HIDE DEF n
  <2>6. /\ BufferInv(c) /\ Grew(a, c)
        /\ c.dropped + Cardinality(a.fell) = a.dropped + Cardinality(c.fell)
    BY <2>1, <2>2, <2>3, <2>5, LoggedQueue, LoggedGrew
  <2>7. \A w \in Balances :
          /\ Sum(ToldIn(c, w)) = Sum(ToldIn(a, w)) + (IF "overflowed" = w THEN n ELSE 0)
          /\ Cardinality(ToldIn(c, w)) = Cardinality(ToldIn(a, w)) + (IF "overflowed" = w THEN 1 ELSE 0)
    BY <2>1, <2>2, <2>3, <2>5, LoggedTold
  <2>8. \A w : /\ Sum(ToldIn(a, w)) \in Nat /\ Cardinality(ToldIn(a, w)) \in Nat
    BY <2>3, ToldTyped
  <2>9. DropsTold(c)
    <3>1. /\ c.dropped \in Nat /\ Cardinality(b.fell) \in Nat /\ Cardinality(c.fell) \in Nat
      BY <2>6, FS_CardinalityType DEF BufferInv, BufferTypes
    <3>2. Sum(ToldIn(c, "overflowed")) = Sum(ToldIn(b, "overflowed")) + n
      BY <2>4, <2>5, <2>7
    <3>3. Sum(ToldIn(b, "overflowed")) + n = Cardinality(b.fell)
      BY DEF DropsTold, n
    <3>4. c.dropped + Cardinality(b.fell) = 0 + Cardinality(c.fell)
      BY <2>1, <2>6
    <3>5. Sum(ToldIn(b, "overflowed")) \in Nat
      BY ToldTyped
    <3> QED
      BY <2>1, <3>1, <3>2, <3>3, <3>4, <3>5 DEF DropsTold
  <2>10. Grew(b, c)
    <3>1. Grew(b, a)
      BY <2>1, <2>4, GrewNot
    <3>2. c.said \in Nat
      BY <2>6 DEF BufferInv, BufferTypes
    <3> QED
      BY <2>1, <2>6, <3>1, <3>2, GrewOn
  <2>11. \A l \in ToSet(c.queue) : l \in ToSet(b.queue) \/ l.what # "request"
    BY <2>1, <2>2, <2>3, <2>5, LineQueued
  <2>12. \A w \in {"write_recovered", "write_failed"} :
           /\ Sum(ToldIn(c, w)) = Sum(ToldIn(b, w))
           /\ Cardinality(ToldIn(c, w)) = Cardinality(ToldIn(b, w))
    <3> SUFFICES ASSUME NEW w \in {"write_recovered", "write_failed"}
                 PROVE  /\ Sum(ToldIn(c, w)) = Sum(ToldIn(b, w))
                        /\ Cardinality(ToldIn(c, w)) = Cardinality(ToldIn(b, w))
      OBVIOUS
    <3>1. /\ Sum(ToldIn(c, w)) = Sum(ToldIn(a, w)) + 0
          /\ Cardinality(ToldIn(c, w)) = Cardinality(ToldIn(a, w)) + 0
      BY <2>7 DEF Balances
    <3> QED
      BY <2>4, <2>8, <3>1
  <2>13. \A o, m : OutagesTold(b, o, m) => OutagesTold(c, o, m)
    BY <2>12 DEF OutagesTold
  <2> QED
    BY <2>6, <2>9, <2>10, <2>11, <2>13 DEF Speaks, c
<1> QED
  BY <1>1, <1>2

(* A report of an outage carries the count from the drain to the log.        *)
LEMMA OutageLogged ==
  ASSUME NEW b, BufferInv(b), DropsTold(b), NEW what \in {"write_failed", "write_recovered"}, NEW n \in Nat
  PROVE  LET c == Logged(b, what, n)
         IN  /\ Speaks(b, c)
             /\ \A w \in {"write_failed", "write_recovered"} :
                  /\ Sum(ToldIn(c, w)) = Sum(ToldIn(b, w)) + (IF what = w THEN n ELSE 0)
                  /\ Cardinality(ToldIn(c, w)) = Cardinality(ToldIn(b, w)) + (IF what = w THEN 1 ELSE 0)
<1> DEFINE c == Logged(b, what, n)
<1>1. what \in Whats /\ what \in Reports /\ {"write_failed", "write_recovered", "overflowed"} \subseteq Reports
  BY DEF Whats, Reports
<1>2. /\ BufferInv(c) /\ Grew(b, c)
      /\ c.dropped + Cardinality(b.fell) = b.dropped + Cardinality(c.fell)
  BY <1>1, LoggedQueue, LoggedGrew
<1>3. \A w \in {"write_failed", "write_recovered", "overflowed"} :
        /\ Sum(ToldIn(c, w)) = Sum(ToldIn(b, w)) + (IF what = w THEN n ELSE 0)
        /\ Cardinality(ToldIn(c, w)) = Cardinality(ToldIn(b, w)) + (IF what = w THEN 1 ELSE 0)
  BY <1>1, LoggedTold
<1>4. \A l \in ToSet(c.queue) : l \in ToSet(b.queue) \/ l.what # "request"
  BY <1>1, LineQueued
<1> HIDE DEF c
<1>5. DropsTold(c)
  <2>1. /\ c.dropped \in Nat /\ b.dropped \in Nat
        /\ Cardinality(b.fell) \in Nat /\ Cardinality(c.fell) \in Nat
    BY <1>2, FS_CardinalityType DEF BufferInv, BufferTypes
  <2>2. Sum(ToldIn(b, "overflowed")) \in Nat
    BY ToldTyped
  <2>3. Sum(ToldIn(c, "overflowed")) = Sum(ToldIn(b, "overflowed")) + 0
    BY <1>3
  <2>4. Sum(ToldIn(b, "overflowed")) + b.dropped = Cardinality(b.fell)
    BY DEF DropsTold
  <2> QED
    BY <1>2, <2>1, <2>2, <2>3, <2>4 DEF DropsTold
<1> QED
  BY <1>2, <1>3, <1>4, <1>5 DEF Speaks, c

LEMMA OutageTold ==
  ASSUME NEW b, BufferInv(b), DropsTold(b), NEW o, OutageTypes(o), NEW n \in Nat, OutagesTold(b, o, n)
  PROVE  LET answer == ReportOutage(b, o)
         IN  Speaks(b, answer.b) /\ OutageTypes(answer.o) /\ OutagesTold(answer.b, answer.o, n)
<1> DEFINE answer == ReportOutage(b, o)
<1>1. o.lines \in Nat /\ o.refusing \in BOOLEAN /\ o.announced \in BOOLEAN
  BY DEF OutageTypes
<1>2. \A w : Sum(ToldIn(b, w)) \in Nat /\ Cardinality(ToldIn(b, w)) \in Nat
  BY ToldTyped
<1>3. /\ Sum(ToldIn(b, "write_recovered")) + o.lines = n
      /\ Cardinality(ToldIn(b, "write_failed"))
           = Cardinality(ToldIn(b, "write_recovered")) + (IF o.announced THEN 1 ELSE 0)
  BY DEF OutagesTold
<1>4. CASE o.refusing /\ ~ o.announced
  <2> DEFINE c == Logged(b, "write_failed", 0)
             p == [o EXCEPT !.announced = TRUE]
  <2>1. answer = [b |-> c, o |-> p]
    BY <1>4 DEF ReportOutage
  <2>2. OutageTypes(p) /\ p.lines = o.lines /\ p.announced = TRUE
    BY DEF OutageTypes
  <2>3. /\ Speaks(b, c)
        /\ Sum(ToldIn(c, "write_recovered")) = Sum(ToldIn(b, "write_recovered")) + 0
        /\ Cardinality(ToldIn(c, "write_recovered")) = Cardinality(ToldIn(b, "write_recovered")) + 0
        /\ Cardinality(ToldIn(c, "write_failed")) = Cardinality(ToldIn(b, "write_failed")) + 1
    BY OutageLogged
  <2> HIDE DEF c, p, answer
  <2>4. OutagesTold(c, p, n)
    BY <1>2, <1>3, <1>4, <2>2, <2>3 DEF OutagesTold
  <2> QED
    BY <2>1, <2>2, <2>3, <2>4 DEF answer
<1>5. CASE ~ o.refusing /\ o.announced
  <2> DEFINE c == Logged(b, "write_recovered", o.lines)
             p == [o EXCEPT !.announced = FALSE, !.lines = 0]
  <2>1. answer = [b |-> c, o |-> p]
    BY <1>5 DEF ReportOutage
  <2>2. OutageTypes(p) /\ p.lines = 0 /\ p.announced = FALSE
    BY DEF OutageTypes
  <2>3. /\ Speaks(b, c)
        /\ Sum(ToldIn(c, "write_recovered")) = Sum(ToldIn(b, "write_recovered")) + o.lines
        /\ Cardinality(ToldIn(c, "write_recovered")) = Cardinality(ToldIn(b, "write_recovered")) + 1
        /\ Cardinality(ToldIn(c, "write_failed")) = Cardinality(ToldIn(b, "write_failed")) + 0
    BY <1>1, OutageLogged
  <2> HIDE DEF c, p, answer
  <2>4. OutagesTold(c, p, n)
    BY <1>1, <1>2, <1>3, <1>5, <2>2, <2>3 DEF OutagesTold
  <2> QED
    BY <2>1, <2>2, <2>3, <2>4 DEF answer
<1>6. CASE ~ (o.refusing /\ ~ o.announced) /\ ~ (~ o.refusing /\ o.announced)
  <2>1. answer = [b |-> b, o |-> o]
    BY <1>6 DEF ReportOutage
  <2> QED
    BY <2>1, SpeaksNot
<1> QED
  BY <1>4, <1>5, <1>6

(* At the end of a tick the drain has told what it owed.                     *)
LEMMA TickTells ==
  ASSUME BufferInv(buffer), DropsTold(buffer), NEW o, OutageTypes(o), NEW n \in Nat,
         OutagesTold(buffer, o, n), TickEnds(o)
  PROVE  Speaks(buffer, buffer') /\ OutageTypes(outage') /\ OutagesTold(buffer', outage', n)
<1> DEFINE answer == ReportOutage(buffer, o)
<1>1. Speaks(buffer, answer.b) /\ OutageTypes(answer.o) /\ OutagesTold(answer.b, answer.o, n)
  BY OutageTold
<1>2. buffer' = ReportOverflow(answer.b) /\ outage' = answer.o
  BY DEF TickEnds
<1> HIDE DEF answer
<1>3. /\ Speaks(answer.b, ReportOverflow(answer.b))
      /\ OutagesTold(ReportOverflow(answer.b), answer.o, n)
  <2>1. BufferInv(answer.b) /\ DropsTold(answer.b)
    BY <1>1 DEF Speaks
  <2> QED
    BY <1>1, <2>1, OverflowTold
<1> QED
  BY <1>1, <1>2, <1>3, SpeaksOn

-----------------------------------------------------------------------------
(* The books of the sink.                                                    *)
AllLines == stored \cup filed \cup excused \cup taken \cup LinesOf(buffer)

\* Lines numbered from 1 to n, each number that of one line.
Kept(lines, n) ==
  /\ {l.at : l \in lines} = 1 .. n
  /\ \A l, m \in lines : l.at = m.at => l = m

BooksInv ==
  /\ BufferInv(buffer) /\ DropsTold(buffer)
  /\ OutageTypes(outage) /\ refused \in Nat /\ OutagesTold(buffer, outage, refused)

SinkInv ==
  /\ BooksInv
  /\ stored \in SUBSET Line /\ filed \in SUBSET Line /\ excused \in SUBSET Line
  /\ taken \in SUBSET Line /\ IsFiniteSet(taken) /\ IsFiniteSet(stored)
  /\ drain \in {"off", "asleep", "appending", "filing"} /\ stopping \in BOOLEAN
  /\ drain \in {"off", "asleep"} => taken = {}
  /\ Kept(AllLines, buffer.said)

LEMMA KeptOn ==
  ASSUME NEW A, NEW b, NEW c, b.said \in Nat, c.said \in Nat, LinesOf(b) \subseteq A,
         Kept(A, b.said), Grew(b, c), NEW B, B = A \cup LinesOf(c)
  PROVE  Kept(B, c.said)
<1>1. PICK new \in SUBSET Line :
        /\ LinesOf(c) = LinesOf(b) \cup new
        /\ {l.at : l \in new} = (b.said + 1) .. c.said
        /\ \A l, m \in new : l.at = m.at => l = m
  BY DEF Grew
<1>2. B = A \cup new /\ b.said <= c.said
  BY <1>1 DEF Grew
<1>3. /\ {l.at : l \in A} = 1 .. b.said
      /\ \A l, m \in A : l.at = m.at => l = m
  BY DEF Kept
<1>4. {l.at : l \in B} = 1 .. c.said
  <2>1. {l.at : l \in B} = {l.at : l \in A} \cup {l.at : l \in new}
    BY <1>2
  <2>2. 1 .. c.said = (1 .. b.said) \cup ((b.said + 1) .. c.said)
    BY <1>2
  <2> QED
    BY <1>1, <1>3, <2>1, <2>2
<1>5. \A l, m \in B : l.at = m.at => l = m
  <2>1. \A l \in A : \A m \in new : l.at # m.at
    <3>1. (\A l \in A : l.at \in 1 .. b.said) /\ \A m \in new : m.at \in (b.said + 1) .. c.said
      BY <1>1, <1>3
    <3> QED
      BY <3>1
  <2> QED
    BY <1>1, <1>2, <1>3, <2>1
<1> QED
  BY <1>4, <1>5 DEF Kept

LEMMA FiniteQueue ==
  ASSUME NEW b, BufferTypes(b)
  PROVE  IsFiniteSet(ToSet(b.queue)) /\ ToSet(b.queue) \subseteq Line
<1>1. b.queue \in Seq(Line) /\ Len(b.queue) \in Nat
  BY DEF BufferTypes
<1>2. ToSet(b.queue) = {b.queue[i] : i \in 1 .. Len(b.queue)} /\ ToSet(b.queue) \subseteq Line
  BY <1>1, SetOfQueue
<1>3. IsFiniteSet(1 .. Len(b.queue))
  BY <1>1, FS_Interval
<1>4. b.queue \in Surjection(1 .. Len(b.queue), ToSet(b.queue))
  <2>1. b.queue \in [1 .. Len(b.queue) -> ToSet(b.queue)]
    BY <1>1, <1>2
  <2>2. \A l \in ToSet(b.queue) : \E i \in 1 .. Len(b.queue) : b.queue[i] = l
    BY <1>2
  <2> QED
    BY <2>1, <2>2 DEF Surjection
<1> QED
  BY <1>2, <1>3, <1>4, FS_Surjection

\* The queue emptied, into the hands of a tick or a file.
LEMMA Emptied ==
  ASSUME NEW b, BufferInv(b)
  PROVE  LET c == [b EXCEPT !.queue = <<>>]
         IN  /\ BufferInv(c) /\ c.said = b.said /\ c.fell = b.fell /\ c.queue = <<>>
             /\ LinesOf(c) = b.fell
             /\ DropsTold(b) => DropsTold(c)
             /\ \A o, n : OutagesTold(b, o, n) => OutagesTold(c, o, n)
<1> DEFINE c == [b EXCEPT !.queue = <<>>]
<1>1. /\ BufferTypes(c) /\ c.said = b.said /\ c.fell = b.fell /\ c.reports = b.reports
      /\ c.dropped = b.dropped /\ c.queue = <<>>
  <2>1. BufferTypes(b) /\ <<>> \in Seq(Line)
    BY DEF BufferInv
  <2> QED
    BY <2>1 DEF BufferTypes
<1> HIDE DEF c
<1>2. Len(c.queue) = 0 /\ ToSet(c.queue) = {}
  <2>1. Len(c.queue) = 0 /\ c.queue \in Seq(Line)
    BY <1>1
  <2> QED
    BY <2>1, SetOfQueue
<1>3. Numbered(c)
  <2>1. /\ b.said \in Nat /\ Len(b.queue) \in Nat /\ Len(b.queue) <= b.said
        /\ \A l \in b.fell : l.at \in Nat /\ l.at <= b.said - Len(b.queue)
        /\ \A l \in b.reports : l.at <= b.said
    BY DEF BufferInv, BufferTypes, Numbered, Line
  <2>2. \A l \in b.fell : l.at <= b.said
    BY <2>1
  <2> QED
    BY <1>1, <1>2, <2>1, <2>2 DEF Numbered
<1>4. BufferInv(c)
  BY <1>1, <1>3 DEF BufferInv
<1>5. \A w : ToldIn(c, w) = ToldIn(b, w)
  BY <1>1 DEF ToldIn
<1>6. (DropsTold(b) => DropsTold(c)) /\ \A o, n : OutagesTold(b, o, n) => OutagesTold(c, o, n)
  BY <1>1, <1>5 DEF DropsTold, OutagesTold
<1>7. LinesOf(c) = b.fell
  BY <1>1, <1>2 DEF LinesOf
<1> QED
  BY <1>1, <1>4, <1>6, <1>7 DEF c

(* A line is logged, and the drain does not move.                            *)
LEMMA LineSpoken ==
  ASSUME SinkInv, NEW c, buffer' = c, BufferInv(c), DropsTold(c), Grew(buffer, c),
         \A o, n : OutagesTold(buffer, o, n) => OutagesTold(c, o, n),
         UNCHANGED <<taken, drain, stopping, outage, stored, filed, excused, refused>>
  PROVE  SinkInv'
<1>1. BooksInv'
  BY DEF SinkInv, BooksInv
<1>2. buffer.said \in Nat /\ c.said \in Nat
  BY DEF SinkInv, BooksInv, BufferInv, BufferTypes
<1>3. AllLines' = AllLines \cup LinesOf(c) /\ LinesOf(buffer) \subseteq AllLines
  <2>1. LinesOf(buffer) \subseteq LinesOf(c)
    BY DEF Grew
  <2>2. LinesOf(buffer)' = LinesOf(c)
    BY DEF LinesOf
  <2> QED
    BY <2>1, <2>2 DEF AllLines
<1>4. Kept(AllLines, buffer.said)' 
  <2>1. Kept(AllLines', c.said)
    BY <1>2, <1>3, KeptOn DEF SinkInv
  <2> QED
    BY <2>1 DEF Kept
<1> QED
  BY <1>1, <1>4 DEF SinkInv

LEMMA PlainSpoken ==
  ASSUME SinkInv, NEW what \in Whats \ Balances, buffer' = Logged(buffer, what, 0),
         UNCHANGED <<taken, drain, stopping, outage, stored, filed, excused, refused>>
  PROVE  SinkInv'
<1>1. BufferInv(buffer) /\ DropsTold(buffer)
  BY DEF SinkInv, BooksInv
<1> QED
  BY <1>1, PlainLine, LineSpoken

LEMMA SinkSame ==
  ASSUME SinkInv, UNCHANGED sinkVars
  PROVE  SinkInv'
BY DEF SinkInv, sinkVars, BooksInv, AllLines, Kept, LinesOf, BufferInv, BufferTypes, Numbered, DropsTold,
       OutageTypes, OutagesTold, ToldIn

\* What a step of the drain owes, beside the books: no line is lost.
LEMMA DrainStep ==
  ASSUME SinkInv, BooksInv', Grew(buffer, buffer'), AllLines' = AllLines \cup LinesOf(buffer'),
         stored' \in SUBSET Line, filed' \in SUBSET Line, excused' \in SUBSET Line,
         taken' \in SUBSET Line, IsFiniteSet(taken'), IsFiniteSet(stored'),
         drain' \in {"off", "asleep", "appending", "filing"}, stopping' \in BOOLEAN,
         drain' \in {"off", "asleep"} => taken' = {}
  PROVE  SinkInv'
<1>1. buffer.said \in Nat /\ buffer'.said \in Nat
  BY DEF SinkInv, BooksInv, BufferInv, BufferTypes
<1>2. LinesOf(buffer) \subseteq AllLines /\ Kept(AllLines, buffer.said)
  BY DEF SinkInv, AllLines
<1>3. Kept(AllLines', buffer'.said)
  BY <1>1, <1>2, KeptOn
<1>4. Kept(AllLines, buffer.said)'
  BY <1>3 DEF Kept
<1> QED
  BY <1>4 DEF SinkInv

LEMMA EndedTyped ==
  ASSUME SinkInv
  PROVE  Ended \in {"off", "asleep"}
BY DEF SinkInv, Ended

LEMMA TickKeeps ==
  ASSUME SinkInv, NEW o, OutageTypes(o), OutagesTold(buffer, o, refused), refused' = refused, TickEnds(o)
  PROVE  /\ BooksInv' /\ Grew(buffer, buffer') /\ LinesOf(buffer) \subseteq LinesOf(buffer')
         /\ taken' = {} /\ drain' \in {"off", "asleep"} /\ stopping' = FALSE
<1>1. BufferInv(buffer) /\ DropsTold(buffer) /\ refused \in Nat
  BY DEF SinkInv, BooksInv
<1>2. Speaks(buffer, buffer') /\ OutageTypes(outage') /\ OutagesTold(buffer', outage', refused)
  BY <1>1, TickTells
<1>3. BufferInv(buffer') /\ DropsTold(buffer') /\ Grew(buffer, buffer')
  BY <1>2 DEF Speaks
<1>4. BooksInv'
  BY <1>1, <1>2, <1>3 DEF BooksInv, BufferInv, BufferTypes, Numbered, DropsTold, OutageTypes, OutagesTold, ToldIn
<1>5. LinesOf(buffer) \subseteq LinesOf(buffer')
  BY <1>3 DEF Grew
<1>6. taken' = {} /\ drain' \in {"off", "asleep"} /\ stopping' = FALSE
  BY EndedTyped DEF TickEnds
<1> QED
  BY <1>3, <1>4, <1>5, <1>6

LEMMA StartDrainKeeps ==
  ASSUME SinkInv, StartDrain
  PROVE  SinkInv'
<1>1. buffer' = buffer /\ drain' = "asleep" /\ taken' = taken /\ taken = {}
  BY DEF SinkInv, StartDrain
<1>2. BooksInv' /\ AllLines' = AllLines
  BY DEF StartDrain, SinkInv, BooksInv, AllLines, LinesOf, BufferInv, BufferTypes, Numbered, DropsTold, OutageTypes,
         OutagesTold, ToldIn
<1>3. Kept(AllLines, buffer.said)'
  BY <1>1, <1>2 DEF SinkInv, Kept
<1> QED
  BY <1>1, <1>2, <1>3 DEF SinkInv, StartDrain

LEMMA TickIdleKeeps ==
  ASSUME SinkInv, TickIdle
  PROVE  SinkInv'
<1>1. BufferInv(buffer) /\ DropsTold(buffer) /\ OutagesTold(buffer, outage, refused)
  BY DEF SinkInv, BooksInv
<1>2. /\ buffer' = ReportOverflow(buffer) /\ drain' = Ended /\ stopping' = FALSE
      /\ UNCHANGED <<taken, outage, stored, filed, excused, refused>> /\ drain = "asleep"
  BY DEF TickIdle
<1>3. /\ BufferInv(buffer') /\ DropsTold(buffer') /\ Grew(buffer, buffer')
      /\ OutagesTold(buffer', outage, refused)
  BY <1>1, <1>2, OverflowTold DEF Speaks
<1>4. BooksInv'
  BY <1>2, <1>3 DEF SinkInv, BooksInv, BufferInv, BufferTypes, Numbered, DropsTold, OutageTypes, OutagesTold, ToldIn
<1>5. AllLines' = AllLines \cup LinesOf(buffer')
  <2>1. LinesOf(buffer) \subseteq LinesOf(buffer')
    BY <1>3 DEF Grew
  <2> QED
    BY <1>2, <2>1 DEF AllLines, LinesOf
<1>6. taken = {} /\ drain' \in {"off", "asleep"}
  BY <1>2, EndedTyped DEF SinkInv
<1>7. /\ stored' \in SUBSET Line /\ filed' \in SUBSET Line /\ excused' \in SUBSET Line
      /\ taken' = {} /\ IsFiniteSet(taken') /\ IsFiniteSet(stored')
  BY <1>2, <1>6 DEF SinkInv
<1> QED
  BY <1>2, <1>3, <1>4, <1>5, <1>6, <1>7, DrainStep

LEMMA TakeLinesKeeps ==
  ASSUME SinkInv, TakeLines
  PROVE  SinkInv'
<1>1. /\ BufferInv(buffer) /\ DropsTold(buffer) /\ OutagesTold(buffer, outage, refused)
      /\ OutageTypes(outage) /\ refused \in Nat
  BY DEF SinkInv, BooksInv
<1>2. /\ taken' = ToSet(buffer.queue) /\ buffer' = [buffer EXCEPT !.queue = <<>>] /\ drain' = "appending"
      /\ UNCHANGED <<stopping, outage, stored, filed, excused, refused>> /\ drain = "asleep"
  BY DEF TakeLines
<1>3. /\ BufferInv(buffer') /\ buffer'.said = buffer.said /\ LinesOf(buffer') = buffer.fell
      /\ DropsTold(buffer') /\ OutagesTold(buffer', outage, refused)
  BY <1>1, <1>2, Emptied
<1>4. BooksInv'
  BY <1>1, <1>2, <1>3 DEF BooksInv, BufferInv, BufferTypes, Numbered, DropsTold, OutageTypes, OutagesTold, ToldIn
<1>5. taken = {} /\ taken' \subseteq Line /\ IsFiniteSet(taken')
  BY <1>1, <1>2, FiniteQueue DEF SinkInv, BufferInv
<1>6. AllLines' = AllLines
  <2>1. LinesOf(buffer)' = buffer.fell
    BY <1>3 DEF LinesOf
  <2>2. LinesOf(buffer) = ToSet(buffer.queue) \cup buffer.fell
    BY DEF LinesOf
  <2> QED
    BY <1>2, <1>5, <2>1, <2>2 DEF AllLines
<1>7. Kept(AllLines, buffer.said)'
  BY <1>3, <1>6 DEF SinkInv, Kept
<1>8. /\ stored' \in SUBSET Line /\ filed' \in SUBSET Line /\ excused' \in SUBSET Line /\ IsFiniteSet(stored')
      /\ drain' \in {"off", "asleep", "appending", "filing"} /\ drain' \notin {"off", "asleep"}
      /\ stopping' \in BOOLEAN
  BY <1>2 DEF SinkInv
<1> QED
  BY <1>4, <1>5, <1>7, <1>8 DEF SinkInv

LEMMA AppendLinesKeeps ==
  ASSUME SinkInv, AppendLines
  PROVE  SinkInv'
<1> DEFINE o == [outage EXCEPT !.refusing = FALSE]
<1>1. OutageTypes(outage) /\ OutagesTold(buffer, outage, refused)
  BY DEF SinkInv, BooksInv
<1>2. OutageTypes(o) /\ o.lines = outage.lines /\ o.announced = outage.announced
  BY <1>1 DEF OutageTypes
<1>3. stored' = stored \cup taken /\ TickEnds(o) /\ UNCHANGED <<filed, excused, refused>>
  BY DEF AppendLines
<1> HIDE DEF o
<1>4. OutagesTold(buffer, o, refused)
  BY <1>1, <1>2 DEF OutagesTold
<1>5. /\ BooksInv' /\ Grew(buffer, buffer') /\ LinesOf(buffer) \subseteq LinesOf(buffer')
      /\ taken' = {} /\ drain' \in {"off", "asleep"} /\ stopping' = FALSE
  BY <1>2, <1>3, <1>4, TickKeeps
<1>6. AllLines' = AllLines \cup LinesOf(buffer')
  BY <1>3, <1>5 DEF AllLines, LinesOf
<1>7. stored' \in SUBSET Line /\ IsFiniteSet(stored') /\ IsFiniteSet(taken')
  BY <1>3, <1>5, FS_Union, FS_EmptySet DEF SinkInv
<1>8. filed' \in SUBSET Line /\ excused' \in SUBSET Line /\ taken' \in SUBSET Line
  BY <1>3, <1>5 DEF SinkInv
<1> QED
  BY <1>5, <1>6, <1>7, <1>8, DrainStep

LEMMA AppendRaisesKeeps ==
  ASSUME SinkInv, NEW landed \in BOOLEAN, AppendRaises(landed)
  PROVE  SinkInv'
<1> DEFINE k == Cardinality(taken)
<1>1. /\ BufferInv(buffer) /\ DropsTold(buffer) /\ OutagesTold(buffer, outage, refused)
      /\ OutageTypes(outage) /\ refused \in Nat /\ k \in Nat
  BY FS_CardinalityType DEF SinkInv, BooksInv
<1>2. /\ stored' = IF landed THEN stored \cup taken ELSE stored
      /\ outage' = [outage EXCEPT !.refusing = TRUE, !.lines = @ + k]
      /\ refused' = refused + k /\ drain' = "filing"
      /\ UNCHANGED <<buffer, taken, stopping, filed, excused>>
  BY DEF AppendRaises
<1> HIDE DEF k
<1>3. outage'.lines = outage.lines + k /\ outage'.announced = outage.announced /\ OutageTypes(outage')
      /\ outage.lines \in Nat
  <2>1. outage \in [lines : Nat, refusing : BOOLEAN, announced : BOOLEAN]
    BY <1>1 DEF OutageTypes
  <2> DEFINE cost == outage.lines + k
  <2>2. cost \in Nat /\ outage.lines \in Nat
    BY <1>1, <2>1
  <2>3. outage' = [outage EXCEPT !.refusing = TRUE, !.lines = cost]
    BY <1>2
  <2> HIDE DEF cost
  <2>4. /\ outage'.lines = cost /\ outage'.announced = outage.announced
        /\ outage' \in [lines : Nat, refusing : BOOLEAN, announced : BOOLEAN]
    BY <2>1, <2>2, <2>3
  <2> QED
    BY <2>2, <2>4 DEF OutageTypes, cost
<1>4. OutagesTold(buffer, outage', refused')
  <2>1. Sum(ToldIn(buffer, "write_recovered")) \in Nat
    BY <1>1, ToldTyped
  <2> QED
    BY <1>1, <1>2, <1>3, <2>1 DEF OutagesTold
<1>5. BooksInv'
  BY <1>1, <1>2, <1>3, <1>4 DEF BooksInv, BufferInv, BufferTypes, Numbered, DropsTold, OutageTypes, OutagesTold,
     ToldIn
<1>6. AllLines' = AllLines
  BY <1>2 DEF AllLines, LinesOf
<1>7. Kept(AllLines, buffer.said)'
  BY <1>2, <1>6 DEF SinkInv, Kept
<1>8. stored' \in SUBSET Line /\ IsFiniteSet(stored')
  BY <1>2, FS_Union DEF SinkInv
<1> QED
  BY <1>2, <1>5, <1>7, <1>8 DEF SinkInv

LEMMA WriteFilesKeeps ==
  ASSUME SinkInv, NEW accepted \in BOOLEAN, WriteFiles(accepted)
  PROVE  SinkInv'
<1>1. OutageTypes(outage) /\ OutagesTold(buffer, outage, refused)
  BY DEF SinkInv, BooksInv
<1>2. /\ filed' = IF accepted THEN filed \cup taken ELSE filed
      /\ excused' = IF accepted THEN excused ELSE excused \cup taken
      /\ TickEnds(outage) /\ UNCHANGED <<stored, refused>>
  BY DEF WriteFiles
<1>3. /\ BooksInv' /\ Grew(buffer, buffer') /\ LinesOf(buffer) \subseteq LinesOf(buffer')
      /\ taken' = {} /\ drain' \in {"off", "asleep"} /\ stopping' = FALSE
  BY <1>1, <1>2, TickKeeps
<1>4. AllLines' = AllLines \cup LinesOf(buffer')
  BY <1>2, <1>3 DEF AllLines, LinesOf
<1>5. /\ filed' \in SUBSET Line /\ excused' \in SUBSET Line /\ taken' \in SUBSET Line /\ IsFiniteSet(taken')
      /\ stored' \in SUBSET Line /\ IsFiniteSet(stored')
  BY <1>2, <1>3, FS_EmptySet DEF SinkInv
<1> QED
  BY <1>3, <1>4, <1>5, DrainStep

LEMMA FilesRaiseKeeps ==
  ASSUME SinkInv, FilesRaise
  PROVE  SinkInv'
<1>1. /\ excused' = excused \cup taken
      /\ buffer' = IF stopping THEN buffer ELSE Logged(buffer, "drain_failed", 0)
      /\ taken' = {} /\ drain' = Ended /\ stopping' = FALSE
      /\ UNCHANGED <<outage, stored, filed, refused>>
  BY DEF FilesRaise
<1>2. /\ BufferInv(buffer) /\ DropsTold(buffer) /\ OutagesTold(buffer, outage, refused)
      /\ OutageTypes(outage) /\ refused \in Nat
  BY DEF SinkInv, BooksInv
<1>3. BufferInv(buffer') /\ DropsTold(buffer') /\ Grew(buffer, buffer') /\ OutagesTold(buffer', outage, refused)
  <2>1. CASE stopping
    BY <1>1, <1>2, <2>1, SpeaksNot DEF Speaks
  <2>2. CASE ~ stopping
    <3>1. "drain_failed" \in Whats \ Balances
      BY DEF Whats, Balances, Reports
    <3> QED
      BY <1>1, <1>2, <2>2, <3>1, PlainLine
  <2> QED
    BY <2>1, <2>2
<1>4. BooksInv'
  BY <1>1, <1>2, <1>3 DEF BooksInv, BufferInv, BufferTypes, Numbered, DropsTold, OutageTypes, OutagesTold, ToldIn
<1>5. AllLines' = AllLines \cup LinesOf(buffer')
  <2>1. LinesOf(buffer) \subseteq LinesOf(buffer')
    BY <1>3 DEF Grew
  <2> QED
    BY <1>1, <2>1 DEF AllLines, LinesOf
<1>6. /\ filed' \in SUBSET Line /\ excused' \in SUBSET Line /\ taken' \in SUBSET Line /\ IsFiniteSet(taken')
      /\ stored' \in SUBSET Line /\ IsFiniteSet(stored') /\ drain' \in {"off", "asleep"}
  BY <1>1, EndedTyped, FS_EmptySet DEF SinkInv
<1> QED
  BY <1>1, <1>3, <1>4, <1>5, <1>6, DrainStep

LEMMA StopDrainKeeps ==
  ASSUME SinkInv, StopDrain
  PROVE  SinkInv'
<1>1. PICK stands \in {{}, taken} :
        /\ stored' = IF drain = "appending" THEN stored \cup stands ELSE stored
        /\ filed' = IF drain = "filing" THEN filed \cup stands ELSE filed
        /\ excused' = excused \cup (taken \ stands)
  BY DEF StopDrain
<1>2. /\ taken' = {} /\ drain' = "asleep" /\ stopping' = TRUE
      /\ UNCHANGED <<buffer, outage, refused>> /\ drain \in {"asleep", "appending", "filing"}
  BY DEF StopDrain
<1>3. BooksInv'
  BY <1>2 DEF SinkInv, BooksInv, BufferInv, BufferTypes, Numbered, DropsTold, OutageTypes, OutagesTold, ToldIn
<1>4. AllLines' = AllLines
  <2>1. LinesOf(buffer)' = LinesOf(buffer)
    BY <1>2 DEF LinesOf
  <2>2. stored' \cup filed' \cup excused' \cup taken' = stored \cup filed \cup excused \cup taken
    <3>1. drain = "asleep" => stands = {} /\ taken = {}
      BY <1>1 DEF SinkInv
    <3> QED
      BY <1>1, <1>2, <3>1
  <2> QED
    BY <2>1, <2>2 DEF AllLines
<1>5. Kept(AllLines, buffer.said)'
  BY <1>2, <1>4 DEF SinkInv, Kept
<1>6. stands \subseteq Line /\ IsFiniteSet(stands)
  BY <1>1, FS_Subset DEF SinkInv
<1>7. stored' \in SUBSET Line /\ IsFiniteSet(stored') /\ filed' \in SUBSET Line /\ excused' \in SUBSET Line
  BY <1>1, <1>6, FS_Union DEF SinkInv
<1>8. IsFiniteSet(taken') /\ taken' \in SUBSET Line
  BY <1>2, FS_EmptySet
<1> QED
  BY <1>2, <1>3, <1>5, <1>7, <1>8 DEF SinkInv

LEMMA CrashFlushKeeps ==
  ASSUME SinkInv, CrashFlush
  PROVE  SinkInv'
<1> DEFINE b == Logged(buffer, "crashed", 0)
<1>0. PICK landed \in {{}, ToSet(b.queue)} :
        filed' = filed \cup landed /\ excused' = excused \cup taken \cup (ToSet(b.queue) \ landed)
  BY DEF CrashFlush
<1>1. /\ landed \subseteq ToSet(b.queue)
      /\ filed' = filed \cup landed /\ excused' = excused \cup taken \cup (ToSet(b.queue) \ landed)
      /\ buffer' = [b EXCEPT !.queue = <<>>]
      /\ taken' = {} /\ drain' = "off" /\ stopping' = FALSE
      /\ UNCHANGED <<outage, stored, refused>>
  BY <1>0 DEF CrashFlush
<1>2. /\ BufferInv(buffer) /\ DropsTold(buffer) /\ OutagesTold(buffer, outage, refused)
      /\ OutageTypes(outage) /\ refused \in Nat
  BY DEF SinkInv, BooksInv
<1>3. BufferInv(b) /\ DropsTold(b) /\ Grew(buffer, b) /\ OutagesTold(b, outage, refused)
  <2>1. "crashed" \in Whats \ Balances
    BY DEF Whats, Balances, Reports
  <2> QED
    BY <1>2, <2>1, PlainLine
<1> HIDE DEF b
<1>4. /\ BufferInv(buffer') /\ buffer'.said = b.said /\ LinesOf(buffer') = b.fell
      /\ DropsTold(buffer') /\ OutagesTold(buffer', outage, refused)
  BY <1>1, <1>3, Emptied
<1>5. BooksInv'
  BY <1>1, <1>2, <1>4 DEF BooksInv, BufferInv, BufferTypes, Numbered, DropsTold, OutageTypes, OutagesTold, ToldIn
<1>6. AllLines' = AllLines \cup LinesOf(b)
  <2>1. LinesOf(buffer)' = b.fell /\ LinesOf(b) = ToSet(b.queue) \cup b.fell
    BY <1>4 DEF LinesOf
  <2>2. LinesOf(buffer) \subseteq LinesOf(b)
    BY <1>3 DEF Grew
  <2> QED
    BY <1>1, <2>1, <2>2 DEF AllLines
<1>7. Kept(AllLines', b.said)
  <2>1. buffer.said \in Nat /\ b.said \in Nat
    BY <1>2, <1>3 DEF BufferInv, BufferTypes
  <2>2. LinesOf(buffer) \subseteq AllLines /\ Kept(AllLines, buffer.said)
    BY DEF SinkInv, AllLines
  <2> QED
    BY <1>3, <1>6, <2>1, <2>2, KeptOn
<1>8. Kept(AllLines, buffer.said)'
  BY <1>4, <1>7 DEF Kept
<1>9. ToSet(b.queue) \subseteq Line
  BY <1>3, FiniteQueue DEF BufferInv
<1>10. /\ filed' \in SUBSET Line /\ excused' \in SUBSET Line /\ taken' \in SUBSET Line /\ IsFiniteSet(taken')
       /\ stored' \in SUBSET Line /\ IsFiniteSet(stored')
  BY <1>1, <1>9, FS_EmptySet DEF SinkInv
<1> QED
  BY <1>1, <1>5, <1>8, <1>10 DEF SinkInv

LEMMA EmptyBooks ==
  ASSUME NEW last \in Nat
  PROVE  LET b == Empty(last)
         IN  /\ BufferInv(b) /\ DropsTold(b) /\ OutagesTold(b, NoOutage, 0) /\ OutageTypes(NoOutage)
             /\ b.said = last /\ LinesOf(b) = {} /\ ToSet(b.queue) = {}
<1> DEFINE b == Empty(last)
<1>1. /\ BufferTypes(b) /\ b.queue = <<>> /\ b.said = last /\ b.dropped = 0 /\ b.fell = {} /\ b.reports = {}
  <2>1. <<>> \in Seq(Line) /\ last + 1 \in Nat
    OBVIOUS
  <2> QED
    BY <2>1 DEF BufferTypes, Empty
<1> HIDE DEF b
<1>2. ToSet(b.queue) = {} /\ Len(b.queue) = 0
  <2>1. Len(b.queue) = 0 /\ b.queue \in Seq(Line)
    BY <1>1
  <2> QED
    BY <2>1, SetOfQueue
<1>3. BufferInv(b)
  BY <1>1, <1>2, FS_EmptySet DEF BufferInv, Numbered
<1>4. \A w : Sum(ToldIn(b, w)) = 0 /\ Cardinality(ToldIn(b, w)) = 0
  <2>1. Sum({}) = 0
    <3> DEFINE none == {}
               v == [l \in none |-> l.n]
    <3>1. v \in [none -> Nat] /\ \A l \in none : v[l] = 0
      OBVIOUS
    <3>2. IsFiniteSet(none)
      BY FS_EmptySet
    <3>3. Sum(none) = SumFunction(v)
      BY DEF Sum
    <3> HIDE DEF none, v
    <3>4. SumFunction(v) = 0
      BY <3>1, <3>2, SumOfNone
    <3> QED
      BY <3>3, <3>4 DEF none
  <2>2. \A w : ToldIn(b, w) = {}
    BY <1>1 DEF ToldIn
  <2> QED
    BY <2>1, <2>2, FS_EmptySet
<1>5. DropsTold(b)
  BY <1>1, <1>4, FS_EmptySet DEF DropsTold
<1>6. OutagesTold(b, NoOutage, 0) /\ OutageTypes(NoOutage)
  BY <1>4 DEF OutagesTold, OutageTypes, NoOutage
<1>7. LinesOf(b) = {}
  BY <1>1, <1>2 DEF LinesOf
<1> QED
  BY <1>1, <1>2, <1>3, <1>5, <1>6, <1>7 DEF b

LEMMA ForgetKeeps ==
  ASSUME SinkInv, NEW away, Forget(away), away \subseteq Line, QueuedLines \cup taken \subseteq away,
         away \subseteq AllLines
  PROVE  SinkInv'
<1>1. /\ excused' = excused \cup away \cup buffer.fell /\ buffer' = Empty(buffer.said)
      /\ taken' = {} /\ drain' = "off" /\ stopping' = FALSE
      /\ outage' = NoOutage /\ refused' = 0 /\ UNCHANGED <<stored, filed>>
  BY DEF Forget
<1>2. buffer.said \in Nat /\ buffer.fell \subseteq Line
  BY DEF SinkInv, BooksInv, BufferInv, BufferTypes
<1>3. /\ BufferInv(buffer') /\ DropsTold(buffer') /\ OutagesTold(buffer', outage', refused')
      /\ OutageTypes(outage') /\ buffer'.said = buffer.said /\ LinesOf(buffer') = {}
  BY <1>1, <1>2, EmptyBooks
<1>4. BooksInv'
  BY <1>1, <1>3 DEF BooksInv
<1>5. AllLines' = AllLines
  <2>1. LinesOf(buffer)' = {} /\ LinesOf(buffer) = QueuedLines \cup buffer.fell
    BY <1>3 DEF LinesOf, QueuedLines
  <2> QED
    BY <1>1, <2>1 DEF AllLines
<1>6. Kept(AllLines, buffer.said)'
  BY <1>3, <1>5 DEF SinkInv, Kept
<1>7. /\ excused' \in SUBSET Line /\ taken' \in SUBSET Line /\ IsFiniteSet(taken')
      /\ stored' \in SUBSET Line /\ filed' \in SUBSET Line /\ IsFiniteSet(stored')
  BY <1>1, <1>2, FS_EmptySet DEF SinkInv
<1> QED
  BY <1>1, <1>4, <1>6, <1>7 DEF SinkInv

-----------------------------------------------------------------------------
(* The process around the sink.  Of a stop in order only lines that are no   *)
(* request's are lost: after its last drain nothing but the workers speaks.  *)
Quiet == \A l \in QueuedLines : l.what # "request"

ServerPhases ==
  /\ server \in {"down", "up", "stopping", "raised", "crashed"}
  /\ drain = "off" => ~ stopping
  /\ server \in {"down", "raised", "crashed"} => drain = "off"
  /\ server = "up" => ~ stopping /\ drain # "off"
  /\ server = "stopping" => stopping \/ drain = "off"
  /\ (server = "stopping" /\ drain # "asleep") \/ server = "raised" => Quiet

LinesInv == SinkInv /\ ServerPhases

LEMMA TickQuiet ==
  ASSUME SinkInv, NEW o, OutageTypes(o), OutagesTold(buffer, o, refused), TickEnds(o), Quiet
  PROVE  Quiet'
<1>1. BufferInv(buffer) /\ DropsTold(buffer) /\ refused \in Nat
  BY DEF SinkInv, BooksInv
<1>2. Speaks(buffer, buffer')
  BY <1>1, TickTells
<1> QED
  BY <1>2 DEF Speaks, Quiet, QueuedLines

LEMMA IdleQuiet ==
  ASSUME SinkInv, TickIdle
  PROVE  Quiet'
<1>1. BufferInv(buffer) /\ DropsTold(buffer) /\ buffer.queue = <<>> /\ buffer' = ReportOverflow(buffer)
  BY DEF SinkInv, BooksInv, TickIdle
<1>2. Speaks(buffer, buffer')
  BY <1>1, OverflowTold
<1>3. ToSet(buffer.queue) = {}
  <2>1. Len(buffer.queue) = 0 /\ buffer.queue \in Seq(Line)
    BY <1>1
  <2> QED
    BY <2>1, SetOfQueue
<1> QED
  BY <1>2, <1>3 DEF Speaks, Quiet, QueuedLines

LEMMA SaidQuiet ==
  ASSUME SinkInv, NEW what \in Whats \ {"request"}, buffer' = Logged(buffer, what, 0), Quiet
  PROVE  Quiet'
<1>1. BufferInv(buffer)
  BY DEF SinkInv, BooksInv
<1> QED
  BY <1>1, LineQueued DEF Quiet, QueuedLines

\* No tick under way can be anyone's but that of the phase.
LEMMA DrainPhases ==
  ASSUME LinesInv, Works, drain # "off"
  PROVE  (server = "up" /\ ~ stopping) \/ (server = "stopping" /\ stopping)
BY DEF LinesInv, ServerPhases, Works

LEMMA DrainLinesKeeps ==
  ASSUME LinesInv, DrainLines
  PROVE  LinesInv'
<1>1. Works /\ server' = server
  BY DEF DrainLines
<1>2. SinkInv /\ ServerPhases
  BY DEF LinesInv
<1>3. PICK o : /\ OutageTypes(o) /\ OutagesTold(buffer, o, refused)
               /\ o = outage
  BY <1>2 DEF SinkInv, BooksInv
<1>4. CASE TickIdle
  <2>1. drain = "asleep" /\ drain' = Ended /\ ~ stopping'
    BY <1>4 DEF TickIdle
  <2>2. Quiet'
    BY <1>2, <1>4, IdleQuiet
  <2>3. ServerPhases'
    BY <1>1, <1>2, <2>1, <2>2, DrainPhases DEF LinesInv, ServerPhases, Ended
  <2> QED
    BY <1>2, <1>4, <2>3, TickIdleKeeps DEF LinesInv
<1>5. CASE TakeLines
  <2>1. drain = "asleep" /\ drain' = "appending" /\ stopping' = stopping /\ buffer' = [buffer EXCEPT !.queue = <<>>]
    BY <1>5 DEF TakeLines
  <2>2. Quiet'
    <3>1. BufferInv(buffer)
      BY <1>2 DEF SinkInv, BooksInv
    <3>2. buffer'.queue = <<>> /\ BufferInv(buffer')
      BY <2>1, <3>1, Emptied
    <3>3. Len(buffer'.queue) = 0 /\ buffer'.queue \in Seq(Line)
      BY <3>2
    <3> QED
      BY <3>3, SetOfQueue DEF Quiet, QueuedLines
  <2>3. ServerPhases'
    BY <1>1, <1>2, <2>1, <2>2, DrainPhases DEF LinesInv, ServerPhases
  <2> QED
    BY <1>2, <1>5, <2>3, TakeLinesKeeps DEF LinesInv
<1>6. CASE AppendLines
  <2>1. PICK p : OutageTypes(p) /\ OutagesTold(buffer, p, refused) /\ TickEnds(p)
    <3> DEFINE p == [outage EXCEPT !.refusing = FALSE]
    <3>1. OutageTypes(p) /\ p.lines = outage.lines /\ p.announced = outage.announced
      BY <1>3 DEF OutageTypes
    <3>2. TickEnds(p)
      BY <1>6 DEF AppendLines
    <3> HIDE DEF p
    <3>3. OutagesTold(buffer, p, refused)
      BY <1>3, <3>1 DEF OutagesTold
    <3> QED
      BY <3>1, <3>2, <3>3
  <2>2. drain = "appending" /\ drain' = Ended /\ ~ stopping'
    BY <1>6, <2>1 DEF AppendLines, TickEnds
  <2>3. Quiet => Quiet'
    BY <1>2, <2>1, TickQuiet
  <2>4. ServerPhases'
    BY <1>1, <1>2, <2>2, <2>3, DrainPhases DEF LinesInv, ServerPhases, Ended
  <2> QED
    BY <1>2, <1>6, <2>4, AppendLinesKeeps DEF LinesInv
<1>7. CASE \E accepted \in BOOLEAN : WriteFiles(accepted)
  <2>1. PICK accepted \in BOOLEAN : WriteFiles(accepted)
    BY <1>7
  <2>2. drain = "filing" /\ TickEnds(outage) /\ drain' = Ended /\ ~ stopping'
    BY <2>1 DEF WriteFiles, TickEnds
  <2>3. Quiet => Quiet'
    BY <1>2, <1>3, <2>2, TickQuiet
  <2>4. ServerPhases'
    BY <1>1, <1>2, <2>2, <2>3, DrainPhases DEF LinesInv, ServerPhases, Ended
  <2> QED
    BY <1>2, <2>1, <2>4, WriteFilesKeeps DEF LinesInv
<1>8. CASE \E landed \in BOOLEAN : AppendRaises(landed)
  <2>1. PICK landed \in BOOLEAN : AppendRaises(landed)
    BY <1>8
  <2>2. drain = "appending" /\ drain' = "filing" /\ stopping' = stopping /\ buffer' = buffer
    BY <2>1 DEF AppendRaises
  <2>3. ServerPhases'
    BY <1>1, <1>2, <2>2, DrainPhases DEF LinesInv, ServerPhases, Quiet, QueuedLines
  <2> QED
    BY <1>2, <2>1, <2>3, AppendRaisesKeeps DEF LinesInv
<1> QED
  BY <1>4, <1>5, <1>6, <1>7, <1>8 DEF DrainLines

LEMMA DrainRaisesKeeps ==
  ASSUME LinesInv, DrainRaises
  PROVE  LinesInv'
<1>1. Works /\ FilesRaise /\ server' = IF stopping THEN "raised" ELSE server
  BY DEF DrainRaises
<1>2. /\ drain = "filing" /\ drain' = Ended /\ ~ stopping'
      /\ buffer' = IF stopping THEN buffer ELSE Logged(buffer, "drain_failed", 0)
  BY <1>1 DEF FilesRaise
<1>3. SinkInv /\ ServerPhases
  BY DEF LinesInv
<1>4. stopping => Quiet'
  BY <1>1, <1>2, <1>3, DrainPhases DEF LinesInv, ServerPhases, Quiet, QueuedLines
<1>5. ServerPhases'
  BY <1>1, <1>2, <1>3, <1>4, DrainPhases DEF LinesInv, ServerPhases, Ended
<1> QED
  BY <1>1, <1>3, <1>5, FilesRaiseKeeps DEF LinesInv

\* The flusher says at most one line.
LEMMA FlusherSays ==
  ASSUME FlushSteps
  PROVE  /\ UNCHANGED <<taken, drain, stopping, outage, stored, filed, excused, refused, server>>
         /\ buffer' = buffer \/ \E what \in {"flush_recovered", "flush_failed"} : buffer' = Logged(buffer, what, 0)
BY DEF FlushSteps, Says

LEMMA PhasesSame ==
  ASSUME ServerPhases, UNCHANGED <<drain, stopping, server>>, Quiet => Quiet'
  PROVE  ServerPhases'
BY DEF ServerPhases

LEMMA FlushStepsKeep ==
  ASSUME LinesInv, FlushSteps
  PROVE  LinesInv'
<1>1. SinkInv /\ ServerPhases
  BY DEF LinesInv
<1>2. UNCHANGED <<taken, drain, stopping, outage, stored, filed, excused, refused, server>>
  BY FlusherSays
<1>3. CASE buffer' = buffer
  <2>1. SinkInv'
    BY <1>1, <1>2, <1>3, SinkSame DEF sinkVars
  <2>2. Quiet => Quiet'
    BY <1>3 DEF Quiet, QueuedLines
  <2> QED
    BY <1>1, <1>2, <2>1, <2>2, PhasesSame DEF LinesInv
<1>4. CASE \E what \in {"flush_recovered", "flush_failed"} : buffer' = Logged(buffer, what, 0)
  <2>1. PICK what \in {"flush_recovered", "flush_failed"} : buffer' = Logged(buffer, what, 0)
    BY <1>4
  <2>2. what \in Whats \ Balances /\ what # "request"
    BY DEF Whats, Balances, Reports
  <2>3. SinkInv'
    BY <1>1, <1>2, <2>1, <2>2, PlainSpoken
  <2>4. Quiet => Quiet'
    BY <1>1, <2>1, <2>2, SaidQuiet
  <2> QED
    BY <1>1, <1>2, <2>3, <2>4, PhasesSame DEF LinesInv
<1> QED
  BY <1>3, <1>4, FlusherSays

LEMMA FinishKeeps ==
  ASSUME LinesInv, NEW x \in Exchanges, Finish(x)
  PROVE  LinesInv'
<1> DEFINE b == IF x.heavy THEN Logged(buffer, "heavy_request", 0) ELSE buffer
           c == IF Traced(x) THEN Logged(b, "request", 0) ELSE b
<1>1. /\ server = "up" /\ buffer' = c
      /\ UNCHANGED <<taken, drain, stopping, outage, stored, filed, excused, refused, server>>
  BY DEF Finish
<1>2. SinkInv /\ ServerPhases /\ BufferInv(buffer) /\ DropsTold(buffer)
  BY DEF LinesInv, SinkInv, BooksInv
<1>3. /\ BufferInv(b) /\ DropsTold(b) /\ Grew(buffer, b)
      /\ \A o, n : OutagesTold(buffer, o, n) => OutagesTold(b, o, n)
  <2>1. CASE x.heavy
    <3>1. "heavy_request" \in Whats \ Balances
      BY DEF Whats, Balances, Reports
    <3> QED
      BY <1>2, <2>1, <3>1, PlainLine
  <2>2. CASE ~ x.heavy
    BY <1>2, <2>2, SpeaksNot DEF Speaks
  <2> QED
    BY <2>1, <2>2
<1> HIDE DEF b
<1>4. /\ BufferInv(c) /\ DropsTold(c) /\ Grew(b, c)
      /\ \A o, n : OutagesTold(b, o, n) => OutagesTold(c, o, n)
  <2>1. CASE Traced(x)
    <3>1. "request" \in Whats \ Balances
      BY DEF Whats, Balances, Reports
    <3> QED
      BY <1>3, <2>1, <3>1, PlainLine
  <2>2. CASE ~ Traced(x)
    BY <1>3, <2>2, SpeaksNot DEF Speaks
  <2> QED
    BY <2>1, <2>2
<1> HIDE DEF c
<1>5. Grew(buffer, c)
  <2>1. buffer.said \in Nat /\ b.said \in Nat /\ c.said \in Nat
    BY <1>2, <1>3, <1>4 DEF BufferInv, BufferTypes
  <2> QED
    BY <1>3, <1>4, <2>1, GrewOn
<1>6. SinkInv'
  BY <1>1, <1>2, <1>3, <1>4, <1>5, LineSpoken
<1>7. ServerPhases'
  BY <1>1, <1>2 DEF ServerPhases
<1> QED
  BY <1>6, <1>7 DEF LinesInv

LEMMA LifeKeeps ==
  ASSUME LinesInv, Boot \/ StopSink \/ StopLoad \/ Exit \/ Crash \/ Die
  PROVE  LinesInv'
<1>1. SinkInv /\ ServerPhases
  BY DEF LinesInv
<1>2. QueuedLines \subseteq LinesOf(buffer) /\ QueuedLines \subseteq Line /\ taken \subseteq Line
      /\ QueuedLines \subseteq AllLines /\ taken \subseteq AllLines
  <2>1. QueuedLines \subseteq LinesOf(buffer) /\ BufferTypes(buffer)
    BY <1>1 DEF SinkInv, BooksInv, BufferInv, QueuedLines, LinesOf
  <2> QED
    BY <1>1, <2>1, FiniteQueue DEF SinkInv, QueuedLines, AllLines
<1>3. CASE Boot
  <2>1. StartDrain /\ server' = "up" /\ drain' = "asleep" /\ stopping' = stopping /\ server = "down"
    BY <1>3 DEF Boot, StartDrain
  <2>2. ServerPhases'
    BY <1>1, <2>1 DEF ServerPhases
  <2> QED
    BY <1>1, <2>1, <2>2, StartDrainKeeps DEF LinesInv
<1>4. CASE StopSink
  <2>1. StopDrain /\ server' = "stopping" /\ drain' = "asleep" /\ stopping' = TRUE
    BY <1>4 DEF StopSink, StopDrain
  <2>2. ServerPhases'
    BY <2>1 DEF ServerPhases
  <2> QED
    BY <1>1, <2>1, <2>2, StopDrainKeeps DEF LinesInv
<1>5. CASE StopLoad
  <2>1. UNCHANGED sinkVars /\ server' = server
    BY <1>5 DEF StopLoad
  <2>2. SinkInv' /\ (Quiet => Quiet') /\ UNCHANGED <<drain, stopping, server>>
    BY <1>1, <2>1, SinkSame DEF sinkVars, Quiet, QueuedLines
  <2> QED
    BY <1>1, <2>2, PhasesSame DEF LinesInv
<1>6. CASE Exit
  <2> DEFINE away == {l \in QueuedLines : l.what # "request"}
  <2>1. Forget(away) /\ server' = "down"
    BY <1>6 DEF Exit
  <2>2. Quiet /\ taken = {}
    BY <1>1, <1>6 DEF Exit, ServerPhases, SinkInv
  <2>3. QueuedLines \cup taken \subseteq away /\ away \subseteq Line /\ away \subseteq AllLines
    BY <1>2, <2>2 DEF Quiet
  <2>4. drain' = "off" /\ stopping' = FALSE
    BY <2>1 DEF Forget
  <2> HIDE DEF away
  <2>5. SinkInv'
    BY <1>1, <2>1, <2>3, ForgetKeeps
  <2>6. ServerPhases'
    BY <2>1, <2>4 DEF ServerPhases
  <2> QED
    BY <2>5, <2>6 DEF LinesInv
<1>7. CASE Crash
  <2>1. CrashFlush /\ server' = "crashed" /\ drain' = "off" /\ stopping' = FALSE
    BY <1>7 DEF Crash, CrashFlush
  <2>2. ServerPhases'
    BY <2>1 DEF ServerPhases
  <2> QED
    BY <1>1, <2>1, <2>2, CrashFlushKeeps DEF LinesInv
<1>8. CASE Die
  <2> DEFINE away == QueuedLines \cup taken
  <2>1. Forget(away) /\ server' = "down"
    BY <1>8 DEF Die
  <2>2. QueuedLines \cup taken \subseteq away /\ away \subseteq Line /\ away \subseteq AllLines
    BY <1>2
  <2>3. drain' = "off" /\ stopping' = FALSE
    BY <2>1 DEF Forget
  <2> HIDE DEF away
  <2>4. SinkInv'
    BY <1>1, <2>1, <2>2, ForgetKeeps
  <2>5. ServerPhases'
    BY <2>1, <2>3 DEF ServerPhases
  <2> QED
    BY <2>4, <2>5 DEF LinesInv
<1> QED
  BY <1>3, <1>4, <1>5, <1>6, <1>7, <1>8

LEMMA LinesStart ==
  ASSUME TelemetryInit
  PROVE  LinesInv
<1>1. /\ buffer = Empty(0) /\ taken = {} /\ drain = "off" /\ stopping = FALSE
      /\ outage = NoOutage /\ stored = {} /\ filed = {} /\ excused = {} /\ refused = 0 /\ server = "down"
  BY DEF TelemetryInit, SinkInit
<1>2. /\ BufferInv(buffer) /\ DropsTold(buffer) /\ OutagesTold(buffer, outage, 0) /\ OutageTypes(outage)
      /\ buffer.said = 0 /\ LinesOf(buffer) = {} /\ QueuedLines = {}
  BY <1>1, EmptyBooks DEF QueuedLines
<1>3. BooksInv
  BY <1>1, <1>2 DEF BooksInv
<1>4. AllLines = {} /\ Kept(AllLines, buffer.said)
  BY <1>1, <1>2 DEF AllLines, Kept
<1>5. SinkInv
  BY <1>1, <1>3, <1>4, FS_EmptySet DEF SinkInv
<1>6. ServerPhases
  BY <1>1, <1>2 DEF ServerPhases
<1> QED
  BY <1>5, <1>6 DEF LinesInv

LEMMA LinesStep ==
  ASSUME LinesInv, [TelemetryNext]_telemetryVars
  PROVE  LinesInv'
<1>1. SinkInv /\ ServerPhases
  BY DEF LinesInv
<1>2. ASSUME UNCHANGED <<sinkVars, server>> PROVE LinesInv'
  <2>1. SinkInv'
    BY <1>1, <1>2, SinkSame
  <2>2. (Quiet => Quiet') /\ UNCHANGED <<drain, stopping, server>>
    BY <1>2 DEF sinkVars, Quiet, QueuedLines
  <2> QED
    BY <1>1, <2>1, <2>2, PhasesSame DEF LinesInv
<1>3. CASE Daily \/ Read \/ UNCHANGED telemetryVars
  <2>1. UNCHANGED <<sinkVars, server>>
    BY <1>3 DEF Daily, Read, telemetryVars
  <2> QED
    BY <1>2, <2>1
<1> QED
  BY <1>3, FinishKeeps, DrainLinesKeeps, DrainRaisesKeeps, FlushStepsKeep, LifeKeeps DEF TelemetryNext

\* LogSink's invariant LinesAccounted (sink.py): every line reaches the table or a file, is in memory or
\* was counted as dropped, unless a cancelled append, a refusing disk or the end of the process took it.
THEOREM LinesAreAccounted == TelemetrySpec => []LinesAccounted
<1>1. TelemetryInit => LinesInv
  BY LinesStart
<1>2. LinesInv /\ [TelemetryNext]_telemetryVars => LinesInv'
  BY LinesStep
<1>3. LinesInv => LinesAccounted
  <2>1. AllLines = stored \cup filed \cup excused \cup QueuedLines \cup taken \cup buffer.fell
    BY DEF AllLines, LinesOf, QueuedLines
  <2> QED
    BY <2>1 DEF LinesInv, SinkInv, Kept, LinesAccounted
<1> QED
  BY <1>1, <1>2, <1>3, PTL DEF TelemetrySpec

-----------------------------------------------------------------------------
(* The verdict of the flusher's loop.                                        *)
HealthInv(h) ==
  /\ h.opened = h.seen /\ {i[1] : i \in h.issues} = h.seen
  /\ IsFiniteSet(h.issues) /\ IsFiniteSet(h.seen) /\ Cardinality(h.issues) = Cardinality(h.seen)

LEMMA HealthyInv == HealthInv(Healthy)
BY FS_EmptySet DEF HealthInv, Healthy

\* A fault seen before opens nothing; a new one opens one issue.
LEMMA FailureOpens ==
  ASSUME NEW h, HealthInv(h), NEW fault
  PROVE  HealthInv(TickFailed(h, fault))
<1> DEFINE n == h.failures + 1
           new == <<fault, n>>
           g == TickFailed(h, fault)
<1>1. /\ g.opened = h.opened \cup {fault} /\ g.seen = h.seen \cup {fault}
      /\ g.issues = h.issues \cup ({new} \ {<<f, n>> : f \in h.opened})
  BY DEF TickFailed
<1>2. /\ h.opened = h.seen /\ {i[1] : i \in h.issues} = h.seen
      /\ IsFiniteSet(h.issues) /\ IsFiniteSet(h.seen) /\ Cardinality(h.issues) = Cardinality(h.seen)
  BY DEF HealthInv
<1>3. new[1] = fault /\ \A f : <<f, n>> = new => f = fault
  OBVIOUS
<1> HIDE DEF g
<1>4. CASE fault \in h.seen
  <2>1. new \in {<<f, n>> : f \in h.opened}
    BY <1>2, <1>4
  <2>2. g.issues = h.issues /\ g.seen = h.seen /\ g.opened = h.opened
    BY <1>1, <1>2, <1>4, <2>1
  <2> QED
    BY <1>2, <2>2 DEF HealthInv, g
<1>5. CASE fault \notin h.seen
  <2>1. new \notin {<<f, n>> : f \in h.opened}
    BY <1>2, <1>3, <1>5
  <2> HIDE DEF new
  <2>2. g.issues = h.issues \cup {new}
    BY <1>1, <2>1
  <2>3. new \notin h.issues
    BY <1>2, <1>3, <1>5
  <2>4. /\ IsFiniteSet(g.issues) /\ Cardinality(g.issues) = Cardinality(h.issues) + 1
        /\ IsFiniteSet(g.seen) /\ Cardinality(g.seen) = Cardinality(h.seen) + 1
    <3>1. /\ IsFiniteSet(h.issues \cup {new})
          /\ Cardinality(h.issues \cup {new}) = Cardinality(h.issues) + 1
      BY <1>2, <2>3, FS_AddElement
    <3>2. /\ IsFiniteSet(h.seen \cup {fault})
          /\ Cardinality(h.seen \cup {fault}) = Cardinality(h.seen) + 1
      BY <1>2, <1>5, FS_AddElement
    <3> QED
      BY <1>1, <2>2, <3>1, <3>2
  <2>5. {i[1] : i \in g.issues} = g.seen
    BY <1>1, <1>2, <1>3, <2>2
  <2> QED
    BY <1>1, <1>2, <2>4, <2>5 DEF HealthInv, g
<1> QED
  BY <1>4, <1>5

LEMMA HealthStep ==
  ASSUME HealthInv(health), [TelemetryNext]_telemetryVars
  PROVE  HealthInv(health')
<1>1. CASE FlushSteps
  <2>1. CASE BeginFlush \/ LastFlushIdle
    <3>1. health' = health
      BY <2>1 DEF BeginFlush, LastFlushIdle
    <3> QED
      BY <3>1
  <2>2. CASE Flush
    <3>1. health' \in {health, Healthy}
      BY <2>2 DEF Flush, TickSucceeded
    <3> QED
      BY <3>1, HealthyInv
  <2>3. CASE \E fault \in Faults, landed \in BOOLEAN : FlushRaises(fault, landed)
    <3>1. PICK fault \in Faults : health' = health \/ health' = TickFailed(health, fault)
      BY <2>3 DEF FlushRaises
    <3> QED
      BY <3>1, FailureOpens
  <2> QED
    BY <1>1, <2>1, <2>2, <2>3 DEF FlushSteps
<1>2. CASE Exit \/ Die
  <2>1. health' = Healthy
    BY <1>2 DEF Exit, Die, Replace
  <2> QED
    BY <2>1, HealthyInv
<1>3. ASSUME ~ FlushSteps, ~ Exit, ~ Die PROVE health' = health
  <2>1. ASSUME NEW x \in Exchanges, Finish(x) PROVE health' = health
    BY <2>1 DEF Finish, Observe, loadVars
  <2>2. CASE DrainLines \/ DrainRaises
    BY <2>2 DEF DrainLines, DrainRaises, loadVars
  <2>3. CASE Daily
    BY <2>3 DEF Daily, RollUp, NextMinute
  <2>4. CASE Boot \/ StopSink \/ StopLoad \/ Crash
    BY <2>4 DEF Boot, StartFlusher, StopSink, StopLoad, StopFlusher, Crash, loadVars
  <2>5. CASE Read \/ UNCHANGED telemetryVars
    BY <2>5 DEF Read, telemetryVars, loadVars
  <2> QED
    BY <1>3, <2>1, <2>2, <2>3, <2>4, <2>5 DEF TelemetryNext
<1> QED
  BY <1>1, <1>2, <1>3

\* Telemetry's invariant ReportsAreTrue: the sink's reports of drops and outages (sink.py:120-135) say what
\* was dropped and refused, and each fault of an outage of the flusher opens one issue (loop.py:45-60).
THEOREM ReportsStayTrue == TelemetrySpec => []ReportsAreTrue
<1> DEFINE Inv == LinesInv /\ HealthInv(health)
<1>1. TelemetryInit => Inv
  BY LinesStart, HealthyInv DEF TelemetryInit, LoadInit
<1>2. Inv /\ [TelemetryNext]_telemetryVars => Inv'
  BY LinesStep, HealthStep
<1>3. Inv => ReportsAreTrue
  <2>1. \A what : Told(what) = ToldIn(buffer, what)
    BY DEF Told, ToldIn
  <2>2. LinesInv => SinkReportsTrue
    BY <2>1 DEF LinesInv, SinkInv, BooksInv, DropsTold, OutagesTold, SinkReportsTrue
  <2>3. HealthInv(health) => EachFaultOpensOnce
    BY DEF HealthInv, EachFaultOpensOnce
  <2> QED
    BY <2>2, <2>3 DEF ReportsAreTrue
<1> HIDE DEF Inv
<1> QED
  BY <1>1, <1>2, <1>3, PTL DEF TelemetrySpec

-----------------------------------------------------------------------------
(* More of sums.  A sum over a set is those over a part and over the rest.   *)
LEMMA SumSplit ==
  ASSUME NEW S, IsFiniteSet(S), NEW v \in [S -> Nat], NEW T \in SUBSET S
  PROVE  SumFunction(v) = SumFunction([x \in T |-> v[x]]) + SumFunction([x \in S \ T |-> v[x]])
<1> DEFINE a == [x \in T |-> v[x]]
           b == [x \in S \ T |-> v[x]]
<1>1. IsFiniteSet(T) /\ IsFiniteSet(S \ T) /\ a \in [T -> Nat] /\ b \in [S \ T -> Nat]
  BY FS_Subset, FS_Difference
<1>2. Units(a, T) = Units(v, T) /\ Units(b, S \ T) = Units(v, S \ T)
  BY DEF Units
<1>3. Units(v, S) = Units(v, T) \cup Units(v, S \ T) /\ Units(v, T) \cap Units(v, S \ T) = {}
  BY DEF Units
<1> HIDE DEF a, b
<1>4. /\ IsFiniteSet(Units(a, T)) /\ SumFunction(a) = Cardinality(Units(a, T))
      /\ IsFiniteSet(Units(b, S \ T)) /\ SumFunction(b) = Cardinality(Units(b, S \ T))
      /\ SumFunction(v) = Cardinality(Units(v, S))
  BY <1>1, SumIsSize
<1>5. Cardinality(Units(v, S)) = Cardinality(Units(v, T)) + Cardinality(Units(v, S \ T)) - Cardinality({})
  BY <1>2, <1>3, <1>4, FS_Union
<1>6. Cardinality({}) = 0 /\ Cardinality(Units(v, T)) \in Nat /\ Cardinality(Units(v, S \ T)) \in Nat
  BY <1>2, <1>4, FS_EmptySet, FS_CardinalityType
<1> QED
  BY <1>2, <1>4, <1>5, <1>6 DEF a, b

(* What a part is set to zero takes its own sum away.                        *)
LEMMA SumZeroed ==
  ASSUME NEW S, IsFiniteSet(S), NEW v \in [S -> Nat], NEW T \in SUBSET S
  PROVE  SumFunction(v) = SumFunction([x \in T |-> v[x]]) + SumFunction([x \in S |-> IF x \in T THEN 0 ELSE v[x]])
<1> DEFINE w == [x \in S |-> IF x \in T THEN 0 ELSE v[x]]
           a == [x \in T |-> v[x]]
           b == [x \in S \ T |-> v[x]]
           wa == [x \in T |-> w[x]]
           wb == [x \in S \ T |-> w[x]]
<1>1. w \in [S -> Nat] /\ IsFiniteSet(T) /\ IsFiniteSet(S \ T)
  BY FS_Subset, FS_Difference
<1>2. wa \in [T -> Nat] /\ (\A x \in T : wa[x] = 0) /\ wb = b
  OBVIOUS
<1>3. SumFunction(v) = SumFunction(a) + SumFunction(b)
  BY SumSplit
<1> HIDE DEF w
<1>4. SumFunction(w) = SumFunction(wa) + SumFunction(wb)
  BY <1>1, SumSplit
<1>5. b \in [S \ T -> Nat]
  OBVIOUS
<1> HIDE DEF wa, wb, a, b
<1>6. SumFunction(wa) = 0
  BY <1>1, <1>2, SumOfNone
<1>7. SumFunction(b) \in Nat
  BY <1>1, <1>5, SumTyped
<1>8. SumFunction(w) = SumFunction(b)
  BY <1>2, <1>4, <1>6, <1>7
<1> QED
  BY <1>3, <1>8 DEF w, a

LEMMA SumMore ==
  ASSUME NEW S, IsFiniteSet(S), NEW v \in [S -> Nat], NEW x \in S, NEW d \in Nat,
         NEW w \in [S -> Nat], w[x] = v[x] + d, \A y \in S \ {x} : w[y] = v[y]
  PROVE  SumFunction(w) = SumFunction(v) + d
<1> DEFINE a == [y \in S \ {x} |-> v[y]]
           b == [y \in S \ {x} |-> w[y]]
<1>1. a = b /\ a \in [S \ {x} -> Nat] /\ IsFiniteSet(S \ {x}) /\ v[x] \in Nat
  BY FS_RemoveElement
<1>2. SumFunction(v) = v[x] + SumFunction(a) /\ SumFunction(w) = w[x] + SumFunction(b)
  BY SumRest
<1> HIDE DEF a, b
<1>3. SumFunction(a) \in Nat
  BY <1>1, SumTyped
<1> QED
  BY <1>1, <1>2, <1>3

(* Terms added at the place each belongs to are all added.                   *)
LEMMA SumFibers ==
  ASSUME NEW K, IsFiniteSet(K), NEW H, IsFiniteSet(H), NEW p \in [K -> H],
         NEW m \in [K -> Nat], NEW h \in [H -> Nat]
  PROVE  SumFunction([y \in H |-> h[y] + SumFunction([k \in {k \in K : p[k] = y} |-> m[k]])])
           = SumFunction(h) + SumFunction(m)
<1> DEFINE part(y) == [k \in {k \in K : p[k] = y} |-> m[k]]
           into(T) == [k \in {k \in K : p[k] \in T} |-> m[k]]
           f == [y \in H |-> h[y] + SumFunction(part(y))]
           P(T) == SumFunction([y \in T |-> f[y]]) = SumFunction([y \in T |-> h[y]]) + SumFunction(into(T))
           Bad == {T \in SUBSET H : ~ P(T)}
<1>1. \A y : SumFunction(part(y)) \in Nat
  <2> SUFFICES ASSUME NEW y PROVE SumFunction(part(y)) \in Nat
    OBVIOUS
  <2>1. IsFiniteSet({k \in K : p[k] = y}) /\ part(y) \in [{k \in K : p[k] = y} -> Nat]
    BY FS_Subset
  <2> HIDE DEF part
  <2> QED
    BY <2>1, SumTyped
<1>2. f \in [H -> Nat]
  <2> HIDE DEF part
  <2> QED
    BY <1>1
<1>3. Bad = {}
  <2> SUFFICES ASSUME Bad # {} PROVE FALSE
    OBVIOUS
  <2>1. IsWellFoundedOn(StrictSubsetOrdering(H), SUBSET H)
    BY FS_StrictSubsetOrderingWellFounded, FS_FiniteSubsetsOfFinite
  <2>2. PICK T \in Bad : \A U \in Bad : ~ (<<U, T>> \in StrictSubsetOrdering(H))
    <3>1. Bad \subseteq SUBSET H
      OBVIOUS
    <3> HIDE DEF Bad
    <3> QED
      BY <2>1, <3>1, WFMin
  <2>3. T \in SUBSET H /\ ~ P(T)
    OBVIOUS
  <2>4. IsFiniteSet(T)
    BY <2>3, FS_Subset
  <2>5. CASE T = {}
    <3> DEFINE a == [y \in T |-> f[y]]
               b == [y \in T |-> h[y]]
               Q == {k \in K : p[k] \in T}
    <3>1. /\ a \in [T -> Nat] /\ (\A y \in T : a[y] = 0)
          /\ b \in [T -> Nat] /\ (\A y \in T : b[y] = 0)
          /\ Q = {} /\ into(T) \in [Q -> Nat] /\ (\A k \in Q : into(T)[k] = 0)
      BY <2>5
    <3> HIDE DEF a, b, into, Q, f, part
    <3>2. SumFunction(a) = 0 /\ SumFunction(b) = 0 /\ SumFunction(into(T)) = 0
      BY <2>4, <3>1, FS_EmptySet, SumOfNone
    <3> QED
      BY <2>3, <3>2 DEF a, b
  <2>6. CASE T # {}
    <3>1. PICK y \in T : TRUE
      BY <2>6
    <3> DEFINE U == T \ {y}
               a == [z \in T |-> f[z]]
               b == [z \in T |-> h[z]]
               au == [z \in U |-> a[z]]
               bu == [z \in U |-> b[z]]
               Q == {k \in K : p[k] \in T}
               R == {k \in K : p[k] = y}
               q == into(T)
    <3>2. U \in SUBSET H /\ <<U, T>> \in StrictSubsetOrdering(H)
      BY <2>3, <3>1 DEF StrictSubsetOrdering
    <3>3. P(U)
      BY <2>2, <3>2
    <3>4. /\ au = [z \in U |-> f[z]] /\ bu = [z \in U |-> h[z]]
          /\ a \in [T -> Nat] /\ b \in [T -> Nat] /\ a[y] = f[y] /\ b[y] = h[y] /\ h[y] \in Nat
      <4> HIDE DEF f
      <4> QED
        BY <1>2, <2>3, <3>1
    <3>5. SumFunction(a) = f[y] + SumFunction(au) /\ SumFunction(b) = h[y] + SumFunction(bu)
      <4> HIDE DEF a, b, f, Bad
      <4>0. a \in [T -> Nat] /\ b \in [T -> Nat] /\ IsFiniteSet(T) /\ y \in T
        BY <2>4, <3>4
      <4>1. SumFunction(a) = a[y] + SumFunction([z \in T \ {y} |-> a[z]])
        BY <4>0, SumRest
      <4>2. SumFunction(b) = b[y] + SumFunction([z \in T \ {y} |-> b[z]])
        BY <4>0, SumRest
      <4> QED
        BY <3>4, <4>1, <4>2
    <3>6. f[y] = h[y] + SumFunction(part(y))
      BY <2>3, <3>1
    <3>7. SumFunction(q) = SumFunction(part(y)) + SumFunction(into(U))
      <4>1. /\ IsFiniteSet(Q) /\ q \in [Q -> Nat] /\ R \in SUBSET Q
        BY <3>1, FS_Subset
      <4>2. Q \ R = {k \in K : p[k] \in U}
        OBVIOUS
      <4>3. [k \in R |-> q[k]] = part(y) /\ [k \in Q \ R |-> q[k]] = into(U)
        BY <3>1, <4>2
      <4> HIDE DEF q, Q, R, part, into, U
      <4>4. SumFunction(q) = SumFunction([k \in R |-> q[k]]) + SumFunction([k \in Q \ R |-> q[k]])
        BY <4>1, SumSplit
      <4> QED
        BY <4>3, <4>4
    <3>8. SumFunction(au) = SumFunction(bu) + SumFunction(into(U))
      <4> HIDE DEF into, f, part, au, bu, U
      <4> QED
        BY <3>3, <3>4
    <3>9. SumFunction(bu) \in Nat /\ SumFunction(into(U)) \in Nat
      <4>1. bu \in [U -> Nat] /\ IsFiniteSet(U)
        BY <2>4, <3>4, FS_RemoveElement
      <4>2. IsFiniteSet({k \in K : p[k] \in U}) /\ into(U) \in [{k \in K : p[k] \in U} -> Nat]
        BY FS_Subset
      <4> HIDE DEF bu, U, into
      <4> QED
        BY <4>1, <4>2, SumTyped
    <3>10. SumFunction(a) = SumFunction(b) + SumFunction(q)
      <4> HIDE DEF a, b, au, bu, q, into, U, f, part
      <4>1. SumFunction(part(y)) \in Nat /\ h[y] \in Nat
        BY <1>1, <3>4
      <4> QED
        BY <3>5, <3>6, <3>7, <3>8, <3>9, <4>1
    <3> QED
      BY <2>3, <3>10
  <2> QED
    BY <2>5, <2>6
<1>4. P(H)
  BY <1>3
<1>5. [y \in H |-> f[y]] = f /\ [y \in H |-> h[y]] = h /\ into(H) = m
  <2>1. {k \in K : p[k] \in H} = K
    OBVIOUS
  <2>2. into(H) = m
    BY <2>1
  <2> HIDE DEF part
  <2> QED
    BY <2>2
<1>6. SumFunction(f) = SumFunction(h) + SumFunction(m)
  <2> HIDE DEF f, into
  <2> QED
    BY <1>4, <1>5
<1> QED
  BY <1>6

-----------------------------------------------------------------------------
(* The load.                                                                 *)
Tallies == [Labels -> Nat]

Below(f, g) == \A l \in Labels : f[l] <= g[l]

LoadTypes ==
  /\ stats \in Tallies /\ previous \in Tallies /\ counted \in Tallies /\ doubled \in Tallies /\ gone \in Tallies
  /\ minuteRows \in [MinuteKeys -> Tallies] /\ hourRows \in [Hours -> Tallies]
  /\ minute \in 0 .. Minutes /\ instance \in 1 .. Instances

\* What is being flushed was counted since the last flush that went through.
FlushFits ==
  flush = Idle \/ /\ flush.snapshot \in Tallies /\ flush.minute \in 0 .. Minutes
                  /\ Below(previous, flush.snapshot) /\ Below(flush.snapshot, stats)

\* Stored, gone or not yet flushed on one side, counted or added twice on the other.
Balanced(l) ==
  Total(minuteRows, l) + Total(hourRows, l) + gone[l] + stats[l] = counted[l] + doubled[l] + previous[l]

LoadInv == LoadTypes /\ Below(previous, stats) /\ FlushFits /\ \A l \in Labels : Balanced(l)

LEMMA BoundsTyped ==
  /\ Minutes \in Nat /\ Instances \in Nat /\ PerHour \in Nat \ {0}
  /\ MinuteRetention \in Nat /\ HourRetention \in Nat
  /\ IsFiniteSet(MinuteKeys) /\ IsFiniteSet(Hours)
  /\ \A t \in 0 .. Minutes : t \div PerHour \in Hours
<1>1. /\ Minutes \in Nat /\ Instances \in Nat /\ PerHour \in Nat /\ PerHour > 0
      /\ MinuteRetention \in Nat /\ HourRetention \in Nat
  BY LoadMetricsAssumption
<1>2. \A t \in 0 .. Minutes : t \div PerHour \in Nat /\ t \div PerHour <= Minutes \div PerHour
  <2>1. \A a, b \in Nat : \A d \in Nat \ {0} : a <= b => a \div d \in Nat /\ a \div d <= b \div d
    BY SMTT(30)
  <2> QED
    BY <1>1, <2>1
<1>3. Minutes \div PerHour \in Nat
  BY <1>1, <1>2
<1>4. IsFiniteSet(0 .. Minutes) /\ IsFiniteSet(1 .. Instances) /\ IsFiniteSet(Hours)
  BY <1>1, <1>3, FS_Interval DEF Hours
<1>5. IsFiniteSet(MinuteKeys)
  BY <1>4, FS_Product DEF MinuteKeys
<1> QED
  BY <1>1, <1>2, <1>3, <1>4, <1>5 DEF Hours

LEMMA TotalTyped ==
  ASSUME NEW K, IsFiniteSet(K), NEW rows \in [K -> Tallies], NEW l \in Labels
  PROVE  /\ [k \in K |-> rows[k][l]] \in [K -> Nat]
         /\ Total(rows, l) = SumFunction([k \in K |-> rows[k][l]]) /\ Total(rows, l) \in Nat
<1>1. [k \in K |-> rows[k][l]] \in [K -> Nat]
  BY DEF Tallies
<1>2. Total(rows, l) = SumFunction([k \in K |-> rows[k][l]])
  BY DEF Total
<1> QED
  BY <1>1, <1>2, SumTyped

\* A flush adds to one row.
LEMMA FoldedRows ==
  ASSUME LoadInv, flush # Idle
  PROVE  /\ Folded(flush) \in [MinuteKeys -> Tallies]
         /\ \A l \in Labels : /\ Total(Folded(flush), l) = Total(minuteRows, l) + (flush.snapshot[l] - previous[l])
                              /\ flush.snapshot[l] - previous[l] \in Nat
<1> DEFINE key == <<flush.minute, instance>>
           d == Minus(flush.snapshot, previous)
           rows == Folded(flush)
<1>1. /\ flush.snapshot \in Tallies /\ flush.minute \in 0 .. Minutes /\ previous \in Tallies
      /\ Below(previous, flush.snapshot)
      /\ minuteRows \in [MinuteKeys -> Tallies] /\ instance \in 1 .. Instances
  BY DEF LoadInv, LoadTypes, FlushFits
<1>2. key \in MinuteKeys
  BY <1>1 DEF MinuteKeys
<1>3. d \in Tallies /\ \A l \in Labels : d[l] = flush.snapshot[l] - previous[l]
  BY <1>1 DEF Minus, Tallies, Below
<1>4. rows = [minuteRows EXCEPT ![key] = Added(minuteRows[key], d)]
  BY DEF Folded
<1> HIDE DEF key, d, rows
<1>5. Added(minuteRows[key], d) \in Tallies /\ \A l \in Labels : Added(minuteRows[key], d)[l] = minuteRows[key][l] + d[l]
  <2>1. minuteRows[key] \in Tallies
    BY <1>1, <1>2
  <2> QED
    BY <1>3, <2>1 DEF Added, Tallies
<1>6. rows \in [MinuteKeys -> Tallies] /\ \A k \in MinuteKeys \ {key} : rows[k] = minuteRows[k]
  BY <1>1, <1>2, <1>4, <1>5
<1>7. rows[key] = Added(minuteRows[key], d)
  BY <1>1, <1>2, <1>4
<1>8. ASSUME NEW l \in Labels PROVE Total(rows, l) = Total(minuteRows, l) + d[l]
  <2> DEFINE v == [k \in MinuteKeys |-> minuteRows[k][l]]
             w == [k \in MinuteKeys |-> rows[k][l]]
  <2>1. /\ v \in [MinuteKeys -> Nat] /\ Total(minuteRows, l) = SumFunction(v)
        /\ w \in [MinuteKeys -> Nat] /\ Total(rows, l) = SumFunction(w)
    BY <1>1, <1>6, BoundsTyped, TotalTyped
  <2>2. w[key] = v[key] + d[l] /\ (\A k \in MinuteKeys \ {key} : w[k] = v[k]) /\ d[l] \in Nat
    BY <1>2, <1>3, <1>5, <1>6, <1>7 DEF Tallies
  <2> HIDE DEF v, w
  <2>3. SumFunction(w) = SumFunction(v) + d[l]
    BY <1>2, <2>1, <2>2, BoundsTyped, SumMore
  <2> QED
    BY <2>1, <2>3
<1>9. \A l \in Labels : d[l] \in Nat
  BY <1>3 DEF Tallies
<1> QED
  BY <1>3, <1>6, <1>8, <1>9 DEF rows

LEMMA LoadSame ==
  ASSUME LoadInv, UNCHANGED <<stats, previous, flush, minuteRows, hourRows, minute, instance, counted, doubled, gone>>
  PROVE  LoadInv'
BY DEF LoadInv, LoadTypes, FlushFits, Below, Balanced, Total

LEMMA ObserveKeeps ==
  ASSUME LoadInv, NEW label \in Labels, Observe(label)
  PROVE  LoadInv'
<1> DEFINE kept == IF label \in Paths THEN Bounded(label) ELSE label
<1>1. kept \in Labels
  BY DEF Bounded, Labels
<1>2. /\ stats' = [stats EXCEPT ![kept] = @ + 1] /\ counted' = [counted EXCEPT ![kept] = @ + 1]
      /\ UNCHANGED <<previous, flush, minuteRows, hourRows, minute, instance, doubled, gone>>
  BY DEF Observe
<1> HIDE DEF kept
<1>3. LoadTypes /\ Below(previous, stats) /\ FlushFits /\ \A l \in Labels : Balanced(l)
  BY DEF LoadInv
<1>4. stats \in Tallies /\ counted \in Tallies /\ previous \in Tallies
  BY <1>3 DEF LoadTypes
<1>5. stats' \in Tallies /\ counted' \in Tallies
  BY <1>1, <1>2, <1>4 DEF Tallies
<1>6. \A l \in Labels : /\ stats'[l] = stats[l] + (IF l = kept THEN 1 ELSE 0)
                        /\ counted'[l] = counted[l] + (IF l = kept THEN 1 ELSE 0)
                        /\ stats[l] <= stats'[l]
  BY <1>1, <1>2, <1>4 DEF Tallies
<1>7. LoadTypes'
  BY <1>2, <1>3, <1>5 DEF LoadTypes
<1>8. \A f \in Tallies : Below(f, stats) => Below(f, stats')
  <2> SUFFICES ASSUME NEW f \in Tallies, Below(f, stats), NEW l \in Labels PROVE f[l] <= stats'[l]
    BY DEF Below
  <2>1. f[l] \in Nat /\ stats[l] \in Nat /\ stats'[l] \in Nat /\ f[l] <= stats[l] /\ stats[l] <= stats'[l]
    BY <1>4, <1>5, <1>6 DEF Tallies, Below
  <2> QED
    BY <2>1
<1>9. Below(previous, stats)'
  BY <1>2, <1>3, <1>4, <1>8 DEF Below
<1>10. FlushFits'
  BY <1>2, <1>3, <1>8 DEF FlushFits, Below
<1>11. ASSUME NEW l \in Labels PROVE Balanced(l)'
  <2>1. /\ Total(minuteRows, l) \in Nat /\ Total(hourRows, l) \in Nat
        /\ gone[l] \in Nat /\ stats[l] \in Nat /\ counted[l] \in Nat /\ doubled[l] \in Nat /\ previous[l] \in Nat
    BY <1>3, BoundsTyped, TotalTyped DEF LoadTypes, Tallies
  <2>2. Total(minuteRows', l) = Total(minuteRows, l) /\ Total(hourRows', l) = Total(hourRows, l)
    BY <1>2
  <2>3. Total(minuteRows, l) + Total(hourRows, l) + gone[l] + stats[l] = counted[l] + doubled[l] + previous[l]
    BY <1>3 DEF Balanced
  <2>4. Total(minuteRows', l) + Total(hourRows', l) + gone'[l] + stats'[l] = counted'[l] + doubled'[l] + previous'[l]
    <3> DEFINE one == IF l = kept THEN 1 ELSE 0
    <3>1. one \in Nat /\ stats'[l] = stats[l] + one /\ counted'[l] = counted[l] + one
      BY <1>6
    <3>2. gone'[l] = gone[l] /\ doubled'[l] = doubled[l] /\ previous'[l] = previous[l]
      BY <1>2
    <3>3. \A m, h, g, s, c, d, p, o \in Nat : m + h + g + s = c + d + p => m + h + g + (s + o) = (c + o) + d + p
      OBVIOUS
    <3> HIDE DEF one
    <3> QED
      BY <2>1, <2>2, <2>3, <3>1, <3>2, <3>3
  <2> QED
    BY <2>4 DEF Balanced, Total
<1> QED
  BY <1>7, <1>9, <1>10, <1>11 DEF LoadInv

LEMMA BeginFlushKeeps ==
  ASSUME LoadInv, BeginFlush
  PROVE  LoadInv'
<1>1. /\ flush' = [snapshot |-> stats, minute |-> minute]
      /\ UNCHANGED <<stats, previous, minuteRows, hourRows, minute, instance, counted, doubled, gone>>
  BY DEF BeginFlush
<1>2. LoadTypes /\ Below(previous, stats) /\ FlushFits /\ \A l \in Labels : Balanced(l)
  BY DEF LoadInv
<1>3. LoadTypes' /\ Below(previous, stats)' /\ \A l \in Labels : Balanced(l)'
  BY <1>1, <1>2 DEF LoadTypes, Below, Balanced, Total
<1>4. Below(stats, stats)
  <2>1. \A l \in Labels : stats[l] \in Nat
    BY <1>2 DEF LoadTypes, Tallies
  <2> QED
    BY <2>1 DEF Below
<1>5. flush'.snapshot = stats /\ flush'.minute = minute
  BY <1>1
<1>6. FlushFits'
  BY <1>1, <1>2, <1>4, <1>5 DEF FlushFits, LoadTypes, Below
<1> QED
  BY <1>3, <1>6 DEF LoadInv

\* The rows take the flush, and the process notes it.
LEMMA FlushKeeps ==
  ASSUME LoadInv, flush # Idle, minuteRows' = Folded(flush), previous' = flush.snapshot, flush' = Idle,
         UNCHANGED <<stats, hourRows, minute, instance, counted, doubled, gone>>
  PROVE  LoadInv'
<1>1. LoadTypes /\ Below(previous, stats) /\ FlushFits /\ \A l \in Labels : Balanced(l)
  BY DEF LoadInv
<1>2. flush.snapshot \in Tallies /\ Below(flush.snapshot, stats)
  BY <1>1 DEF FlushFits
<1>3. /\ minuteRows' \in [MinuteKeys -> Tallies]
      /\ \A l \in Labels : /\ Total(minuteRows', l) = Total(minuteRows, l) + (flush.snapshot[l] - previous[l])
                           /\ flush.snapshot[l] - previous[l] \in Nat
  BY FoldedRows
<1>4. LoadTypes'
  BY <1>1, <1>2, <1>3 DEF LoadTypes
<1>5. Below(previous, stats)' /\ FlushFits'
  BY <1>2 DEF Below, FlushFits
<1>6. ASSUME NEW l \in Labels PROVE Balanced(l)'
  <2>1. /\ Total(minuteRows, l) \in Nat /\ Total(hourRows, l) \in Nat /\ flush.snapshot[l] \in Nat
        /\ gone[l] \in Nat /\ stats[l] \in Nat /\ counted[l] \in Nat /\ doubled[l] \in Nat /\ previous[l] \in Nat
    BY <1>1, <1>2, BoundsTyped, TotalTyped DEF LoadTypes, Tallies
  <2>2. /\ Total(minuteRows', l) = Total(minuteRows, l) + (flush.snapshot[l] - previous[l])
        /\ Total(hourRows', l) = Total(hourRows, l)
    BY <1>3
  <2>3. Total(minuteRows, l) + Total(hourRows, l) + gone[l] + stats[l] = counted[l] + doubled[l] + previous[l]
    BY <1>1 DEF Balanced
  <2>4. Total(minuteRows', l) + Total(hourRows', l) + gone'[l] + stats'[l] = counted'[l] + doubled'[l] + previous'[l]
    <3> DEFINE d == flush.snapshot[l] - previous[l]
    <3>1. /\ d \in Nat /\ previous'[l] = previous[l] + d
          /\ gone'[l] = gone[l] /\ stats'[l] = stats[l] /\ counted'[l] = counted[l] /\ doubled'[l] = doubled[l]
      BY <1>3, <2>1
    <3>3. \A m, h, g, s, c, e, p, o \in Nat : m + h + g + s = c + e + p => (m + o) + h + g + s = c + e + (p + o)
      OBVIOUS
    <3>2. Total(minuteRows', l) = Total(minuteRows, l) + d
      BY <2>2
    <3> HIDE DEF d
    <3> QED
      BY <2>1, <2>2, <2>3, <3>1, <3>2, <3>3
  <2> QED
    BY <2>4 DEF Balanced, Total
<1> QED
  BY <1>4, <1>5, <1>6 DEF LoadInv

\* The rows take it unknown to the process, or not at all.
LEMMA UnansweredKeeps ==
  ASSUME LoadInv, NEW landed \in BOOLEAN, flush # Idle, Unanswered(landed)
  PROVE  LoadInv'
<1>1. /\ minuteRows' = IF landed THEN Folded(flush) ELSE minuteRows
      /\ doubled' = IF landed THEN Added(doubled, Minus(flush.snapshot, previous)) ELSE doubled
      /\ flush' = Idle /\ UNCHANGED <<stats, previous, hourRows, minute, instance, counted, gone>>
  BY DEF Unanswered
<1>2. LoadTypes /\ Below(previous, stats) /\ FlushFits /\ \A l \in Labels : Balanced(l)
  BY DEF LoadInv
<1>3. Below(previous, stats)' /\ FlushFits'
  BY <1>1, <1>2 DEF Below, FlushFits
<1>4. CASE ~ landed
  <2>1. LoadTypes' /\ \A l \in Labels : Balanced(l)'
    BY <1>1, <1>2, <1>4 DEF LoadTypes, Balanced, Total
  <2> QED
    BY <1>3, <2>1 DEF LoadInv
<1>5. CASE landed
  <2>1. /\ minuteRows' \in [MinuteKeys -> Tallies]
        /\ \A l \in Labels : /\ Total(minuteRows', l) = Total(minuteRows, l) + (flush.snapshot[l] - previous[l])
                             /\ flush.snapshot[l] - previous[l] \in Nat
    BY <1>1, <1>5, FoldedRows
  <2>2. /\ doubled' \in Tallies
        /\ \A l \in Labels : doubled'[l] = doubled[l] + (flush.snapshot[l] - previous[l])
    <3>1. doubled \in Tallies /\ doubled' = Added(doubled, Minus(flush.snapshot, previous))
      BY <1>1, <1>2, <1>5 DEF LoadTypes
    <3> QED
      BY <2>1, <3>1 DEF Tallies, Added, Minus
  <2>3. LoadTypes'
    BY <1>1, <1>2, <2>1, <2>2 DEF LoadTypes
  <2>4. ASSUME NEW l \in Labels PROVE Balanced(l)'
    <3> DEFINE d == flush.snapshot[l] - previous[l]
    <3>1. /\ Total(minuteRows, l) \in Nat /\ Total(hourRows, l) \in Nat /\ d \in Nat
          /\ gone[l] \in Nat /\ stats[l] \in Nat /\ counted[l] \in Nat /\ doubled[l] \in Nat /\ previous[l] \in Nat
      BY <1>2, <2>1, BoundsTyped, TotalTyped DEF LoadTypes, Tallies
    <3>2. /\ Total(minuteRows', l) = Total(minuteRows, l) + d /\ doubled'[l] = doubled[l] + d
          /\ Total(hourRows', l) = Total(hourRows, l)
      BY <1>1, <2>1, <2>2
    <3>3. Total(minuteRows, l) + Total(hourRows, l) + gone[l] + stats[l] = counted[l] + doubled[l] + previous[l]
      BY <1>2 DEF Balanced
    <3> HIDE DEF d
    <3>4. Total(minuteRows', l) + Total(hourRows', l) + gone'[l] + stats'[l] = counted'[l] + doubled'[l] + previous'[l]
      BY <1>1, <3>1, <3>2, <3>3
    <3> QED
      BY <3>4 DEF Balanced, Total
  <2> QED
    BY <1>3, <2>3, <2>4 DEF LoadInv
<1> QED
  BY <1>4, <1>5

LEMMA ReplaceKeeps ==
  ASSUME LoadInv, NEW landed \in BOOLEAN, landed => flush # Idle, Replace(landed)
  PROVE  LoadInv'
<1>1. /\ minuteRows' = IF landed THEN Folded(flush) ELSE minuteRows
      /\ gone' = Added(gone, IF landed THEN Minus(stats, flush.snapshot) ELSE Deltas)
      /\ stats' = NoCounts /\ previous' = NoCounts /\ flush' = Idle
      /\ instance < Instances /\ instance' = instance + 1
      /\ UNCHANGED <<hourRows, minute, counted, doubled>>
  BY DEF Replace
<1>2. LoadTypes /\ Below(previous, stats) /\ FlushFits /\ \A l \in Labels : Balanced(l)
  BY DEF LoadInv
<1>3. NoCounts \in Tallies /\ \A l \in Labels : NoCounts[l] = 0
  BY DEF NoCounts, Tallies
<1>4. instance' \in 1 .. Instances
  BY <1>1, <1>2, BoundsTyped DEF LoadTypes
<1>5. /\ minuteRows' \in [MinuteKeys -> Tallies]
      /\ \A l \in Labels : /\ gone'[l] \in Nat
                           /\ Total(minuteRows', l) + gone'[l] + previous[l] = Total(minuteRows, l) + gone[l] + stats[l]
  <2>1. gone \in Tallies /\ stats \in Tallies /\ previous \in Tallies /\ minuteRows \in [MinuteKeys -> Tallies]
    BY <1>2 DEF LoadTypes
  <2>2. CASE landed
    <3>1. flush.snapshot \in Tallies /\ Below(flush.snapshot, stats)
      BY <1>2, <2>2 DEF FlushFits
    <3>2. /\ minuteRows' \in [MinuteKeys -> Tallies]
          /\ \A l \in Labels : Total(minuteRows', l) = Total(minuteRows, l) + (flush.snapshot[l] - previous[l])
      BY <1>1, <2>2, FoldedRows
    <3>3. \A l \in Labels : gone'[l] = gone[l] + (stats[l] - flush.snapshot[l])
      BY <1>1, <2>2 DEF Added, Minus
    <3>4. ASSUME NEW l \in Labels
          PROVE  /\ gone'[l] \in Nat
                 /\ Total(minuteRows', l) + gone'[l] + previous[l] = Total(minuteRows, l) + gone[l] + stats[l]
      <4>1. /\ gone[l] \in Nat /\ stats[l] \in Nat /\ previous[l] \in Nat /\ flush.snapshot[l] \in Nat
            /\ flush.snapshot[l] <= stats[l] /\ Total(minuteRows, l) \in Nat
        BY <2>1, <3>1, BoundsTyped, TotalTyped DEF Tallies, Below
      <4> QED
        BY <3>2, <3>3, <4>1
    <3> QED
      BY <3>2, <3>4
  <2>3. CASE ~ landed
    <3>1. \A l \in Labels : gone'[l] = gone[l] + (stats[l] - previous[l])
      BY <1>1, <2>3 DEF Added, Minus, Deltas
    <3>2. ASSUME NEW l \in Labels
          PROVE  /\ gone'[l] \in Nat
                 /\ Total(minuteRows', l) + gone'[l] + previous[l] = Total(minuteRows, l) + gone[l] + stats[l]
      <4>1. /\ gone[l] \in Nat /\ stats[l] \in Nat /\ previous[l] \in Nat
            /\ previous[l] <= stats[l] /\ Total(minuteRows, l) \in Nat
        BY <1>2, <2>1, BoundsTyped, TotalTyped DEF Tallies, Below
      <4>2. Total(minuteRows', l) = Total(minuteRows, l)
        BY <1>1, <2>3
      <4> QED
        BY <3>1, <4>1, <4>2
    <3> QED
      BY <1>1, <2>1, <2>3, <3>2
  <2> QED
    BY <2>2, <2>3
<1>6. gone' \in Tallies
  <2>1. gone' = [l \in Labels |-> gone'[l]]
    BY <1>1 DEF Added
  <2> QED
    BY <1>5, <2>1 DEF Tallies
<1>7. LoadTypes'
  BY <1>1, <1>2, <1>3, <1>4, <1>5, <1>6 DEF LoadTypes
<1>8. Below(previous, stats)' /\ FlushFits'
  BY <1>1, <1>3 DEF Below, FlushFits
<1>9. ASSUME NEW l \in Labels PROVE Balanced(l)'
  <2>1. /\ Total(minuteRows, l) \in Nat /\ Total(hourRows, l) \in Nat /\ Total(minuteRows', l) \in Nat
        /\ gone[l] \in Nat /\ stats[l] \in Nat /\ counted[l] \in Nat /\ doubled[l] \in Nat /\ previous[l] \in Nat
        /\ gone'[l] \in Nat
    BY <1>2, <1>5, BoundsTyped, TotalTyped DEF LoadTypes, Tallies
  <2>2. Total(minuteRows', l) + gone'[l] + previous[l] = Total(minuteRows, l) + gone[l] + stats[l]
    BY <1>5
  <2>3. Total(minuteRows, l) + Total(hourRows, l) + gone[l] + stats[l] = counted[l] + doubled[l] + previous[l]
    BY <1>2 DEF Balanced
  <2>4. Total(hourRows', l) = Total(hourRows, l) /\ counted' = counted /\ doubled' = doubled
        /\ stats'[l] = 0 /\ previous'[l] = 0
    BY <1>1, <1>3
  <2>5. Total(minuteRows', l) + Total(hourRows', l) + gone'[l] + stats'[l] = counted'[l] + doubled'[l] + previous'[l]
    BY <2>1, <2>2, <2>3, <2>4
  <2> QED
    BY <2>5 DEF Balanced, Total
<1> QED
  BY <1>7, <1>8, <1>9 DEF LoadInv

\* What stale minutes fold into, for one label.
FoldedHours(l) ==
  [h \in Hours |-> hourRows[h][l]
                     + SumFunction([k \in {k \in Stale : k[1] \div PerHour = h} |-> minuteRows[k][l]])]

OldHours == {h \in Hours : h * PerHour < minute - HourRetention}

LEMMA RolledUp ==
  ASSUME RollUp
  PROVE  /\ minuteRows' = [k \in MinuteKeys |-> IF k \in Stale THEN NoCounts ELSE minuteRows[k]]
         /\ \A h \in Hours : hourRows'[h] = IF h \in OldHours THEN NoCounts ELSE [l \in Labels |-> FoldedHours(l)[h]]
         /\ hourRows' = [h \in Hours |-> hourRows'[h]]
         /\ gone' = [l \in Labels |-> gone[l] + SumFunction([h \in OldHours |-> FoldedHours(l)[h]])]
<1> DEFINE merged == [h \in Hours |-> Added(hourRows[h],
                        [l \in Labels |-> SumFunction([k \in {k \in Stale : k[1] \div PerHour = h} |->
                                                         minuteRows[k][l]])])]
<1>1. /\ minuteRows' = [k \in MinuteKeys |-> IF k \in Stale THEN NoCounts ELSE minuteRows[k]]
      /\ hourRows' = [h \in Hours |-> IF h \in OldHours THEN NoCounts ELSE merged[h]]
      /\ gone' = Added(gone, [l \in Labels |-> SumFunction([h \in OldHours |-> merged[h][l]])])
  BY DEF RollUp, Deleted, OldHours
<1>2. \A h \in Hours : \A l \in Labels : merged[h][l] = FoldedHours(l)[h]
  BY DEF FoldedHours, Added
<1>3. \A h \in Hours : merged[h] = [l \in Labels |-> merged[h][l]]
  BY DEF Added
<1>4. OldHours \subseteq Hours
  BY DEF OldHours
<1> HIDE DEF merged
<1>5. \A h \in Hours : merged[h] = [l \in Labels |-> FoldedHours(l)[h]]
  BY <1>2, <1>3
<1>6. \A l \in Labels : [h \in OldHours |-> merged[h][l]] = [h \in OldHours |-> FoldedHours(l)[h]]
  BY <1>2, <1>4
<1>7. gone' = [l \in Labels |-> gone[l] + SumFunction([h \in OldHours |-> FoldedHours(l)[h]])]
  <2>1. gone' = [l \in Labels |-> gone[l] + SumFunction([h \in OldHours |-> merged[h][l]])]
    BY <1>1 DEF Added
  <2> QED
    BY <1>6, <2>1
<1> QED
  BY <1>1, <1>5, <1>7

LEMMA HoursFold ==
  ASSUME LoadTypes, NEW l \in Labels
  PROVE  /\ FoldedHours(l) \in [Hours -> Nat]
         /\ SumFunction(FoldedHours(l))
              = Total(hourRows, l) + SumFunction([k \in Stale |-> minuteRows[k][l]])
<1> DEFINE h == [y \in Hours |-> hourRows[y][l]]
           m == [k \in Stale |-> minuteRows[k][l]]
           p == [k \in Stale |-> k[1] \div PerHour]
           part(y) == [k \in {k \in Stale : p[k] = y} |-> m[k]]
<1>1. Stale \subseteq MinuteKeys /\ IsFiniteSet(Stale) /\ IsFiniteSet(Hours)
  BY BoundsTyped, FS_Subset DEF Stale
<1>2. h \in [Hours -> Nat] /\ Total(hourRows, l) = SumFunction(h)
  BY <1>1, TotalTyped DEF LoadTypes
<1>3. m \in [Stale -> Nat]
  BY <1>1 DEF LoadTypes, Tallies
<1>4. p \in [Stale -> Hours]
  <2>1. \A k \in Stale : k[1] \in 0 .. Minutes
    BY <1>1 DEF MinuteKeys
  <2> QED
    BY <2>1, BoundsTyped
<1>5. \A y \in Hours : part(y) = [k \in {k \in Stale : k[1] \div PerHour = y} |-> minuteRows[k][l]]
  <2> SUFFICES ASSUME NEW y \in Hours
               PROVE  part(y) = [k \in {k \in Stale : k[1] \div PerHour = y} |-> minuteRows[k][l]]
    OBVIOUS
  <2>1. {k \in Stale : p[k] = y} = {k \in Stale : k[1] \div PerHour = y}
    OBVIOUS
  <2>2. \A k \in {k \in Stale : p[k] = y} : m[k] = minuteRows[k][l]
    OBVIOUS
  <2> QED
    BY <2>1, <2>2
<1>6. \A y \in Hours : SumFunction(part(y)) \in Nat
  <2> SUFFICES ASSUME NEW y \in Hours PROVE SumFunction(part(y)) \in Nat
    OBVIOUS
  <2>1. IsFiniteSet({k \in Stale : p[k] = y}) /\ part(y) \in [{k \in Stale : p[k] = y} -> Nat]
    BY <1>1, <1>3, FS_Subset
  <2> HIDE DEF part, p, m
  <2> QED
    BY <2>1, SumTyped
<1>7. FoldedHours(l) = [y \in Hours |-> h[y] + SumFunction(part(y))]
  <2> HIDE DEF part
  <2>1. FoldedHours(l) = [y \in Hours |-> h[y]
          + SumFunction([k \in {k \in Stale : k[1] \div PerHour = y} |-> minuteRows[k][l]])]
    BY DEF FoldedHours
  <2> QED
    BY <1>5, <2>1
<1>8. FoldedHours(l) \in [Hours -> Nat]
  <2> HIDE DEF part, h
  <2> QED
    BY <1>2, <1>6, <1>7
<1>9. SumFunction([y \in Hours |-> h[y] + SumFunction([k \in {k \in Stale : p[k] = y} |-> m[k]])])
        = SumFunction(h) + SumFunction(m)
  <2> HIDE DEF h, m, p
  <2> QED
    BY <1>1, <1>2, <1>3, <1>4, SumFibers
<1> QED
  BY <1>2, <1>7, <1>8, <1>9

LEMMA RollUpKeeps ==
  ASSUME LoadInv, RollUp
  PROVE  LoadInv'
<1>1. LoadTypes /\ Below(previous, stats) /\ FlushFits /\ \A l \in Labels : Balanced(l)
  BY DEF LoadInv
<1>2. UNCHANGED <<stats, previous, flush, minute, instance, counted, doubled>>
  BY DEF RollUp
<1>3. NoCounts \in Tallies /\ \A l \in Labels : NoCounts[l] = 0
  BY DEF NoCounts, Tallies
<1>4. /\ IsFiniteSet(MinuteKeys) /\ IsFiniteSet(Hours) /\ Stale \subseteq MinuteKeys /\ OldHours \subseteq Hours
      /\ IsFiniteSet(OldHours)
  BY BoundsTyped, FS_Subset DEF Stale, OldHours
<1>5. \A l \in Labels : /\ FoldedHours(l) \in [Hours -> Nat]
                        /\ [h \in OldHours |-> FoldedHours(l)[h]] \in [OldHours -> Nat]
                        /\ SumFunction([h \in OldHours |-> FoldedHours(l)[h]]) \in Nat
  <2> SUFFICES ASSUME NEW l \in Labels
               PROVE  /\ FoldedHours(l) \in [Hours -> Nat]
                      /\ [h \in OldHours |-> FoldedHours(l)[h]] \in [OldHours -> Nat]
                      /\ SumFunction([h \in OldHours |-> FoldedHours(l)[h]]) \in Nat
    OBVIOUS
  <2>1. FoldedHours(l) \in [Hours -> Nat]
    BY <1>1, HoursFold
  <2>2. [h \in OldHours |-> FoldedHours(l)[h]] \in [OldHours -> Nat]
    BY <1>4, <2>1
  <2> QED
    BY <1>4, <2>1, <2>2, SumTyped
<1>6. minuteRows' \in [MinuteKeys -> Tallies]
  BY <1>1, <1>3, RolledUp DEF LoadTypes
<1>7. hourRows' \in [Hours -> Tallies]
  <2>1. \A h \in Hours : [l \in Labels |-> FoldedHours(l)[h]] \in Tallies
    BY <1>5 DEF Tallies
  <2>2. \A h \in Hours : hourRows'[h] \in Tallies
    BY <1>3, <2>1, RolledUp
  <2> QED
    BY <2>2, RolledUp
<1>8. gone' \in Tallies /\ \A l \in Labels : gone'[l] = gone[l] + SumFunction([h \in OldHours |-> FoldedHours(l)[h]])
  <2>1. \A l \in Labels : gone[l] \in Nat
    BY <1>1 DEF LoadTypes, Tallies
  <2>2. /\ gone' = [l \in Labels |-> gone[l] + SumFunction([h \in OldHours |-> FoldedHours(l)[h]])]
    BY RolledUp
  <2>3. \A l \in Labels : gone[l] + SumFunction([h \in OldHours |-> FoldedHours(l)[h]]) \in Nat
    <3> SUFFICES ASSUME NEW l \in Labels
                 PROVE  gone[l] + SumFunction([h \in OldHours |-> FoldedHours(l)[h]]) \in Nat
      OBVIOUS
    <3>1. gone[l] \in Nat /\ SumFunction([h \in OldHours |-> FoldedHours(l)[h]]) \in Nat
      BY <1>5, <2>1
    <3> QED
      BY <3>1
  <2> QED
    BY <2>2, <2>3 DEF Tallies
<1>9. LoadTypes' /\ Below(previous, stats)' /\ FlushFits'
  BY <1>1, <1>2, <1>6, <1>7, <1>8 DEF LoadTypes, Below, FlushFits
<1>10. ASSUME NEW l \in Labels PROVE Balanced(l)'
  <2> DEFINE m == [k \in MinuteKeys |-> minuteRows[k][l]]
             ms == [k \in Stale |-> m[k]]
             mz == [k \in MinuteKeys |-> IF k \in Stale THEN 0 ELSE m[k]]
             f == FoldedHours(l)
             fo == [h \in OldHours |-> f[h]]
             fz == [h \in Hours |-> IF h \in OldHours THEN 0 ELSE f[h]]
  <2>1. m \in [MinuteKeys -> Nat] /\ Total(minuteRows, l) = SumFunction(m)
    BY <1>1, <1>4, TotalTyped DEF LoadTypes
  <2>2. ms = [k \in Stale |-> minuteRows[k][l]]
    BY <1>4
  <2>3. f \in [Hours -> Nat] /\ SumFunction(f) = Total(hourRows, l) + SumFunction(ms)
    BY <1>1, <2>2, HoursFold
  <2>4. mz = [k \in MinuteKeys |-> minuteRows'[k][l]] /\ fz = [h \in Hours |-> hourRows'[h][l]]
    <3>1. \A k \in MinuteKeys : mz[k] = minuteRows'[k][l]
      BY <1>3, RolledUp
    <3>2. \A h \in Hours : fz[h] = hourRows'[h][l]
      BY <1>3, RolledUp
    <3> QED
      BY <3>1, <3>2
  <2>5. Total(minuteRows', l) = SumFunction(mz) /\ Total(hourRows', l) = SumFunction(fz)
    BY <1>4, <1>6, <1>7, <2>4, TotalTyped
  <2>6. mz \in [MinuteKeys -> Nat] /\ fz \in [Hours -> Nat] /\ ms \in [Stale -> Nat] /\ fo \in [OldHours -> Nat]
    <3> HIDE DEF m, f
    <3> QED
      BY <1>4, <2>1, <2>3
  <2>7. IsFiniteSet(Stale)
    BY <1>4, FS_Subset
  <2>8. SumFunction(m) = SumFunction(ms) + SumFunction(mz)
    <3> HIDE DEF m
    <3> QED
      BY <1>4, <2>1, SumZeroed
  <2>9. SumFunction(f) = SumFunction(fo) + SumFunction(fz)
    <3> HIDE DEF f
    <3> QED
      BY <1>4, <2>3, SumZeroed
  <2>10. gone'[l] = gone[l] + SumFunction(fo)
    BY <1>8
  <2> HIDE DEF m, ms, mz, f, fo, fz
  <2>11. SumFunction(ms) \in Nat /\ SumFunction(mz) \in Nat /\ SumFunction(fo) \in Nat /\ SumFunction(fz) \in Nat
    BY <1>4, <2>6, <2>7, SumTyped
  <2>12. /\ Total(hourRows, l) \in Nat
         /\ gone[l] \in Nat /\ stats[l] \in Nat /\ counted[l] \in Nat /\ doubled[l] \in Nat /\ previous[l] \in Nat
    BY <1>1, <1>4, TotalTyped DEF LoadTypes, Tallies
  <2>13. Total(minuteRows, l) + Total(hourRows, l) + gone[l] = Total(minuteRows', l) + Total(hourRows', l) + gone'[l]
    <3>1. \A a, b, c, d, e, g \in Nat : c + d = e + a => (a + b) + e + g = b + d + (g + c)
      OBVIOUS
    <3>2. SumFunction(fo) + SumFunction(fz) = Total(hourRows, l) + SumFunction(ms)
      BY <2>3, <2>9
    <3> QED
      BY <2>1, <2>5, <2>8, <2>10, <2>11, <2>12, <3>1, <3>2
  <2>14. Total(minuteRows, l) + Total(hourRows, l) + gone[l] + stats[l] = counted[l] + doubled[l] + previous[l]
    BY <1>1 DEF Balanced
  <2>15. Total(minuteRows', l) + Total(hourRows', l) + gone'[l] + stats'[l] = counted'[l] + doubled'[l] + previous'[l]
    BY <1>2, <2>13, <2>14
  <2> QED
    BY <2>15 DEF Balanced, Total
<1> QED
  BY <1>9, <1>10 DEF LoadInv

LEMMA LoadStart ==
  ASSUME LoadInit
  PROVE  LoadInv
<1>1. NoCounts \in Tallies /\ \A l \in Labels : NoCounts[l] = 0
  BY DEF NoCounts, Tallies
<1>2. LoadTypes
  BY <1>1, BoundsTyped, LoadMetricsAssumption DEF LoadInit, LoadTypes
<1>3. Below(previous, stats) /\ FlushFits
  BY <1>1 DEF LoadInit, Below, FlushFits
<1>4. ASSUME NEW l \in Labels PROVE Balanced(l)
  <2>1. ASSUME NEW K, IsFiniteSet(K) PROVE Total([k \in K |-> NoCounts], l) = 0
    <3> DEFINE rows == [k \in K |-> NoCounts]
               v == [k \in K |-> rows[k][l]]
    <3>1. Total(rows, l) = SumFunction(v)
      BY DEF Total
    <3>2. v \in [K -> Nat] /\ \A k \in K : v[k] = 0
      BY <1>1
    <3> HIDE DEF v
    <3> QED
      BY <2>1, <3>1, <3>2, SumOfNone
  <2>2. Total(minuteRows, l) = 0 /\ Total(hourRows, l) = 0
    BY <2>1, BoundsTyped DEF LoadInit
  <2>3. gone[l] = 0 /\ stats[l] = 0 /\ counted[l] = 0 /\ doubled[l] = 0 /\ previous[l] = 0
    BY <1>1 DEF LoadInit
  <2> QED
    BY <2>2, <2>3 DEF Balanced
<1> QED
  BY <1>2, <1>3, <1>4 DEF LoadInv

LEMMA LoadStep ==
  ASSUME LoadInv, [TelemetryNext]_telemetryVars
  PROVE  LoadInv'
<1> DEFINE same == UNCHANGED <<stats, previous, flush, minuteRows, hourRows, minute, instance, counted, doubled, gone>>
<1>1. ASSUME NEW x \in Exchanges, Finish(x) PROVE LoadInv'
  <2>1. x.label \in Labels
    BY TelemetryAssumption
  <2>2. Observe(x.label) \/ same
    BY <1>1 DEF Finish, loadVars
  <2> QED
    BY <2>1, <2>2, ObserveKeeps, LoadSame
<1>2. CASE FlushSteps
  <2>1. CASE BeginFlush
    BY <2>1, BeginFlushKeeps
  <2>2. CASE LastFlushIdle
    BY <2>2, LoadSame DEF LastFlushIdle
  <2>3. CASE Flush
    BY <2>3, FlushKeeps DEF Flush, Flushed
  <2>4. CASE \E fault \in Faults, landed \in BOOLEAN : FlushRaises(fault, landed)
    BY <2>4, UnansweredKeeps DEF FlushRaises
  <2> QED
    BY <1>2, <2>1, <2>2, <2>3, <2>4 DEF FlushSteps
<1>3. CASE RollUp
  BY <1>3, RollUpKeeps
<1>4. CASE NextMinute
  <2>1. minute' = minute + 1 /\ minute < Minutes /\ minute \in 0 .. Minutes /\ Minutes \in Nat
    BY <1>4, BoundsTyped DEF NextMinute, LoadInv, LoadTypes
  <2>2. minute' \in 0 .. Minutes
    BY <2>1
  <2>3. UNCHANGED <<stats, previous, flush, minuteRows, hourRows, instance, counted, doubled, gone>>
    BY <1>4 DEF NextMinute
  <2> QED
    BY <2>2, <2>3 DEF LoadInv, LoadTypes, FlushFits, Below, Balanced, Total
<1>5. CASE StopLoad
  <2>1. PICK landed \in BOOLEAN : StopFlusher(landed)
    BY <1>5 DEF StopLoad
  <2>2. CASE flush = Idle
    BY <2>1, <2>2, LoadSame DEF StopFlusher
  <2>3. CASE flush # Idle
    BY <2>1, <2>3, UnansweredKeeps DEF StopFlusher
  <2> QED
    BY <2>2, <2>3
<1>6. CASE Exit
  BY <1>6, ReplaceKeeps DEF Exit
<1>7. CASE Die
  BY <1>7, ReplaceKeeps DEF Die
<1>8. CASE DrainLines \/ DrainRaises \/ Boot \/ StopSink \/ Crash \/ Read \/ UNCHANGED telemetryVars
  <2>1. same
    BY <1>8 DEF DrainLines, DrainRaises, Boot, StartFlusher, StopSink, Crash, Read, telemetryVars, loadVars
  <2> QED
    BY <2>1, LoadSame
<1> QED
  BY <1>1, <1>2, <1>3, <1>4, <1>5, <1>6, <1>7, <1>8 DEF TelemetryNext, Daily

\* LoadMetrics' invariant CountsAddUp (accumulator.py, flusher.py, repository.py): the rows hold every exchange
\* counted and flushed, once, but for what was added again after a lost answer or ended with a process or the
\* retention.
THEOREM TheCountsAddUp == TelemetrySpec => []CountsAddUp
<1>1. TelemetryInit => LoadInv
  BY LoadStart DEF TelemetryInit
<1>2. LoadInv /\ [TelemetryNext]_telemetryVars => LoadInv'
  BY LoadStep
<1>3. LoadInv => CountsAddUp
  <2> SUFFICES ASSUME LoadInv, NEW l \in Labels
               PROVE  Total(minuteRows, l) + Total(hourRows, l) = counted[l] + doubled[l] - gone[l] - Deltas[l]
    BY DEF CountsAddUp
  <2>1. LoadTypes /\ Balanced(l)
    BY DEF LoadInv
  <2>2. /\ Total(minuteRows, l) \in Nat /\ Total(hourRows, l) \in Nat
        /\ gone[l] \in Nat /\ stats[l] \in Nat /\ counted[l] \in Nat /\ doubled[l] \in Nat /\ previous[l] \in Nat
    BY <2>1, BoundsTyped, TotalTyped DEF LoadTypes, Tallies
  <2>3. Deltas[l] = stats[l] - previous[l]
    BY DEF Deltas, Minus
  <2>4. \A m, h, g, s, c, d, p \in Nat : m + h + g + s = c + d + p => m + h = c + d - g - (s - p)
    OBVIOUS
  <2>5. Total(minuteRows, l) + Total(hourRows, l) + gone[l] + stats[l] = counted[l] + doubled[l] + previous[l]
    BY <2>1 DEF Balanced
  <2>6. Total(minuteRows, l) + Total(hourRows, l) = counted[l] + doubled[l] - gone[l] - (stats[l] - previous[l])
    BY <2>2, <2>4, <2>5
  <2> QED
    BY <2>3, <2>6
<1> QED
  BY <1>1, <1>2, <1>3, PTL DEF TelemetrySpec

-----------------------------------------------------------------------------
(* The pages of the Timeline.                                                *)
LEMMA Extremes ==
  ASSUME NEW S \in SUBSET Nat, IsFiniteSet(S), S # {}
  PROVE  /\ \E x \in S : \A y \in S : x >= y
         /\ \E x \in S : \A y \in S : x <= y
<1> DEFINE P(T) == (\E x \in T : \A y \in T : x >= y) /\ (\E x \in T : \A y \in T : x <= y)
           Bad == {T \in SUBSET S : T # {} /\ ~ P(T)}
<1>1. Bad = {}
  <2> SUFFICES ASSUME Bad # {} PROVE FALSE
    OBVIOUS
  <2>1. IsWellFoundedOn(StrictSubsetOrdering(S), SUBSET S)
    BY FS_StrictSubsetOrderingWellFounded, FS_FiniteSubsetsOfFinite
  <2>2. PICK T \in Bad : \A U \in Bad : ~ (<<U, T>> \in StrictSubsetOrdering(S))
    <3>1. Bad \subseteq SUBSET S
      OBVIOUS
    <3> HIDE DEF Bad
    <3> QED
      BY <2>1, <3>1, WFMin
  <2>3. T \in SUBSET S /\ T # {} /\ ~ P(T)
    OBVIOUS
  <2>4. PICK x \in T : TRUE
    BY <2>3
  <2> DEFINE U == T \ {x}
  <2>5. U \in SUBSET S /\ <<U, T>> \in StrictSubsetOrdering(S)
    BY <2>3, <2>4 DEF StrictSubsetOrdering
  <2>6. U = {} \/ P(U)
    BY <2>2, <2>5
  <2>7. \A y \in T : y = x \/ y \in U
    OBVIOUS
  <2>8. T \subseteq Nat /\ x \in Nat /\ U \subseteq T
    BY <2>3
  <2> HIDE DEF U
  <2>9. CASE U = {}
    <3>1. \A y \in T : y = x
      BY <2>7, <2>9
    <3>2. x >= x /\ x <= x
      BY <2>8
    <3> QED
      BY <2>3, <3>1, <3>2
  <2>10. CASE P(U)
    <3>1. PICK m \in U : \A y \in U : m >= y
      BY <2>10
    <3>2. PICK n \in U : \A y \in U : n <= y
      BY <2>10
    <3>3. \E z \in T : \A y \in T : z >= y
      <4>1. CASE x >= m
        <5>1. \A y \in T : x >= y
          BY <2>7, <2>8, <3>1, <4>1
        <5> QED
          BY <5>1
      <4>2. CASE m >= x
        <5>1. m \in T /\ \A y \in T : m >= y
          BY <2>7, <2>8, <3>1, <4>2
        <5> QED
          BY <5>1
      <4>3. m \in Nat
        BY <2>8
      <4> QED
        BY <2>8, <4>1, <4>2, <4>3
    <3>4. \E z \in T : \A y \in T : z <= y
      <4>1. CASE x <= n
        <5>1. \A y \in T : x <= y
          BY <2>7, <2>8, <3>2, <4>1
        <5> QED
          BY <5>1
      <4>2. CASE n <= x
        <5>1. n \in T /\ \A y \in T : n <= y
          BY <2>7, <2>8, <3>2, <4>2
        <5> QED
          BY <5>1
      <4>3. n \in Nat
        BY <2>8
      <4> QED
        BY <2>8, <4>1, <4>2, <4>3
    <3> QED
      BY <2>3, <3>3, <3>4
  <2> QED
    BY <2>6, <2>9, <2>10
<1>2. S \notin Bad
  BY <1>1
<1> QED
  BY <1>2

LEMMA SameSize == \A S : Screen!Cardinality(S) = Cardinality(S)
BY DEF Screen!Cardinality, Cardinality

LEMMA NewestFacts ==
  ASSUME NEW rows, IsFiniteSet(rows), NEW n \in Nat, NEW by, NEW s \in Screen!Newest(rows, n, by)
  PROVE  /\ s \subseteq rows /\ IsFiniteSet(s) /\ Cardinality(s) \in Nat /\ Cardinality(s) <= n
         /\ s # rows => Cardinality(s) = n
         /\ \A e \in s, f \in rows \ s : e[by] >= f[by]
<1>1. /\ s \in SUBSET rows /\ Cardinality(s) = (IF Cardinality(rows) < n THEN Cardinality(rows) ELSE n)
      /\ \A e \in s, f \in rows \ s : e[by] >= f[by]
  BY SameSize DEF Screen!Newest
<1>2. /\ IsFiniteSet(s) /\ Cardinality(s) <= Cardinality(rows)
      /\ Cardinality(rows) = Cardinality(s) => rows = s
  BY <1>1, FS_Subset
<1>3. Cardinality(s) \in Nat /\ Cardinality(rows) \in Nat
  BY <1>2, FS_CardinalityType
<1> QED
  BY <1>1, <1>2, <1>3

\* Entries of distinct times, and those of a source of distinct keys.
EntriesFit(E) ==
  /\ IsFiniteSet(E)
  /\ \A e \in E : e.ts \in Nat /\ e.key \in Nat /\ e.source \in {"logs", "business"}
  /\ \A e, f \in E : e.ts = f.ts => e = f
  /\ \A e, f \in E : e.source = f.source /\ e.key = f.key => e = f

\* An older row with a later key, of the same source.
KeptOut(E, e) == \E x \in E : x.source = e.source /\ e.key < x.key /\ x.ts < e.ts

(* A row not on the page is older than the page, or kept out by an older one *)
(* of a later key, or the page ends with a row of another source that took   *)
(* the place of its source's row at the cursor.                              *)
LEMMA PassedOver ==
  ASSUME NEW E, EntriesFit(E), NEW u \in Nat, NEW e \in E, e.ts < u,
         NEW A \in Screen!Newest({x \in E : x.source = e.source /\ x.ts <= u}, PageSize, "key"),
         NEW M \in SUBSET E, {x \in A : x.ts < u} \subseteq M,
         NEW page \in Screen!Newest(M, PageSize, "ts"), e \notin page
  PROVE  \/ \A f \in page : e.ts <= f.ts
         \/ KeptOut(E, e)
         \/ \E r \in E, f \in page :
              /\ r.ts = u /\ r.source = e.source /\ f.ts < e.ts /\ Cardinality(page) = PageSize
              /\ \A g \in page \ {f} : g.source = e.source /\ e.ts <= g.ts
<1> DEFINE own == {x \in E : x.source = e.source /\ x.ts <= u}
<1>1. PageSize \in Nat /\ PageSize > 0
  BY TelemetryAssumption
<1>2. /\ IsFiniteSet(E) /\ (\A x \in E : x.ts \in Nat /\ x.key \in Nat)
      /\ (\A x, y \in E : x.ts = y.ts => x = y)
      /\ (\A x, y \in E : x.source = y.source /\ x.key = y.key => x = y)
      /\ IsFiniteSet(own) /\ IsFiniteSet(M)
  BY FS_Subset DEF EntriesFit
<1>3. e \in own
  BY <1>2
<1>4. /\ A \subseteq own /\ IsFiniteSet(A) /\ Cardinality(A) \in Nat
      /\ A # own => Cardinality(A) = PageSize
      /\ \A x \in A, y \in own \ A : x.key >= y.key
  <2> HIDE DEF own
  <2> QED
    BY <1>1, <1>2, NewestFacts DEF own
<1>5. /\ page \subseteq M /\ IsFiniteSet(page) /\ Cardinality(page) \in Nat /\ Cardinality(page) <= PageSize
      /\ \A x \in page, y \in M \ page : x.ts >= y.ts
  BY <1>1, <1>2, NewestFacts
<1> SUFFICES ASSUME NEW f \in page, ~ (e.ts <= f.ts), ~ KeptOut(E, e)
             PROVE  \E r \in E :
                      /\ r.ts = u /\ r.source = e.source /\ Cardinality(page) = PageSize
                      /\ \A g \in page \ {f} : g.source = e.source /\ e.ts <= g.ts
  BY <1>2, <1>5
<1>6. f.ts < e.ts
  BY <1>2, <1>5
<1>7. e \notin A
  <2> SUFFICES ASSUME e \in A PROVE FALSE
    OBVIOUS
  <2>1. e \in M \ page
    OBVIOUS
  <2> QED
    BY <1>2, <1>5, <1>6, <2>1
<1>8. Cardinality(A) = PageSize /\ \A x \in A : x.ts >= e.ts /\ x \in E /\ x.source = e.source /\ x.ts <= u
  <2>1. Cardinality(A) = PageSize
    BY <1>3, <1>4, <1>7
  <2>2. ASSUME NEW x \in A PROVE x.ts >= e.ts /\ x \in E /\ x.source = e.source /\ x.ts <= u
    <3>1. x \in E /\ x.source = e.source /\ x.ts <= u /\ x # e /\ x.key >= e.key
      BY <1>3, <1>4, <1>7
    <3>2. e.key < x.key
      BY <1>2, <3>1
    <3>3. ~ (x.ts < e.ts)
      BY <3>1, <3>2 DEF KeptOut
    <3> QED
      BY <1>2, <3>1, <3>3
  <2> QED
    BY <2>1, <2>2
<1> HIDE DEF own
<1> DEFINE T == {x \in A : x.ts < u}
<1>9. T \subseteq page /\ f \notin T
  <2>1. \A x \in T : x.ts > f.ts
    BY <1>2, <1>5, <1>6, <1>8
  <2>2. ASSUME NEW x \in T, x \notin page PROVE FALSE
    BY <1>2, <1>5, <1>8, <2>1, <2>2
  <2> QED
    BY <1>2, <1>5, <2>1, <2>2
<1>10. /\ IsFiniteSet(T) /\ IsFiniteSet(T \cup {f}) /\ Cardinality(T \cup {f}) = Cardinality(T) + 1
       /\ Cardinality(T) \in Nat
  <2>1. IsFiniteSet(T)
    BY <1>4, FS_Subset
  <2> HIDE DEF T
  <2> QED
    BY <1>9, <2>1, FS_AddElement, FS_CardinalityType
<1>11. T \cup {f} \subseteq page /\ Cardinality(T \cup {f}) <= Cardinality(page)
       /\ (Cardinality(page) = Cardinality(T \cup {f}) => page = T \cup {f})
  <2>1. T \cup {f} \in SUBSET page
    BY <1>9
  <2> HIDE DEF T
  <2> QED
    BY <1>5, <2>1, FS_Subset
<1>12. PICK r \in A : r.ts = u
  <2> SUFFICES ASSUME \A r \in A : r.ts # u PROVE FALSE
    OBVIOUS
  <2>1. T = A
    BY <1>2, <1>8
  <2> HIDE DEF T
  <2> QED
    BY <1>1, <1>5, <1>8, <1>10, <1>11, <2>1
<1>13. Cardinality(A) = Cardinality(T) + 1
  <2>1. A = T \cup {r} /\ r \notin T
    BY <1>2, <1>8, <1>12
  <2> HIDE DEF T
  <2> QED
    BY <1>10, <2>1, FS_AddElement
<1>14. page = T \cup {f} /\ Cardinality(page) = PageSize
  <2> HIDE DEF T
  <2> QED
    BY <1>1, <1>5, <1>8, <1>10, <1>11, <1>13
<1>15. \A g \in page \ {f} : g.source = e.source /\ e.ts <= g.ts
  <2>1. \A g \in page \ {f} : g \in A
    BY <1>14
  <2>2. \A g \in A : g.ts \in Nat /\ e.ts \in Nat
    BY <1>2, <1>8
  <2> QED
    BY <1>8, <2>1, <2>2
<1> QED
  BY <1>8, <1>12, <1>14, <1>15

LEMMA ImageFinite ==
  ASSUME NEW S, IsFiniteSet(S), NEW f, f = [x \in S |-> f[x]]
  PROVE  IsFiniteSet({f[x] : x \in S})
<1> DEFINE T == {f[x] : x \in S}
<1>1. f \in Surjection(S, T)
  BY DEF Surjection
<1> HIDE DEF T
<1>2. IsFiniteSet(T)
  BY <1>1, FS_Surjection
<1> QED
  BY <1>2 DEF T

\* What any page holds, and what it leaves behind it.
LEMMA PageRead ==
  ASSUME EntriesFit(Entries), NEW flt, NEW u \in Nat, NEW page \in Screen!Pages(flt, u)
  PROVE  /\ page \subseteq Entries /\ IsFiniteSet(page) /\ Cardinality(page) \in Nat
         /\ \A f \in page : f.ts < u
         /\ flt.app = NoFilter =>
              \A e \in Entries \ page : Screen!Wants(flt, e.source) /\ e.ts < u =>
                \/ \A f \in page : e.ts <= f.ts
                \/ KeptOut(Entries, e)
                \/ \E r \in Entries, f \in page :
                     /\ r.ts = u /\ r.source = e.source /\ f.ts < e.ts /\ Cardinality(page) = PageSize
                     /\ \A g \in page \ {f} : g.source = e.source /\ e.ts <= g.ts
<1> DEFINE from(s) == {x \in Entries : x.source = s /\ x.ts <= u}
<1>1. PICK l \in Screen!Asked(flt, "logs", u), b \in Screen!Asked(flt, "business", u),
           i \in Screen!Asked(flt, "issue", u) :
        page \in Screen!Newest({e \in l \cup b \cup i : flt.app \in {e.app, NoFilter} /\ e.ts < u}, PageSize, "ts")
  BY DEF Screen!Pages, Screen!Older
<1> DEFINE M == {e \in l \cup b \cup i : flt.app \in {e.app, NoFilter} /\ e.ts < u}
<1>2. PageSize \in Nat /\ IsFiniteSet(Entries) /\ \A e \in Entries : e.source \in {"logs", "business"}
  BY TelemetryAssumption DEF EntriesFit
<1> DEFINE A(s) == Screen!Asked(flt, s, u)
<1>3. \A s : A(s) = IF Screen!Wants(flt, s) THEN Screen!Newest(from(s), PageSize, "key") ELSE {{}}
  BY DEF Screen!Asked
<1>4. \A s : \A x \in A(s) : x \subseteq Entries
  <2> SUFFICES ASSUME NEW s, NEW x \in A(s) PROVE x \subseteq Entries
    OBVIOUS
  <2>1. IsFiniteSet(from(s)) /\ from(s) \subseteq Entries
    BY <1>2, FS_Subset
  <2> HIDE DEF from, A
  <2>2. CASE Screen!Wants(flt, s)
    BY <1>2, <1>3, <2>1, <2>2, NewestFacts
  <2>3. CASE ~ Screen!Wants(flt, s)
    BY <1>3, <2>3
  <2> QED
    BY <2>2, <2>3
<1>5. M \in SUBSET Entries /\ IsFiniteSet(M)
  <2>1. M \in SUBSET Entries
    BY <1>4
  <2> HIDE DEF M
  <2> QED
    BY <1>2, <2>1, FS_Subset
<1>6. page \in Screen!Newest(M, PageSize, "ts")
  BY <1>1
<1>7. page \subseteq M /\ IsFiniteSet(page) /\ Cardinality(page) \in Nat
  <2> HIDE DEF M
  <2> QED
    BY <1>2, <1>5, <1>6, NewestFacts
<1>8. ASSUME flt.app = NoFilter, NEW e \in Entries \ page, Screen!Wants(flt, e.source), e.ts < u
      PROVE  \/ \A f \in page : e.ts <= f.ts
             \/ KeptOut(Entries, e)
             \/ \E r \in Entries, f \in page :
                  /\ r.ts = u /\ r.source = e.source /\ f.ts < e.ts /\ Cardinality(page) = PageSize
                  /\ \A g \in page \ {f} : g.source = e.source /\ e.ts <= g.ts
  <2>1. PICK x \in A(e.source) : x \subseteq l \cup b \cup i
    BY <1>1, <1>2
  <2>2. x \in Screen!Newest({y \in Entries : y.source = e.source /\ y.ts <= u}, PageSize, "key")
    <3>1. A(e.source) = Screen!Newest(from(e.source), PageSize, "key")
      BY <1>3, <1>8
    <3> QED
      BY <2>1, <3>1
  <2>3. {y \in x : y.ts < u} \subseteq M
    BY <1>8, <2>1
  <2> HIDE DEF M, A
  <2> QED
    BY <1>5, <1>6, <1>8, <2>2, <2>3, PassedOver
<1>9. \A f \in M : f.ts < u
  OBVIOUS
<1> HIDE DEF M
<1> QED
  BY <1>5, <1>7, <1>8, <1>9

\* Between two cursors of r, where its own source took every place.
Overtook(r, e) ==
  \E c, d \in r.cursors :
    /\ d < e.ts /\ e.ts < c
    /\ \A f \in r.shown : d < f.ts /\ f.ts <= c => f.source = e.source

ReadTypes(E, r) ==
  /\ r = [open |-> TRUE, flt |-> r.flt, base |-> r.base, shown |-> r.shown, more |-> r.more,
          cursors |-> r.cursors, repeated |-> FALSE]
  /\ r.base \subseteq E /\ r.shown \subseteq E /\ r.cursors \subseteq Nat /\ IsFiniteSet(r.cursors)
  /\ r.more \in BOOLEAN

\* Whatever stood when the first page was read is shown, tied, overtaken, kept out or further on.
ReadInv(E, r) ==
  \/ r = [open |-> FALSE]
  \/ /\ ReadTypes(E, r)
     /\ \A c \in r.cursors : \E f \in r.shown : f.ts = c
     /\ r.more => r.cursors # {} /\ \E u \in r.cursors : /\ \A c \in r.cursors : u <= c
                                                         /\ \A f \in r.shown : u <= f.ts
     /\ \A e \in r.base : Screen!Wants(r.flt, e.source)
     /\ r.flt.app = NoFilter =>
          \A e \in r.base : \/ e \in r.shown \/ e.ts \in r.cursors \/ Overtook(r, e) \/ KeptOut(E, e)
                            \/ \A f \in r.shown : e.ts <= f.ts

LEMMA LastOfPage ==
  ASSUME EntriesFit(Entries), NEW page \in SUBSET Entries, IsFiniteSet(page), page # {}
  PROVE  /\ Screen!Last(page) \in Nat
         /\ \E e \in page : e.ts = Screen!Last(page)
         /\ \A e \in page : Screen!Last(page) <= e.ts
<1> DEFINE times == {e.ts : e \in page}
           f == [e \in page |-> e.ts]
<1>1. IsFiniteSet({f[e] : e \in page})
  <2>1. f = [e \in page |-> f[e]]
    OBVIOUS
  <2> HIDE DEF f
  <2> QED
    BY <2>1, ImageFinite
<1>2. times = {f[e] : e \in page}
  OBVIOUS
<1>3. times \in SUBSET Nat /\ times # {} /\ IsFiniteSet(times)
  BY <1>1, <1>2 DEF EntriesFit
<1>4. \E t \in times : \A s \in times : t <= s
  <2> HIDE DEF times
  <2> QED
    BY <1>3, Extremes
<1>5. \E t \in times : \A e \in page : t <= e.ts
  BY <1>4
<1>6. Screen!Last(page) \in times /\ \A e \in page : Screen!Last(page) <= e.ts
  BY <1>5 DEF Screen!Last
<1> QED
  BY <1>3, <1>6

LEMMA FullPages ==
  ASSUME NEW page, IsFiniteSet(page)
  PROVE  Screen!OffersMore(page) => page # {} /\ Cardinality(page) = PageSize
<1>1. PageSize # 0
  BY TelemetryAssumption
<1>2. Screen!OffersMore(page) => Cardinality(page) = PageSize
  BY SameSize DEF Screen!OffersMore
<1> QED
  BY <1>1, <1>2, FS_EmptySet

LEMMA FirstPage ==
  ASSUME EntriesFit(Entries), NEW flt, Screen!OpenTimeline(flt)
  PROVE  ReadInv(Entries, reading')
<1>1. PICK page \in Screen!Pages(flt, Screen!Ever) :
        reading' = [open |-> TRUE, flt |-> flt, base |-> Screen!Matching(flt), shown |-> page,
                    more |-> Screen!OffersMore(page),
                    cursors |-> IF Screen!OffersMore(page) THEN {Screen!Last(page)} ELSE {}, repeated |-> FALSE]
  BY DEF Screen!OpenTimeline
<1>2. Screen!Ever \in Nat /\ \A e \in Entries : e.ts < Screen!Ever
  <2> DEFINE f == [e \in Entries |-> e.ts]
             S == {0} \cup {e.ts : e \in Entries}
  <2>1. f = [e \in Entries |-> f[e]] /\ {e.ts : e \in Entries} = {f[e] : e \in Entries}
    OBVIOUS
  <2>2. IsFiniteSet({f[e] : e \in Entries})
    <3> HIDE DEF f
    <3> QED
      BY <2>1, ImageFinite DEF EntriesFit
  <2>3. IsFiniteSet(S)
    <3>1. IsFiniteSet({e.ts : e \in Entries} \cup {0})
      BY <2>1, <2>2, FS_AddElement
    <3>2. S = {e.ts : e \in Entries} \cup {0}
      OBVIOUS
    <3> QED
      BY <3>1, <3>2
  <2>4. S \in SUBSET Nat /\ S # {} /\ \A e \in Entries : e.ts \in S
    BY DEF EntriesFit
  <2>5. Screen!Ever = 1 + Screen!Max(S)
    BY DEF Screen!Ever
  <2> HIDE DEF S
  <2>6. \E x \in S : \A y \in S : x >= y
    BY <2>3, <2>4, Extremes
  <2>7. Screen!Max(S) \in S /\ \A y \in S : Screen!Max(S) >= y
    BY <2>6 DEF Screen!Max
  <2> DEFINE m == Screen!Max(S)
  <2>8. m \in Nat /\ Screen!Ever = 1 + m /\ \A e \in Entries : e.ts \in Nat /\ m >= e.ts
    BY <2>4, <2>5, <2>7
  <2> HIDE DEF m
  <2>9. \A x, y \in Nat : 1 + y \in Nat /\ (y >= x => x < 1 + y)
    OBVIOUS
  <2> QED
    BY <2>8, <2>9
<1> DEFINE r == reading'
           more == Screen!OffersMore(page)
           d == Screen!Last(page)
<1>3. /\ page \subseteq Entries /\ IsFiniteSet(page)
      /\ flt.app = NoFilter =>
           \A e \in Entries \ page : Screen!Wants(flt, e.source) =>
             KeptOut(Entries, e) \/ \A f \in page : e.ts <= f.ts
  <2>1. \A x \in Entries : x.ts # Screen!Ever
    BY <1>2 DEF EntriesFit
  <2> QED
    BY <1>1, <1>2, <2>1, PageRead
<1>4. more => /\ d \in Nat /\ (\E e \in page : e.ts = d) /\ \A e \in page : d <= e.ts
  BY <1>3, FullPages, LastOfPage
<1>5. /\ Screen!Matching(flt) \subseteq Entries
      /\ \A e \in Screen!Matching(flt) : Screen!Wants(flt, e.source)
  BY DEF Screen!Matching
<1>6. /\ r.open = TRUE /\ r.flt = flt /\ r.base = Screen!Matching(flt) /\ r.shown = page /\ r.more = more
      /\ r.cursors = (IF more THEN {d} ELSE {}) /\ r.repeated = FALSE
      /\ r = [open |-> TRUE, flt |-> r.flt, base |-> r.base, shown |-> r.shown, more |-> r.more,
              cursors |-> r.cursors, repeated |-> FALSE]
  BY <1>1
<1>7. more \in BOOLEAN
  BY DEF Screen!OffersMore
<1> HIDE DEF more, d, r
<1>8. ReadTypes(Entries, r)
  <2>1. IsFiniteSet(r.cursors) /\ r.cursors \subseteq Nat
    <3>1. CASE more
      <4>1. r.cursors = {d} /\ d \in Nat
        BY <1>4, <1>6, <3>1
      <4>2. IsFiniteSet({d})
        BY FS_Singleton
      <4> QED
        BY <4>1, <4>2
    <3>2. CASE ~ more
      BY <1>6, <3>2, FS_EmptySet
    <3> QED
      BY <3>1, <3>2
  <2> QED
    BY <1>3, <1>5, <1>6, <1>7, <2>1 DEF ReadTypes
<1>9. \A c \in r.cursors : \E f \in r.shown : f.ts = c
  BY <1>4, <1>6
<1>10. r.more => r.cursors # {} /\ \E u \in r.cursors : /\ \A c \in r.cursors : u <= c
                                                         /\ \A f \in r.shown : u <= f.ts
  BY <1>4, <1>6
<1>11. r.flt.app = NoFilter =>
         \A e \in r.base : e \in r.shown \/ KeptOut(Entries, e) \/ \A f \in r.shown : e.ts <= f.ts
  BY <1>3, <1>5, <1>6
<1> QED
  BY <1>5, <1>6, <1>8, <1>9, <1>10, <1>11 DEF ReadInv, r

LEMMA LaterPage ==
  ASSUME EntriesFit(Entries), ReadInv(Entries, reading), Screen!LoadOlder
  PROVE  ReadInv(Entries, reading')
<1> DEFINE r == reading
           s == reading'
<1>1. r.open /\ r.more
  BY DEF Screen!LoadOlder
<1>2. /\ ReadTypes(Entries, r)
      /\ \A c \in r.cursors : \E f \in r.shown : f.ts = c
      /\ \A e \in r.base : Screen!Wants(r.flt, e.source)
      /\ r.flt.app = NoFilter =>
           \A e \in r.base : \/ e \in r.shown \/ e.ts \in r.cursors \/ Overtook(r, e) \/ KeptOut(Entries, e)
                             \/ \A f \in r.shown : e.ts <= f.ts
  BY <1>1 DEF ReadInv
<1>3. PICK u \in r.cursors : (\A c \in r.cursors : u <= c) /\ \A f \in r.shown : u <= f.ts
  BY <1>1 DEF ReadInv
<1>4. PICK page \in Screen!Pages(r.flt, u) :
        s = [r EXCEPT !.shown = @ \cup page, !.more = Screen!OffersMore(page),
                      !.cursors = IF Screen!OffersMore(page) THEN @ \cup {Screen!Last(page)} ELSE @,
                      !.repeated = @ \/ page \cap r.shown # {}]
  <2> DEFINE t == CHOOSE t \in r.cursors : \A c \in r.cursors : t <= c
  <2>1. t \in r.cursors /\ \A c \in r.cursors : t <= c
    BY <1>3
  <2>2. PICK page \in Screen!Pages(r.flt, t) :
          s = [r EXCEPT !.shown = @ \cup page, !.more = Screen!OffersMore(page),
                        !.cursors = IF Screen!OffersMore(page) THEN @ \cup {Screen!Last(page)} ELSE @,
                        !.repeated = @ \/ page \cap r.shown # {}]
    BY DEF Screen!LoadOlder
  <2> HIDE DEF t
  <2>3. t = u
    <3>1. t \in Nat /\ u \in Nat /\ t <= u /\ u <= t
      BY <1>2, <1>3, <2>1 DEF ReadTypes
    <3> QED
      BY <3>1
  <2> QED
    BY <2>2, <2>3
<1> DEFINE more == Screen!OffersMore(page)
           d == Screen!Last(page)
<1>5. /\ u \in Nat /\ \A c \in r.cursors : c \in Nat
      /\ \A e \in Entries : e.ts \in Nat
      /\ \A e, f \in Entries : e.ts = f.ts => e = f
      /\ r.base \subseteq Entries /\ r.shown \subseteq Entries
  BY <1>2, <1>3 DEF ReadTypes, EntriesFit
<1>6. /\ page \subseteq Entries /\ IsFiniteSet(page) /\ \A f \in page : f.ts < u
      /\ r.flt.app = NoFilter =>
           \A e \in Entries \ page : Screen!Wants(r.flt, e.source) /\ e.ts < u =>
             \/ \A f \in page : e.ts <= f.ts
             \/ KeptOut(Entries, e)
             \/ \E x \in Entries, f \in page :
                  /\ x.ts = u /\ x.source = e.source /\ f.ts < e.ts /\ Cardinality(page) = PageSize
                  /\ \A g \in page \ {f} : g.source = e.source /\ e.ts <= g.ts
  BY <1>5, PageRead
<1>7. page \cap r.shown = {}
  <2> SUFFICES ASSUME NEW f \in page, f \in r.shown PROVE FALSE
    OBVIOUS
  <2>1. f.ts \in Nat /\ f.ts < u /\ u <= f.ts
    BY <1>3, <1>5, <1>6
  <2> QED
    BY <1>5, <2>1
<1>8. more => d \in Nat /\ d < u /\ (\E f \in page : f.ts = d) /\ \A f \in page : d <= f.ts
  <2> SUFFICES ASSUME more PROVE d \in Nat /\ d < u /\ (\E f \in page : f.ts = d) /\ \A f \in page : d <= f.ts
    OBVIOUS
  <2>1. page # {}
    BY <1>6, FullPages
  <2>2. d \in Nat /\ (\E f \in page : f.ts = d) /\ \A f \in page : d <= f.ts
    BY <1>6, <2>1, LastOfPage
  <2> HIDE DEF d
  <2> QED
    BY <1>6, <2>2
<1>9. /\ s = [open |-> TRUE, flt |-> s.flt, base |-> s.base, shown |-> s.shown, more |-> s.more,
              cursors |-> s.cursors, repeated |-> FALSE]
      /\ s.flt = r.flt /\ s.base = r.base /\ s.shown = r.shown \cup page /\ s.more = more
      /\ s.cursors = IF more THEN r.cursors \cup {d} ELSE r.cursors
  <2>1. r = [open |-> TRUE, flt |-> r.flt, base |-> r.base, shown |-> r.shown, more |-> r.more,
             cursors |-> r.cursors, repeated |-> FALSE]
    BY <1>2 DEF ReadTypes
  <2>2. s = [r EXCEPT !.shown = @ \cup page, !.more = more,
                      !.cursors = IF more THEN @ \cup {d} ELSE @, !.repeated = @ \/ page \cap r.shown # {}]
    BY <1>4
  <2> DEFINE again == page \cap r.shown # {}
  <2>3. again = FALSE /\ r.repeated = FALSE /\ r.open = TRUE
    BY <1>7, <2>1
  <2>4. s = [r EXCEPT !.shown = r.shown \cup page, !.more = more,
                      !.cursors = IF more THEN r.cursors \cup {d} ELSE r.cursors, !.repeated = r.repeated \/ again]
    BY <2>2
  <2> HIDE DEF more, d, r, s, again
  <2>5. s = [open |-> TRUE, flt |-> r.flt, base |-> r.base, shown |-> r.shown \cup page, more |-> more,
             cursors |-> IF more THEN r.cursors \cup {d} ELSE r.cursors, repeated |-> FALSE]
    BY <2>1, <2>3, <2>4
  <2> QED
    BY <2>5
<1>10. more \in BOOLEAN /\ IsFiniteSet(r.cursors)
  BY <1>2 DEF Screen!OffersMore, ReadTypes
<1> HIDE DEF more, d, r, s
<1>11. ReadTypes(Entries, s)
  <2>1. IsFiniteSet(s.cursors) /\ s.cursors \subseteq Nat
    <3>1. IsFiniteSet(r.cursors \cup {d})
      BY <1>10, FS_AddElement
    <3> QED
      BY <1>5, <1>8, <1>9, <1>10, <3>1
  <2>2. s.base \subseteq Entries /\ s.shown \subseteq Entries /\ s.more \in BOOLEAN
    BY <1>5, <1>6, <1>9, <1>10
  <2> QED
    BY <1>9, <2>1, <2>2 DEF ReadTypes
<1>12. \A c \in s.cursors : \E f \in s.shown : f.ts = c
  BY <1>2, <1>8, <1>9
<1>13. s.more => s.cursors # {} /\ \E t \in s.cursors : /\ \A c \in s.cursors : t <= c
                                                         /\ \A f \in s.shown : t <= f.ts
  <2> SUFFICES ASSUME more PROVE d \in s.cursors /\ (\A c \in s.cursors : d <= c) /\ \A f \in s.shown : d <= f.ts
    BY <1>9
  <2>1. d \in Nat /\ d < u /\ s.cursors = r.cursors \cup {d} /\ s.shown = r.shown \cup page
    BY <1>8, <1>9
  <2>2. \A c \in r.cursors : d <= c
    BY <1>3, <1>5, <2>1
  <2>3. \A f \in r.shown : d <= f.ts
    BY <1>3, <1>5, <2>1
  <2> QED
    BY <1>8, <2>1, <2>2, <2>3
<1>14. ASSUME s.flt.app = NoFilter, NEW e \in s.base
       PROVE  \/ e \in s.shown \/ e.ts \in s.cursors \/ Overtook(s, e) \/ KeptOut(Entries, e)
              \/ \A f \in s.shown : e.ts <= f.ts
  <2>1. e \in r.base /\ e \in Entries /\ e.ts \in Nat /\ Screen!Wants(r.flt, e.source) /\ r.flt.app = NoFilter
    BY <1>2, <1>5, <1>9, <1>14
  <2>2. r.shown \subseteq s.shown /\ r.cursors \subseteq s.cursors /\ s.shown = r.shown \cup page
    BY <1>9
  <2>3. CASE Overtook(r, e)
    <3>1. PICK c \in r.cursors, b \in r.cursors :
            /\ b < e.ts /\ e.ts < c
            /\ \A f \in r.shown : b < f.ts /\ f.ts <= c => f.source = e.source
      BY <2>3 DEF Overtook
    <3>2. \A f \in page : ~ (b < f.ts)
      <4>1. u <= b /\ b \in Nat /\ u \in Nat
        BY <1>3, <1>5
      <4>2. \A x \in Nat : x < u => ~ (b < x)
        BY <4>1
      <4> QED
        BY <1>5, <1>6, <4>2
    <3>3. Overtook(s, e)
      BY <2>2, <3>1, <3>2 DEF Overtook
    <3> QED
      BY <3>3
  <2>4. CASE e \notin page /\ e.ts \notin r.cursors /\ \A f \in r.shown : e.ts <= f.ts
    <3>1. PICK top \in r.shown : top.ts = u
      BY <1>2
    <3>2. e.ts < u
      <4>1. e.ts <= u /\ e.ts # u
        BY <2>4, <3>1
      <4> QED
        BY <1>5, <2>1, <4>1
    <3>3. CASE \A f \in page : e.ts <= f.ts
      BY <2>2, <2>4, <3>3
    <3>4. CASE \E x \in Entries, f \in page :
                 /\ x.ts = u /\ x.source = e.source /\ f.ts < e.ts /\ Cardinality(page) = PageSize
                 /\ \A g \in page \ {f} : g.source = e.source /\ e.ts <= g.ts
      <4>1. PICK x \in Entries, f \in page :
                 /\ x.ts = u /\ x.source = e.source /\ f.ts < e.ts /\ Cardinality(page) = PageSize
                 /\ \A g \in page \ {f} : g.source = e.source /\ e.ts <= g.ts
        BY <3>4
      <4>2. more
        BY <4>1, SameSize DEF more, Screen!OffersMore
      <4>3. f.ts \in Nat /\ d \in Nat /\ d <= f.ts /\ d < e.ts
        <5>1. f.ts \in Nat /\ d \in Nat /\ d <= f.ts
          BY <1>5, <1>6, <1>8, <4>2
        <5> QED
          BY <2>1, <4>1, <5>1
      <4>4. f.ts = d
        <5>1. PICK g \in page : g.ts = d
          BY <1>8, <4>2
        <5>2. g = f \/ e.ts <= d
          BY <4>1, <5>1
        <5>3. ~ (e.ts <= d)
          BY <2>1, <4>3
        <5> QED
          BY <5>1, <5>2, <5>3
      <4>5. ASSUME NEW g \in s.shown, d < g.ts, g.ts <= u PROVE g.source = e.source
        <5>1. CASE g \in r.shown
          <6>1. g.ts \in Nat /\ u <= g.ts /\ g \in Entries
            BY <1>3, <1>5, <5>1
          <6>2. g.ts = u
            BY <1>5, <4>5, <6>1
          <6>3. g = x
            BY <1>5, <4>1, <6>1, <6>2
          <6> QED
            BY <4>1, <6>3
        <5>2. CASE g \in page
          <6>1. g # f
            BY <4>3, <4>4, <4>5
          <6> QED
            BY <4>1, <5>2, <6>1
        <5> QED
          BY <2>2, <4>5, <5>1, <5>2
      <4>6. u \in s.cursors /\ d \in s.cursors
        BY <1>9, <4>2
      <4> QED
        BY <3>2, <4>3, <4>5, <4>6 DEF Overtook
    <3> QED
      BY <1>6, <2>1, <2>4, <3>2, <3>3, <3>4
  <2> QED
    BY <1>2, <2>1, <2>2, <2>3, <2>4
<1>15. \A e \in s.base : Screen!Wants(s.flt, e.source)
  BY <1>2, <1>9
<1> QED
  BY <1>11, <1>12, <1>13, <1>14, <1>15 DEF ReadInv, s

LEMMA ReadOn ==
  ASSUME NEW E, NEW F, E \subseteq F, NEW r, ReadInv(E, r)
  PROVE  ReadInv(F, r)
BY DEF ReadInv, ReadTypes, KeptOut

LEMMA ReadKeeps ==
  ASSUME EntriesFit(Entries), ReadInv(Entries, reading), Read
  PROVE  ReadInv(Entries, reading')
<1>1. CASE Screen!CloseTimeline
  BY <1>1 DEF Screen!CloseTimeline, Screen!Closed, ReadInv
<1> QED
  BY <1>1, FirstPage, LaterPage DEF Read

LEMMA ReadMeans ==
  ASSUME ReadInv(Entries, reading)
  PROVE  PagesInOrder
<1> SUFFICES ASSUME reading.open PROVE PagesInOrder
  BY DEF PagesInOrder, Screen!PagesInOrder
<1>1. /\ ReadTypes(Entries, reading)
      /\ reading.flt.app = NoFilter =>
           \A e \in reading.base :
             \/ e \in reading.shown \/ e.ts \in reading.cursors
             \/ Overtook(reading, e) \/ KeptOut(Entries, e)
             \/ \A f \in reading.shown : e.ts <= f.ts
  BY DEF ReadInv
<1>2. ~ reading.repeated
  BY <1>1 DEF ReadTypes
<1>3. \A e : (Overtook(reading, e) <=> Screen!Overtaken(e)) /\ (KeptOut(Entries, e) => Screen!OutOfTurn(e))
  BY DEF Overtook, Screen!Overtaken, KeptOut, Screen!OutOfTurn
<1> QED
  BY <1>1, <1>2, <1>3 DEF PagesInOrder, Screen!PagesInOrder, Screen!Tied

\* Lines have even times, facts odd ones, of their own, and ids of their own.
FactsFit ==
  /\ IsFiniteSet(facts)
  /\ \A f \in facts : f.key \in Nat /\ \E k \in Nat : f.ts = 2 * k + 1
  /\ \A f, g \in facts : f.ts = g.ts \/ f.key = g.key => f = g

LEMMA TimesApart ==
  ASSUME LinesInv, FactsFit
  PROVE  EntriesFit(Entries)
<1> DEFINE row == [l \in stored |-> [ts |-> 4 * l.at, key |-> 4 * l.at, source |-> "logs",
                                    app |-> IF l.what \in Reports THEN "shared" ELSE "web"]]
           fact == [f \in facts |-> [ts |-> f.ts, key |-> f.key, source |-> "business", app |-> "web"]]
           rows == {row[l] : l \in stored}
           spread == {fact[f] : f \in facts}
<1>1. /\ stored \in SUBSET Line /\ IsFiniteSet(stored)
      /\ \A l, m \in stored : l.at = m.at => l = m
  BY DEF LinesInv, SinkInv, Kept, AllLines
<1>2. IsFiniteSet(rows)
  <2>1. row = [l \in stored |-> row[l]]
    OBVIOUS
  <2> HIDE DEF row
  <2> QED
    BY <1>1, <2>1, ImageFinite
<1>3. IsFiniteSet(spread)
  <2>1. fact = [f \in facts |-> fact[f]]
    OBVIOUS
  <2> HIDE DEF fact
  <2> QED
    BY <2>1, ImageFinite DEF FactsFit
<1>4. Entries = rows \cup spread
  BY DEF Entries
<1>5. ASSUME NEW e \in rows
      PROVE  e.source = "logs" /\ \E l \in stored : e = row[l] /\ l.at \in Nat /\ e.ts = 4 * l.at /\ e.key = 4 * l.at
  BY <1>1 DEF Line
<1>6. ASSUME NEW e \in spread
      PROVE  /\ e.source = "business"
             /\ \E f \in facts, k \in Nat :
                  e = fact[f] /\ e.ts = f.ts /\ f.ts = 2 * k + 1 /\ e.key = f.key /\ f.key \in Nat
  BY DEF FactsFit
<1>7. IsFiniteSet(Entries)
  <2> HIDE DEF rows, spread
  <2> QED
    BY <1>2, <1>3, <1>4, FS_Union
<1> HIDE DEF rows, spread, row, fact
<1>8. \A i, j \in Nat : 4 * i \in Nat /\ 2 * j + 1 \in Nat /\ 4 * i # 2 * j + 1 /\ (4 * i = 4 * j => i = j)
  OBVIOUS
<1>9. \A e \in Entries : e.ts \in Nat /\ e.key \in Nat /\ e.source \in {"logs", "business"}
  BY <1>4, <1>5, <1>6, <1>8
<1>10. ASSUME NEW e \in Entries, NEW f \in Entries, e.ts = f.ts PROVE e = f
  <2>1. CASE e \in rows /\ f \in rows
    BY <1>1, <1>5, <1>8, <1>10, <2>1
  <2>2. CASE e \in spread /\ f \in spread
    BY <1>6, <1>10, <2>2 DEF FactsFit
  <2>3. CASE e \in rows /\ f \in spread
    BY <1>5, <1>6, <1>8, <1>10, <2>3
  <2>4. CASE e \in spread /\ f \in rows
    BY <1>5, <1>6, <1>8, <1>10, <2>4
  <2> QED
    BY <1>4, <2>1, <2>2, <2>3, <2>4
<1>11. ASSUME NEW e \in Entries, NEW f \in Entries, e.source = f.source, e.key = f.key PROVE e = f
  <2>1. CASE e \in rows /\ f \in rows
    BY <1>1, <1>5, <1>8, <1>11, <2>1
  <2>2. CASE e \in spread /\ f \in spread
    BY <1>6, <1>11, <2>2 DEF FactsFit
  <2> QED
    BY <1>4, <1>5, <1>6, <1>11, <2>1, <2>2
<1> QED
  BY <1>7, <1>9, <1>10, <1>11 DEF EntriesFit

LEMMA FactsKeep ==
  ASSUME LinesInv, FactsFit, [TelemetryNext]_telemetryVars
  PROVE  FactsFit' /\ facts \subseteq facts'
<1>1. ASSUME NEW x \in Exchanges, Finish(x) PROVE FactsFit' /\ facts \subseteq facts'
  <2>1. buffer.said \in Nat
    BY DEF LinesInv, SinkInv, BooksInv, BufferInv, BufferTypes
  <2>2. facts' = facts \/ \E f \in Committed : facts' = facts \cup {f}
    BY <1>1 DEF Finish
  <2>3. ASSUME NEW f \in Committed, facts' = facts \cup {f} PROVE FactsFit' /\ facts \subseteq facts'
    <3>1. IsFiniteSet(facts')
      BY <2>3, FS_AddElement DEF FactsFit
    <3>2. /\ f.key \in Nat /\ \E k \in Nat : f.ts = 2 * k + 1
          /\ \A g \in facts : f.ts # g.ts /\ f.key # g.key
      BY <2>1 DEF Committed
    <3> QED
      BY <2>3, <3>1, <3>2 DEF FactsFit
  <2> QED
    BY <2>2, <2>3 DEF FactsFit
<1>2. ASSUME ~ \E x \in Exchanges : Finish(x) PROVE facts' = facts
  BY <1>2 DEF TelemetryNext, DrainLines, DrainRaises, FlushSteps, Daily, Boot, StopSink, StopLoad, Exit, Crash, Die,
               Read, Rest, telemetryVars
<1> QED
  BY <1>1, <1>2 DEF FactsFit

\* No line leaves the table.
LEMMA LinesStay ==
  ASSUME [TelemetryNext]_telemetryVars
  PROVE  stored \subseteq stored'
<1>1. CASE DrainLines
  BY <1>1 DEF DrainLines, TickIdle, TakeLines, AppendLines, WriteFiles, AppendRaises
<1>2. CASE DrainRaises \/ FlushSteps \/ Daily \/ Read \/ UNCHANGED telemetryVars
  BY <1>2 DEF DrainRaises, FilesRaise, FlushSteps, Daily, Read, telemetryVars, sinkVars
<1>3. CASE Boot \/ StopSink \/ StopLoad \/ Exit \/ Crash \/ Die
  BY <1>3 DEF Boot, StartDrain, StopSink, StopDrain, StopLoad, Exit, Forget, Crash, CrashFlush, Die, sinkVars
<1>4. ASSUME NEW x \in Exchanges, Finish(x) PROVE stored' = stored
  BY <1>4 DEF Finish
<1> QED
  BY <1>1, <1>2, <1>3, <1>4 DEF TelemetryNext

\* Telemetry's invariant PagesInOrder (infra/repository.py of apps/timeline): page after page, while lines
\* go on arriving, no row is shown twice, and none that stood as the first was read is passed over, but
\* at the time of a cursor, where the last row of a page overtook it, or where its source counts an
\* older row, of a transaction that overlapped its own, as later.  A line never is for that reason: its
\* time is its order.
THEOREM PagesStayInOrder == TelemetrySpec => []PagesInOrder
<1> DEFINE Inv == LinesInv /\ FactsFit /\ ReadInv(Entries, reading)
<1>1. TelemetryInit => Inv
  <2> SUFFICES ASSUME TelemetryInit PROVE Inv
    OBVIOUS
  <2>1. facts = {} /\ reading = [open |-> FALSE]
    BY DEF TelemetryInit, Screen!TimelineInit, Screen!Closed
  <2> QED
    BY <2>1, LinesStart, FS_EmptySet DEF FactsFit, ReadInv
<1>2. Inv /\ [TelemetryNext]_telemetryVars => Inv'
  <2> SUFFICES ASSUME Inv, [TelemetryNext]_telemetryVars PROVE Inv'
    OBVIOUS
  <2>1. LinesInv' /\ FactsFit' /\ stored \subseteq stored' /\ facts \subseteq facts'
    BY LinesStep, FactsKeep, LinesStay
  <2>2. Entries \subseteq Entries'
    BY <2>1 DEF Entries
  <2>3. ReadInv(Entries, reading')
    <3>1. CASE Read
      BY <3>1, TimesApart, ReadKeeps
    <3>2. CASE ~ Read
      <4>1. reading' = reading
        BY <3>2 DEF TelemetryNext, Finish, DrainLines, DrainRaises, FlushSteps, Daily, Boot, StopSink, StopLoad,
                    Exit, Crash, Die, Rest, telemetryVars
      <4> QED
        BY <4>1
    <3> QED
      BY <3>1, <3>2
  <2>4. ReadInv(Entries', reading')
    BY <2>2, <2>3, ReadOn
  <2> QED
    BY <2>1, <2>4
<1>3. Inv => PagesInOrder
  BY ReadMeans
<1> HIDE DEF Inv
<1> QED
  BY <1>1, <1>2, <1>3, PTL DEF TelemetrySpec
===============================================================================
