----------------------------- MODULE IssueTracker -----------------------------
(* The issues of apps/issues: rows of the database that several processes   *)
(* and administrators write at once.  A write is two steps, the SELECT that *)
(* loads the row and the commit of what was computed from it; between the   *)
(* two anybody may commit.  The fact a write emits is in its transaction.   *)
EXTENDS Naturals

CONSTANTS
  Fingerprint,  \* issues.fingerprint, unique
  Admin,        \* administrators, each with one triage request at a time
  Release,      \* app_version of the processes
  NoRelease     \* resolved_in_release is null

ASSUME ReleaseAssumption == NoRelease \notin Release

VARIABLES
  issue,        \* issue[f]: the committed row, Absent before the first occurrence
  told,         \* told[f]: the status the latest fact about f gives
  since,        \* since[f]: releases that raised f since the latest verdict
  echoed,       \* issues whose latest triage fact came from a write that wrote nothing
  verdict,      \* verdict[a]: the triage request a has under way, or NoVerdict
  triages       \* bound: how many are still to come

issues == <<issue, told, since, echoed>>
trackerVars == <<issues, verdict, triages>>

Lifecycle == {"new", "unresolved", "resolved", "ignored", "regressed"}
Triageable == {"unresolved", "resolved", "ignored"}
Absent == [status |-> "absent", resolvedIn |-> NoRelease, count |-> 0, version |-> 0]
NoVerdict == [on |-> FALSE]

TrackerInit ==
  /\ issue = [f \in Fingerprint |-> Absent]
  /\ told = [f \in Fingerprint |-> "absent"]
  /\ since = [f \in Fingerprint |-> {}]
  /\ echoed = {}
  /\ verdict = [a \in Admin |-> NoVerdict]

(* version_id_col: UPDATE ... WHERE version = the one loaded; for a row the *)
(* SELECT did not find, the unique fingerprint.                             *)
AnyRow(f, row) == TRUE                      \* mutant
Unmoved(f, row) == issue[f].version = row.version

-----------------------------------------------------------------------------
(* The tracker: one more occurrence of f.                                   *)

RegressesOnItsFix(row, release) ==         \* mutant: the comparison inverted
  IF row.status = "resolved" /\ release = row.resolvedIn THEN "regressed" ELSE row.status
StatusAfter(row, release) ==
  IF row.status = "resolved" /\ release # row.resolvedIn THEN "regressed" ELSE row.status

SeeOccurrence(row, release) ==
  IF row = Absent
  THEN [status |-> "new", resolvedIn |-> NoRelease, count |-> 1, version |-> 1]
  ELSE [row EXCEPT !.status = StatusAfter(row, release), !.count = @ + 1, !.version = @ + 1]

(* IssueOpened or IssueRegressed, or no fact when the status stays.         *)
Track(f, row, release) ==
  /\ issue' = [issue EXCEPT ![f] = SeeOccurrence(row, release)]
  /\ since' = [since EXCEPT ![f] = @ \cup {release}]
  /\ IF SeeOccurrence(row, release).status = row.status
     THEN UNCHANGED <<told, echoed>>
     ELSE /\ told' = [told EXCEPT ![f] = SeeOccurrence(row, release).status]
          /\ echoed' = echoed \ {f}

-----------------------------------------------------------------------------
(* Triage.                                                                  *)

SetStatus(row, status, release) ==
  [row EXCEPT !.status = status,
              !.resolvedIn = IF status = "resolved" THEN release ELSE NoRelease]

LoadIssue(a) ==
  \E f \in Fingerprint, status \in Triageable, release \in Release :
    /\ verdict[a] = NoVerdict
    /\ triages > 0
    /\ issue[f] # Absent
    /\ verdict' = [verdict EXCEPT ![a] =
         [on |-> TRUE, f |-> f, row |-> issue[f], status |-> status, release |-> release]]
    /\ triages' = triages - 1
    /\ UNCHANGED issues

(* A verdict that gives the row what it held when it was loaded: no UPDATE, *)
(* no version check, and the fact all the same.                             *)
Repeats(v) == SetStatus(v.row, v.status, v.release) = v.row

SetIssueStatus(a) ==
  LET v == verdict[a] IN
    /\ v.on
    /\ told' = [told EXCEPT ![v.f] = v.status]
    /\ verdict' = [verdict EXCEPT ![a] = NoVerdict]
    /\ UNCHANGED triages
    /\ \/ /\ Repeats(v)
          /\ echoed' = echoed \cup {v.f}
          /\ UNCHANGED <<issue, since>>
       \/ /\ ~Repeats(v) /\ Unmoved(v.f, v.row)
          /\ issue' = [issue EXCEPT ![v.f] =
               [SetStatus(v.row, v.status, v.release) EXCEPT !.version = @ + 1]]
          /\ since' = [since EXCEPT ![v.f] = {}]
          /\ echoed' = echoed \ {v.f}

(* The row has moved (StaleDataError), or the request fails otherwise.      *)
TriageFails(a) ==
  /\ verdict[a].on
  /\ verdict' = [verdict EXCEPT ![a] = NoVerdict]
  /\ UNCHANGED <<issues, triages>>

Triage == \E a \in Admin : LoadIssue(a) \/ SetIssueStatus(a) \/ TriageFails(a)

-----------------------------------------------------------------------------

Rows == [status : Lifecycle \cup {"absent"}, resolvedIn : Release \cup {NoRelease},
         count : Nat, version : Nat]

Verdicts == [on : {TRUE}, f : Fingerprint, row : Rows, status : Triageable, release : Release]

TrackerTypeOK ==
  /\ issue \in [Fingerprint -> Rows]
  /\ told \in [Fingerprint -> Lifecycle \cup {"absent"}]
  /\ since \in [Fingerprint -> SUBSET Release]
  /\ echoed \subseteq Fingerprint
  /\ verdict \in [Admin -> Verdicts \cup {NoVerdict}]
  /\ triages \in Nat

(* A resolved issue has been quiet: since the verdict, only the release     *)
(* that fixes it has raised it, whoever folded while the verdict was under  *)
(* way.                                                                     *)
ResolvedMeansQuiet ==
  \A f \in Fingerprint : issue[f].status = "resolved" => since[f] \subseteq {issue[f].resolvedIn}

(* What the journal last told of an issue (opened, regressed, triaged) is   *)
(* its status, unless the last verdict repeated what its request had read.  *)
JournalTellsStatus ==
  \A f \in Fingerprint : told[f] = issue[f].status \/ f \in echoed
==============================================================================
