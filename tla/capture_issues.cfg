\* Two scenarios of ExceptionCaptureMC: a storm in a process that stops, and
\* two processes and an administrator at one issue.
SPECIFICATION FairSpec
CONSTANTS
  p1 = p1
  p2 = p2
  storm = storm
  other = other
  fault = fault
  report = report
  r1 = r1
  r2 = r2
  None = None
  NoRelease = NoRelease
  Fingerprint = {"a", "b", "c", "d"}
  Admin = {admin}
  Release = {r1, r2}
  Process = {p1, p2}
  Kind = {storm, other, fault, report}
  Fault = fault
  Report = report
  PrintOf <- Prints
  ShedKey <- Keys
  ReleaseOf <- Releases
  Room = 3
  Budgets <- Scenarios
INVARIANTS
  EveryCaptureAccounted
  EveryKeySurvives
  CountsOccurrences
  StopLeavesNothing
  ResolvedMeansQuiet
  JournalTellsStatus
PROPERTIES
  EveryCaptureLands
CHECK_DEADLOCK FALSE
