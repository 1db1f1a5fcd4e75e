\* One recurring topic on two workers, slow handlers, a crash; pages of the
\* Tasks screen made while one worker runs.
SPECIFICATION ScreenSpec
CONSTANTS
  purge = purge
  NoRow = NoRow
  Worker = {a, b}
  Row = {r1, r2, r3}
  Topic = {purge}
  TopicOf <- AllPurge
  Recurring = {purge}
  Handled <- HandleAll
  Ledgered = {}
  MaxAttempts = 2
  Batch = 3
  Lease = 1
  Backoff = 1
  Every = 1
  MaxCrashes = 1
CONSTRAINT Watched
SYMMETRY Alike
INVARIANTS
  RecurringNeverStops
  NoTopicMisplaced
