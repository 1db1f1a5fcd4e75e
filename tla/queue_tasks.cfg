\* Two one-shot rows, one of them through the ledger, the other unknown to
\* one worker; slow workers that are fair, one crash, stop
\* or lost database.
CONSTANTS
  a = a
  b = b
  mail = mail
  news = news
  r1 = r1
  r2 = r2
  NoRow = NoRow
  Worker = {a, b}
  Row = {r1, r2}
  Topic = {mail, news}
  TopicOf <- MailAndNews
  Recurring = {}
  Handled <- HandleRolling
  Ledgered = {r1}
  MaxAttempts = 2
  Batch = 2
  Lease = 2
  Backoff = 1
  Every = 0
  MaxCrashes = 1
SPECIFICATION FairSpec
INVARIANTS
  EffectAtMostOnce
  ReceiptsAreTrue
PROPERTIES
  EveryTaskLands
