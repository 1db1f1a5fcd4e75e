\* A rolling deploy: only b carries audit.  Both facts dispatched, one of
\* them also spread, one rollback or crash, fair listeners; transactions may
\* be open at once, within one instant.
CONSTANTS
  a = a
  b = b
  mail = mail
  audit = audit
  NoOne = NoOne
  Fact = {1, 2}
  Topic = {mail, audit}
  Listener = {a, b}
  Wants <- WantsTwo
  Carries <- CarriesRolling
  SpreadFact = {1}
  Batch = 1
  Settle = 0
  MaxTx = 0
  Faults = {"crash", "rollback"}
  MaxFaults = 1
  MaxTime = 1
SPECIFICATION FairSpec
INVARIANTS
  CursorNeverSkips
  SpreadOnce
PROPERTIES
  EveryFactHandled
  ImplementsDelivery
