SPECIFICATION TelemetrySpec
CONSTANTS
  QueueCap = 2
  Routes = {"home", "probe"}
  Paths = {"lost"}
  Unmatched = "unmatched"
  LabelCap = 1
  Faults = {"refused", "locked"}
  Minutes = 2
  PerHour = 2
  MinuteRetention = 0
  HourRetention = 1
  Instances = 2
  Exchanges <- Traffic
  MaxExchanges = 3
  MaxFailures = 2
  PageSize = 2
  NoFilter = "all"
CONSTRAINT Together
INVARIANTS LinesAccounted ReportsAreTrue CountsAddUp PagesInOrder
CHECK_DEADLOCK FALSE
