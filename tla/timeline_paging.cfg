SPECIFICATION Spec
CONSTANTS
  PageSize = 2
  Apps = {"web"}
  NoFilter = "all"
  MaxRows = 4
INVARIANT PagesReachTheEnd
CHECK_DEADLOCK FALSE
