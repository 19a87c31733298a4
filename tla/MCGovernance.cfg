CONSTANTS
  Request = {q1, q2}
  Environment = {e1}
  Role <- MCRole
  TTL = 1
  MaxTime = 3
  NoRequest = NoRequest
  None = None
  Symbol <- MCSymbol
  Actor <- MCActor
  NoFilter = NoFilter
  PageSize = 1
  Header = "CEF:0"
  MaxRecords = 4
  MaxCached = 2

SPECIFICATION MCSpec

INVARIANTS
  TypeOK
  DecidedInTime
  WalkMissesNothing
  PagesAddUpToExport
  CefLosesNothing

PROPERTIES
  ImplementsPromise
  NoRequestWaitsForever

