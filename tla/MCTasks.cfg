CONSTANTS
  b = b
  s = s
  x = x
  Task = {b, s}
  KindOf <- MCKind
  ToolsOf <- MCTools
  Registered <- MCRegistered
  Tool = {u1, u2}
  Text = {x, y}
  Worker = {w1, w2}
  MaxRetries = 1
  MaxCrashes = 1
  MaxEdits = 1
  None = None
  NoTask = NoTask

SPECIFICATION Spec

INVARIANTS
  TypeOK
  NothingLost
  CopiesBounded
  HashMeansIndexed
  HalfDoneIsRetried
  DoneMeansEmbedded

PROPERTY
  EveryCallEnds

CHECK_DEADLOCK FALSE
