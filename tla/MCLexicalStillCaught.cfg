SPECIFICATION AnalysisSpec
CONSTANTS
  t1 = t1
  t2 = t2
  r1 = r1
  r2 = r2
  Tool = {t1, t2}
  Key = {"k1", "k2"}
  GatedKey = {"k2"}
  Description = {d1}
  Schema = {s1, s2}
  Settable = {"active"}
  Hash <- Text
  Embedding <- Text
  Request = {r1, r2}
  MaxRevisions = 2
  NoTool = NoTool
  NoRow = NoRow
  None = None
  EnvOf <- OneEnv
  NameOf <- TwoCases
  Lower <- LowerCase
  Overlap <- TypeCollision
  Near <- EqualSchema
  MaxSnapshots = 3
  MaxTrouble = 1
CONSTRAINT Bounded
SYMMETRY Symmetry
INVARIANT
  LexicalConflictsStillCaught
