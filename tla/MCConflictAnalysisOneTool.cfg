SPECIFICATION AnalysisSpec
CONSTANTS
  t1 = t1
  t2 = t2
  r1 = r1
  r2 = r2
  Tool = {t1}
  Key = {"k1"}
  GatedKey = {}
  Description = {d1}
  Schema = {s1, s2}
  Settable = {}
  Hash <- Text
  Embedding <- Text
  Request = {r1, r2}
  MaxRevisions = 3
  NoTool = NoTool
  NoRow = NoRow
  None = None
  EnvOf <- OneEnv
  NameOf <- TwoCases
  Lower <- LowerCase
  Overlap <- TypeCollision
  Near <- EqualSchema
  MaxSnapshots = 3
  MaxTrouble = 2
CONSTRAINT Bounded
SYMMETRY Symmetry
INVARIANTS
  AnalysisTypeOK
  HashedMeansEmbedded
PROPERTIES
  ImplementsRegistry
