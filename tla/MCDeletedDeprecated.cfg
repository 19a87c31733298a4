SPECIFICATION Spec
CONSTANTS
  t1 = t1
  t2 = t2
  r1 = r1
  r2 = r2
  d1 = d1
  d2 = d2
  s1 = s1
  s2 = s2
  h1 = h1
  e1 = e1
  Tool = {t1, t2}
  Key = {k1}
  GatedKey = {k1}
  Settable = {"active", "retired"}
  Description = {d1, d2}
  Schema = {s1, s2}
  Hash = {h1}
  Embedding = {}
  Request = {r1, r2}
  MaxRevisions = 3
  NoTool = NoTool
  NoRow = NoRow
  None = None
SYMMETRY Symmetry
INVARIANT
  DeletedMeansDeprecated
