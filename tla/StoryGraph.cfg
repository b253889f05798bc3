SPECIFICATION GraphSpec
CONSTANTS
  Requests = {q1, q2}
  Characters = {a, b, c}
  Places = {}
  Types = {t1, t2}
  RelationIds = {r1, r2}
  EventIds = {e1, e2}
  LinkIds = {l1, l2}
  NoRow = NoRow
  NoRequest = NoRequest
SYMMETRY Symmetry
INVARIANTS GraphIsWhole EdgesDiffer
