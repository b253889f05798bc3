SPECIFICATION Spec
CONSTANTS
  Processes = {p, q, s}
  r1 = r1
  r2 = r2
  r3 = r3
  side = side
  old = old
  new = new
  newest = newest
  branch = branch
  bare = bare
  Codes = {old, new, newest, branch, bare}
  Ships <- MCShips
  Bare = {bare}
  Drops <- MCDrops
  NoProcess = NoProcess
  NoCode = NoCode
  NoCopy = NoCopy
  MaxWrites = 2
SYMMETRY Symmetry
INVARIANTS Inv ServedHasItsSchema
PROPERTIES UpgradeIsCopied
