SPECIFICATION Spec
CONSTANTS
  Cards = {f1}
  Items = {i1, i2}
  Syncers = {s1, s2}
  Locals = {m1}
  Remotes = {x1}
  Oversize = {}
  MaxPlane = 3
  MaxLocal = 3
  NoLink = NoLink
  Budget <- RelinkBudget
SYMMETRY Symmetry
INVARIANTS ImportedOnce RowsPairCopies ImportsAreMapped DedupeInv
PROPERTIES NoReimport OkIsHonest
\* The comments are bounded: no run begins once the bound is reached.
CHECK_DEADLOCK FALSE
