SPECIFICATION Spec
CONSTANTS
  Cards = {f1}
  Items = {i1}
  Syncers = {s1}
  Locals = {m1, m2}
  Remotes = {x1, x2}
  Oversize = {x2}
  MaxPlane = 20
  MaxLocal = 20
  NoLink = NoLink
  Budget <- CleanBudget
PROPERTIES ImplementsMirror
