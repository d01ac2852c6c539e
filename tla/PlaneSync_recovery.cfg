SPECIFICATION FairSpec
CONSTANTS
  Cards = {f1}
  Items = {i1}
  Syncers = {s1}
  Locals = {m1}
  Remotes = {x1, x2}
  Oversize = {x2}
  MaxPlane = 20
  MaxLocal = 20
  NoLink = NoLink
  Budget <- SerialBudget
INVARIANTS TypeOK  NeverPushedBack
PROPERTIES EventuallyPushed EventuallyImported EventuallyHonest
\* A card deleted before it is linked leaves the poller no link to work on.
CHECK_DEADLOCK FALSE
