SPECIFICATION Spec
CONSTANTS
  a1 = a1
  a2 = a2
  a3 = a3
  a4 = a4
  a5 = a5
  e1 = e1
  e2 = e2
  e3 = e3
  e4 = e4
  e5 = e5
  e6 = e6
  none = none
  c1 = c1
  c2 = c2
  Nobody = none
  Accounts = {a1, a2, a3, a4}
  Emails = {e1, e2, e3, e4}
  Clients = {c1}
  StartAccounts <- ThreeAccounts
  Start <- OwnersAndViewer
  StartSeats = 3
  MaxSeats = 3
  MaxRequests = 4
INVARIANTS TypeOK AlwaysOwned
PROPERTIES EditorsHaveSeats OnlyAddressesStrand
\* The requests are bounded: a behaviour ends when they are used up.
CHECK_DEADLOCK FALSE
