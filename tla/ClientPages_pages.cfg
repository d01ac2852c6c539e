SPECIFICATION Spec
CONSTANTS
  None = None
  u1 = u1
  u2 = u2
  u3 = u3
  u4 = u4
  A = A
  B = B
  C = C
  D = D
  pA = pA
  pB = pB
  pN = pN
  i1 = i1
  i2 = i2
  k1 = k1
  k2 = k2
  Accounts = {u1, u2, u3, u4}
  Workspaces = {A, B, C, D}
  Projects = {pA, pB, pN}
  Invites = {i1, i2}
  Keys = {k1, k2}
  Start <- Tables
  First = u1
  Invitee <- Invited
  Grants = {"VIEWER"}
  Status <- States
  Tabs <- Opened
  Links <- Linked
  Typed <- Entered
  MaxForms = 2
  MaxTurns = 1
INVARIANTS SessionIsShown ShowsItsOwn ListsAgree NeverBlank NeverStuck
\* The acts are bounded: a behaviour ends when they are used up.
CHECK_DEADLOCK FALSE
