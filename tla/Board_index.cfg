SPECIFICATION Spec
CONSTANTS
  Top = 25
  p1 = p1
  m1 = m1
  m2 = m2
  w1 = w1
  w2 = w2
  s1 = s1
  s2 = s2
  f1 = f1
  f2 = f2
  f3 = f3
  f4 = f4
  t1 = t1
  t2 = t2
  c1 = c1
  c2 = c2
  Projects = {p1}
  Milestones = {m1}
  Workflows = {w1}
  SubWorkflows = {s1}
  Features = {f1, f2, f3}
  Titles = {t1}
  Clients = {c1}
  Start <- ThreeCards
  MaxRequests = 5
PROPERTIES MoveLandsAtIndex
\* The requests are bounded: a behaviour ends when they are used up.
CHECK_DEADLOCK FALSE
