SPECIFICATION Spec
CONSTANTS
  Top = 25
  p1 = p1
  m1 = m1
  m2 = m2
  m3 = m3
  w1 = w1
  s1 = s1
  s2 = s2
  f1 = f1
  f2 = f2
  f3 = f3
  c1 = c1
  a1 = a1
  g1 = g1
  t1 = t1
  Projects = {p1}
  Milestones = {m1, m2, m3}
  Workflows = {w1}
  SubWorkflows = {s1, s2}
  Features = {f1, f2, f3}
  Comments = {}
  Personas = {}
  WorkflowPersonas = {}
  Texts = {t1}
  Modes = {"editor"}
  Forms = {"create", "move", "delete"}
  Start <- TwoReleases
  MaxEdits = 3
  MaxLoads = 0
  MaxFaults = 0
INVARIANTS RowsAgree RoomOnThePage
PROPERTIES OnlyLoadsRevive
\* The forms are bounded: a behaviour ends when they are used up.
CHECK_DEADLOCK FALSE
