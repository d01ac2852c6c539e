SPECIFICATION Spec
CONSTANTS
  Top = 25
  p1 = p1
  m1 = m1
  m2 = m2
  m3 = m3
  w1 = w1
  s1 = s1
  s2 = s2
  f1 = f1
  f2 = f2
  f3 = f3
  c1 = c1
  a1 = a1
  g1 = g1
  t1 = t1
  Projects = {p1}
  Milestones = {m1}
  Workflows = {w1}
  SubWorkflows = {s1}
  Features = {f1, f2}
  Comments = {c1}
  Personas = {a1}
  WorkflowPersonas = {g1}
  Texts = {t1}
  Modes = {"editor", "viewer", "demo"}
  Forms = {"create", "move", "edit", "delete", "comment", "persona"}
  Start <- OneCard
  MaxEdits = 2
  MaxLoads = 1
  MaxFaults = 1
INVARIANTS TypeOK BoardsAgree
\* The forms are bounded: a behaviour ends when they are used up.
CHECK_DEADLOCK FALSE
