SPECIFICATION Spec
CONSTANTS
  s1 = s1
  k1 = k1
  q1 = q1
  t1 = t1
  c1 = c1
  c2 = c2
  None = None
  Sessions = {s1}
  Keys = {k1}
  Requests = {q1}
  Turns = {t1}
  Calls = {}
  Harnesses = {"mews", "acp"}
  Modes = {"sequential"}
  MaxSteps = 1
  RequestsDrop = TRUE
INVARIANTS
  TaskLeavesNoActiveTurn
