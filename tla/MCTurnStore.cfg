SPECIFICATION Spec
CONSTANTS
  s1 = s1
  s2 = s2
  k1 = k1
  k2 = k2
  q1 = q1
  q2 = q2
  t1 = t1
  t2 = t2
  o1 = o1
  o2 = o2
  c1 = c1
  c2 = c2
  h1 = h1
  None = None
  Sessions = {s1, s2}
  Keys = {k1, k2}
  Requests = {q1, q2}
  Turns = {t1, t2}
  Ops = {o1, o2}
  Calls = {c1, c2}
  Harnesses = {h1}
  MaxResults = 1
SYMMETRY Symmetry
CONSTRAINT Explored
INVARIANTS
  TypeOK
  EndedTurnHasNoOpenEffect
  EveryAcceptedCallIsAnswered
  StoreResultsAreHonest
  CompletedTurnLostNoOutcome
  OneActiveTurnPerSession
  ReceiptNamesItsTurn
PROPERTIES
  EndedTurnIsFinal
