CONSTANTS
  s1 = s1
  s2 = s2
  t1 = t1
  t2 = t2
  t3 = t3
  x = x
  y = y
  Nothing = Nothing
  Sources = {s1, s2}
  Targets = {t1, t2, t3}
  Tags = {x, y}
  MaxEdges = 2
  Inputs <- SomeInputs
  MaxRows = 3
  MaxResidents = 2
  MaxRivals = 1
SYMMETRY Symmetry
SPECIFICATION Spec
INVARIANTS
  VerbsDoWhatTheySay
  OneAtATime
  NoSecondEdge
PROPERTIES
  StayingIsUninterrupted
