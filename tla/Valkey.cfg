CONSTANTS
  c1 = c1
  c2 = c2
  ann = ann
  x = x
  y = y
  Nobody = Nobody
  Clients = {c1, c2}
  Owners = {ann, Nobody}
  Emails = {x, y}
  MaxIds = 2
  MaxTTL = 1
  MaxTime = 1
  MaxJobs = 3
  MaxShared = 3
  Residents <- AnnsRow
  Wheres <- SomeWheres
  Patches <- SomePatches
SYMMETRY Symmetry
SPECIFICATION Spec
INVARIANTS
  Findable
  Truthful
  UniqueHolds
PROPERTIES
  CollectsOnlyTheDead
