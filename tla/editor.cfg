SPECIFICATION EditorSpec
CONSTANTS
  n1 = n1  n2 = n2  l1 = l1  m1 = m1  m2 = m2  s1 = s1  s2 = s2  None = None
  Nodes <- TwoNodes
  Looks <- OneLook
  Flawed <- TwoTriggers
  Names <- TwoNames
  Saves <- TwoSaves
  MaxHistory = 2
SYMMETRY Symmetric
CONSTRAINT ShortHistory
INVARIANTS TypeOK CleanIsSaved
PROPERTIES ImplementsTimeline
CHECK_DEADLOCK FALSE
