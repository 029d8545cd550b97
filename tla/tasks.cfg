SPECIFICATION TasksSpec
CONSTANTS
  w1 = w1  w2 = w2  s1 = s1  s2 = s2
  Workflows <- TwoWorkflows
  Slots <- TwoSlots
  Chunks <- InTwo
  MaxChords = 2
  MaxFaults = 2
INVARIANTS WorkflowsResultStays
PROPERTIES Settles
CHECK_DEADLOCK FALSE
