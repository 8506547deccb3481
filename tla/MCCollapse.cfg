\* Three panels, every page of the kinds modelled, five actions of visitors and scripts.
SPECIFICATION FairSpec
CONSTANTS
  P = 3
  MaxCalls = 5
INVARIANTS Consistent OneOpenPanel TriggerTellsTruth
PROPERTIES PanelSettles
CHECK_DEADLOCK FALSE
