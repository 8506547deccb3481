\* Three items, as on the page, and four actions of the visitor and of scripts.
SPECIFICATION FairSpec
CONSTANTS
  N = 3
  MaxCalls = 4
INVARIANTS Consistent OneItemShown
PROPERTIES CyclingSurvivesSlide RequestServed
CHECK_DEADLOCK FALSE
