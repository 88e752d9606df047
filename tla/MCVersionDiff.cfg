CONSTANTS
  Null = Null
  HeadingLevel <- MCHeadingLevel
  Shape <- MCShape
  CONTEXT_LINES = 1
  MIN_COLLAPSE_LINES = 2
  MIN_COLLAPSE_BLOCKS = 2
  MAX_LCS_CELLS = 20
  Revisions <- MCRevisions
SPECIFICATION Spec
INVARIANTS ComparisonIsExact NothingIsMarkedInVain
