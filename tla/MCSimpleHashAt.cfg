SPECIFICATION Spec
CONSTANTS
  Keys = {"a", "b", "c"}
  Hash <- MCHash
  MaxSize = 8
  MaxDib = 1
  MaxMove = 1
  Sizes = {0, 3}
  Ats = {0, 7}
PROPERTY IterationComplete
