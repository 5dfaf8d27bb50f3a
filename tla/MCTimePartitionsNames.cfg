SPECIFICATION Spec
CONSTANTS
  Sessions = {s1}
  Intervals = {30}
  Times = {0, 14, 40}
  date_trunc <- MCdate_trunc
  to_char <- MCto_char
  ManualRanges = {}
INVARIANT NamesUnique
