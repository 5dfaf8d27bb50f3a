SPECIFICATION Spec
CONSTANTS
  Sessions = {s1}
  Intervals = {10}
  Times = {3, 8, 17, 25}
  date_trunc <- MCdate_trunc
  to_char <- MCto_char
  ManualRanges = {}
PROPERTY GivenRangeCovered
