SPECIFICATION Spec
CONSTANTS
  Sessions = {s1, s2}
  Intervals = {5, 10}
  Times = {3, 17, 25}
  date_trunc <- MCdate_trunc
  to_char <- MCto_char
  ManualRanges <- MCManualRanges
INVARIANT TypeOK
PROPERTIES CallsSucceed FirstCallCovers RepeatedCallIsIdle
