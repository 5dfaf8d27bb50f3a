SPECIFICATION Spec
CONSTANTS
  Txns = {t1, t2}
  Ids = {1, 2}
  Rows <- MCRows
  NoRow = NoRow
  Same = Same
  RepeatableRead = {t1, t2}
  Initial <- MCInitial
INVARIANT OnePrimaryPerGroup
