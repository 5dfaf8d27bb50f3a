SPECIFICATION Spec
CONSTANTS
  Txns = {t1, t2}
  Ids = {1, 2}
  Rows <- MCImprovementRows
  NoRow = NoRow
  Same = Same
  RepeatableRead = {}
  Initial <- MCInitialNone
INVARIANT ImprovementKept
