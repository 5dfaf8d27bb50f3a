SPECIFICATION Spec
CONSTANTS
  Txns = {t1, t2}
  Ids = {1, 2}
  Rows <- MCRows
  NoRow = NoRow
  Same = Same
  RepeatableRead = {}
  Initial <- MCInitial
INVARIANTS TypeOK SingleDefault DefaultTakesEffect
SYMMETRY Symmetry
