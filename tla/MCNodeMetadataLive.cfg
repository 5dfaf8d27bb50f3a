SPECIFICATION FairSpec
CONSTANTS
  Txns = {t1, t2}
  Ids = {1}
  Rows <- MCOneRow
  NoRow = NoRow
  Same = Same
  RepeatableRead = {t2}
  Initial <- MCInitialOne
PROPERTY StatementsEnd
