SPECIFICATION MCFairSpec
CONSTANTS
  Fields = {f1, f2}
  Values = {0, 1}
  Initial <- MCInitial
  Readers = {r1}
  Modulus = 4
  MaxSeq = 4
INVARIANTS TypeOK AcceptedCopyValid EvenMeansQuiescent
PROPERTIES AtomicReads ReaderTerminates
