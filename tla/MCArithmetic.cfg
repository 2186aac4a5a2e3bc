SPECIFICATION Spec
CONSTANTS
  Bytes <- EdgeBytes
  Words <- EdgeWords
  LongBytes <- FewBytes
  MaxWeight = 65536
INVARIANTS
  ArTypeOK
  FlagsAreArithmetic
  BranchesCompare
  DecimalSum
  LongArithmetic
