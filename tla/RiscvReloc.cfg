SPECIFICATION RelocSpec
CONSTANTS
  Programs <- MCPrograms
  Contents <- MCContents
  LoadAddrs <- MCLoadAddrs
CHECK_DEADLOCK FALSE
INVARIANTS JumpsReachTarget OnlyImmediateChanges CallsReachSymbol HalvesMakeAddress CompressedLui DifferenceOfSymbols
