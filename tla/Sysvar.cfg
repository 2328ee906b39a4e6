\* Both sysvar layouts, every kind of threshold, products up to beyond u64.
SPECIFICATION SysvarSpec
CONSTANTS
  U64Max = 1023
  Precision = 7
  Overhead = 4
  Layout = {"classic", "condensed", "missing"}
  BytePrice = {0, 1, 2, 3, 5, 7, 11, 16, 31, 61, 102, 146, 300}
  Threshold <- MCThreshold
  DataSize = {0, 1, 3, 6, 9}
INVARIANTS
  AsksWhatTheRuntimeAsks
  FailsInsteadOfWrapping
