SPECIFICATION Spec
CONSTANTS
  CompBits = 2
  ChunkSize = 2
  XBits = 9
  YBits = 5
INVARIANT AddAlwaysExact
