SPECIFICATION LibrarySpec
CONSTANTS
  MaxKey = 7
  TwinKey = 2
  Items = {i1, i2, i3}
  Bytes = {0, 1}
  MinSize = 2
  MaxHint = 5
  HashNodes <- TableNodes
  Capacity <- BufferSizes
  Strings <- SomeStrings
  Slabs = {s1, s2, s3}
  Count = 3
  Orders = 5
  HeaderSize = 3
  ArenaSize = 31
  Sizes = {1, 2, 5, 13, 14}
  CompBits = 2
  ChunkSize = 2
  XBits = 6
  YBits = 5
  MinCap = 2
  MaxLength = 5
  Descs = {d1, d2}
  Threshold = 2
  MaxRefs = 2
  MaxText = 6
  MinElems = 1
  Elems = {1, 2}
  MaxElems = 4
  Raisers = {r1, r2, r3, r4}
  Requests = {q1, q2}
  MaxAsks = 2
  None = None
INVARIANT GcNotFatal
