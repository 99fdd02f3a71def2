\* The writer alone.
SPECIFICATION Spec
CONSTANTS
  Strings <- TwoStrings
  Bytes = {1, 2, 3}
  kBufferSize = 1
  Threads = {}
  Offsets = {}
  Sizes = {}
  Absent = Absent
  Failed = Failed
INVARIANTS OkMeansWritten
