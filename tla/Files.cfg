\* One writer, one sequential reader and two threads that share a descriptor.
SPECIFICATION Spec
CONSTANTS
  Strings <- TwoStrings
  Bytes = {1, 2, 3}
  kBufferSize = 1
  Threads = {t1, t2}
  Offsets = {0, 1}
  Sizes = {1}
  Absent = Absent
  Failed = Failed
INVARIANTS NothingLost
PROPERTIES ReadsWhole ReadIsAtomic
