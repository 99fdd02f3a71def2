\* Coding: groups of two bits; pairs of items around the boundaries, cut anywhere.
\* InternalKeys: five byte values: 0, three in between (so that a separator can be
\* made longer than every client's key), and the largest, which has no next.
\* Arena: blocks of 24 bytes, pointers of 8: padding, a block that is filled to the
\* last byte and one that is abandoned, a large request between small ones.
\* Random: a word of 8 bits and every seed; the factor has the largest number, which
\* the comment of random.h excludes, among its results, as 16807 has.
\* Logger: buffers of 6 and 9.
\* Decimal: base 3, and 16 the largest number, 121 in that base.
SPECIFICATION SequentialSpec
CONSTANTS
  Base = 4
  Max32 = 512
  Max64 = 524288
  Numbers <- Boundaries
  Slices <- SomeSlices
  CodedSequenceNumbers <- SomeSequenceNumbers
  MaxItems = 2
  MaxByte = 4
  UserKeys <- ShortKeys
  SequenceNumbers = {0, 4}
  BlockSize = 24
  Align = 8
  Sizes = {5, 6, 7}
  MaxMemory = 55
  Iters = {i1, i2}
  Nodes = {n1, n2, n3}
  NULL = NULL
  MaxRefs = 4
  MaxFunctions = 3
  Objects = {o1, o2, o3}
  Arrays = {a1, a2, a3}
  Texts = {t1, t2}
  FREE = FREE
  NoText = NoText
  NoObject = NoObject
  Half = 128
  A = 101
  Seeds <- SomeSeeds
  kBranching = 4
  kMaxHeight = 3
  Loggers = {l1, l2}
  Small = 6
  Big = 9
  Header = 3
  Messages <- SomeMessages
  MaxLines = 2
  Ten = 3
  kMaxUint64 = 16
  Characters = {0, 1, 2, 3}
  DecimalSlices <- ShortSlices
INVARIANTS GotIsSent OnlyCutItemsFail LengthsAgree
  TypeOK
  Apart PointersAligned UsageBounds
  TableOutlivesUsers CleanupsRunOnce TextsOwned SeedLives LinesWhole NumbersConsumed
PROPERTIES ShortenedBetween SuccessorAbove
CHECK_DEADLOCK FALSE
