\* Two callers and four calls, some of them made by the items themselves.
SPECIFICATION FairSpec
CONSTANTS
  Callers = {c1, c2}
  BG = BG
  Items = {i1, i2, i3, i4}
  None = None
INVARIANTS NoneStranded InOnePlace
PROPERTIES ImplementsTaskQueue
