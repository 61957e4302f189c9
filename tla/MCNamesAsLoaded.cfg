\* README.md:190, loadFile and loadString register the text they are given, against the released text.
SPECIFICATION Spec
CONSTANTS
  StoreObject = {s}
  StoreId = {"x"}
  NoId = NoId
  PolicyId = {p, q}
  Text = {"A", "B", "broken"}
  WellFormed = {"A", "B"}
  HeapBlock = {b1, b2}
  MaxCalls = 2
INVARIANT
  NamesAsLoaded
