SPECIFICATION Spec
CONSTANTS
  Keys = {k1, k2}
  Bodies = {"hello", "other"}
  ClientHello = "hello"
  SectionsFor <- MCSectionsFor
  MaxLog = 2
  MaxEvents = 5
INVARIANTS
  TypeOK
  CursorInRange
  OrderIsIndex
  ViewFollowsTracker
  EvictionsCounted
PROPERTIES
  SelectionKept
