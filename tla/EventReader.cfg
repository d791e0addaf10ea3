\* Any step of the start may fail; two calls of Close at any moment; nobody need receive.
SPECIFICATION Spec
CONSTANTS
  RingSlots = 2
  ChanCap = 2
  Closers = {"main", "other"}
  MaxEvents = 5
CHECK_DEADLOCK FALSE
INVARIANTS TypeOK EventsInOrder NothingLeftOpen
PROPERTIES RingDoesNotStayFull CloseEndsReader
