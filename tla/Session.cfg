\* Two items to notify or to publish, two shutdown subscribers.
CONSTANTS
  Items = 2
  Updates = 2
  Listeners = 2
SPECIFICATION Spec
INVARIANTS TypeOK AcksAreCounted NoneMeansAllRead ShutdownInOrder
PROPERTIES NotesKeepContract StreamsKeepContract SendReturns ShutdownReachesClient
CHECK_DEADLOCK FALSE
