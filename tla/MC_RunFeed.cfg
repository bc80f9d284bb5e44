\* Two steps, one client that reconnects once, a channel that holds one event.
CONSTANTS
  Main = "main"
  Steps = {"s1", "s2"}
  Emits <- MCEmits
  Clients = {"c"}
  Attempts = 2
  Buffer = 1
SPECIFICATION Spec
CHECK_DEADLOCK FALSE
INVARIANTS
  TypeOK
  EachEventOnce
  SeenIsOnDisk
  EndMeansFinished
  NoSendOnClosed
PROPERTIES
  StreamEnds
