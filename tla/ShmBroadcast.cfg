SPECIFICATION Spec
CONSTANTS
  NLocal = 2
  RemoteReader = {3}
  MaxChunks = 2
  MaxMessages = 4
  Hwm = 5
INVARIANTS TypeOK BlockStable SocketBounded
PROPERTY Broadcast
