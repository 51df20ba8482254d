CONSTANTS
  Sockets = {s1, s2, s3}
  Receivers = {s1}
  Nil = Nil
  UserPorts = {3}
  FIRST_PORT = 2
  PORTS = 5
  FirstLast = 3
  Blocks = {b1, b2}
  BLOCKSIZE = 24
  BUFFERSIZE = 2
  Datagrams <- MCDatagrams
  Behind = {54}
  MaxDatagrams = 2
SPECIFICATION Spec
INVARIANTS TypeOK BoundOnce BlocksAccounted CastIdentifies
PROPERTY QueuedReceived
CHECK_DEADLOCK FALSE
