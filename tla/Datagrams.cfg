CONSTANTS
  Interfaces <- MCInterfaces
  Gateway <- MCGateway
  Dests4 <- MCDests4
  Texts6 <- MCTexts6
  Hosts <- MCHosts
  SPort = 1025
  DPort = 7
  Sizes = {2, 3, 40}
  Chunks <- MCChunks
  StaleBytes = {0, 255}
  Padding = {0, 5}
  BLOCKSIZE = 60
  COUNT = 1
  FirstId = 65535
  MaxRequests = 1
SPECIFICATION Spec
INVARIANTS TypeOK NoCorruptDelivered FilledAccepted NextHopOnLink DestinationAsNamed
CHECK_DEADLOCK FALSE
