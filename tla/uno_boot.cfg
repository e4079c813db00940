CONSTANTS
  Inputs <- MCTwoInputs
  DeviceRid = 0
  DeviceEp = 2
  PACKET_SIZE = 2
  MemSize = 4
  DefaultByte = 5
  USB2USART_BUFLEN = 128
  Writes <- MCConfigWrites
  Reads = {62}
  MaxChanges = 2
  MaxRequests = 2
SPECIFICATION Spec
INVARIANTS TypeOK FrameSync ReplyMatches MemoryFaithful
PROPERTIES WritesInOrder CreditSpec
