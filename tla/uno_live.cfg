CONSTANTS
  Inputs <- MCTwoInputs
  DeviceRid = 0
  DeviceEp = 2
  PACKET_SIZE = 2
  MemSize = 4
  DefaultByte = 5
  USB2USART_BUFLEN = 128
  Writes = {}
  Reads = {62}
  MaxChanges = 4
  MaxRequests = 2
SPECIFICATION FairSpec
INVARIANT UplinkBounded
PROPERTY CreditReturns
