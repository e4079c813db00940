CONSTANTS
  Inputs <- MCMidiInputs
  DeviceRid = 7
  DeviceEp = 3
  PACKET_SIZE = 2
  MemSize = 4
  DefaultByte = 5
  USB2USART_BUFLEN = 128
  Writes = {}
  Reads = {}
  MaxChanges = 2
  MaxRequests = 0
SPECIFICATION FairSpec
PROPERTY CreditReturns
