CONSTANTS
  Inputs <- MCInputs
  DeviceRid = 4
  DeviceEp = 1
  PACKET_SIZE = 2
  MemSize = 4
  DefaultByte = 5
  USB2USART_BUFLEN = 128
  Writes <- MCOtherWrites
  Reads = {}
  MaxChanges = 2
  MaxRequests = 1
SPECIFICATION SettledSpec
INVARIANTS MemoryFaithful
PROPERTIES ReportOnlyWhenReady SlotSpec LatestShown
