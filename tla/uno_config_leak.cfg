CONSTANTS
  Inputs <- MCInputs
  DeviceRid = 0
  DeviceEp = 2
  PACKET_SIZE = 2
  MemSize = 4
  DefaultByte = 5
  USB2USART_BUFLEN = 128
  Writes <- MCMixedWrites
  Reads = {}
  MaxChanges = 0
  MaxRequests = 2
SPECIFICATION Spec
INVARIANT MemoryFaithful
