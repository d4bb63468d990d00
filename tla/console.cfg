SPECIFICATION Spec
CONSTANTS
  Readers = {p1}
  Writers = {p2}
  SIZE = 2
  UINT = 4
  TXSIZE = 1
  TXUINT = 2
  FIFO = 1
  ReadSizes = {3}
  Payloads <- MCPayloads
  None = None
INVARIANTS ConsoleInv
PROPERTIES ReadsEndAtLine ImplementsLineInput 
