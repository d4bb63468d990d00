SPECIFICATION Spec
CONSTANTS
  QNUM = 4
  Elems = {a, b, c}
  Null = Null
PROPERTIES
  ImplementsFifo
