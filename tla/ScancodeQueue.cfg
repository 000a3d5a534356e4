CONSTANTS
  Capacity = 3
  Scancodes = {0, 1, 2}
SPECIFICATION Spec
PROPERTIES
  ImplementsFifo
