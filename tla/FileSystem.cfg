CONSTANTS
  ValidNames = {"a", "b", "c", "d"}
  InvalidNames = {"a/b"}
  Chars = {1, 2}
  MaxText = 2
  MAX_FILES = 3
  MAX_FILE_SIZE = 1
SPECIFICATION Spec
INVARIANTS TotalIsSum
PROPERTIES FilesPersist ImplementsStore
