CONSTANTS
  MAX = 3
  Bytes = {"0", "1", "2", "+", "-", "*", "/", "%", "(", ")", " "}
  MaxInput = 7
SPECIFICATION Spec
INVARIANT CalculatesMeaning
