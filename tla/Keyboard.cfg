CONSTANTS
  SCANCODE_QUEUE_CAPACITY = 2
  Keys = {42, 54, 58, 30, 72, 328, 331}
  MaxDown = 2
SPECIFICATION KeyboardSpec
INVARIANTS DecodesAsMeant LossHeals
