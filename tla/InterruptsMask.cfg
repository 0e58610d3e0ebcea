SPECIFICATION IrqFairSpec
CONSTANT MaxHeld = 1
CHECK_DEADLOCK FALSE
PROPERTY MaskRestored
