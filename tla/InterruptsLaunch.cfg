SPECIFICATION IrqFairSpec
CONSTANT MaxHeld = 1
CHECK_DEADLOCK FALSE
INVARIANT LaunchReachesEl0
