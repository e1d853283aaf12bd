SPECIFICATION Spec
CONSTANT MaxFailures = 3
INVARIANT ShiftsWithinBuffer
CHECK_DEADLOCK FALSE
