SPECIFICATION Spec
CONSTANT MaxFailures = 3
INVARIANT HeaderFirst
CHECK_DEADLOCK FALSE
