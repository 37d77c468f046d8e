SPECIFICATION Spec
CONSTANT N = 3
CHECK_DEADLOCK FALSE
PROPERTY AllStop
