CONSTANTS
    Base = 0
    Size = 4
    MaxRequest = 2

SPECIFICATION Spec
INVARIANT HangsOnlyWhenExhausted
CHECK_DEADLOCK FALSE
