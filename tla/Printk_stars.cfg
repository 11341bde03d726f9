SPECIFICATION Spec
CONSTANTS
    Formats <- StarredFormats
    Bits = 5
INVARIANT StarsGiveTheField
CHECK_DEADLOCK FALSE
