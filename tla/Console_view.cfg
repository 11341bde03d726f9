SPECIFICATION Spec
CONSTANTS
    BUFF_WIDTH = 2
    CON_HIGH = 2
    BUFF_HIGH = 4
    TAB = 2
    WORD = 16
    Letters = {"a"}
    Blank = " "
INVARIANT ViewInBuffer
