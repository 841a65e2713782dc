\* Three registers, frames of three words: a stack that is nearly empty when the
\* process starts holds all calls of the shell, one that is nearly full only two.
\* 50 is 1212 in base 3: four bytes without a zero, as 0xDEADBEEF has.  The buffer
\* of printf holds exactly the text, the input and these four.
CONSTANTS
    STACK_WORDS = 56
    SAVED = 3
    FRAME = 3
    DEPTH = 2
    Used = {2, 44}
    PAGE_CELLS = 28
    HEADER = 3
    MAGIC_STRING = 50
    WORD = 6561
    BYTE = 3
    BUFFER_SIZE = 9
    TEXT = 2
    INPUT_SIZE = 3
    CWD_SIZE = 4
    PathLength = 2
    Chars <- Typed
    MaxTyped = 4
    Programs <- AllPrograms
SPECIFICATION Spec
INVARIANT SavedRegistersRestored
\* A program ends in a loop, and a fault in another.
CHECK_DEADLOCK FALSE
